----------------------------- MODULE WorkDeque ------------------------------
(***************************************************************************)
(* lgx_work_deque_t: the owner pushes and pops at the bottom, the others   *)
(* steal at the top.  Every access to top, bottom or the buffer is a step, *)
(* in the order the fences impose.                                         *)
(***************************************************************************)
EXTENDS Integers, Sequences

CONSTANTS Thieves, Jobs, NULL,
          Capacity,     \* dq->capacity (1024 for a worker)
          MaxIndex      \* bound: how far top and bottom run

VARIABLES top, bottom, buffer,
          opc, b, t, job,       \* the owner: next step and locals
          tpc, st, sjob,        \* each thief: next step and locals
          pushed, taken         \* how often each job went in, came out

owner == <<opc, b, t, job>>
thieves == <<tpc, st, sjob>>
vars == <<top, bottom, buffer, owner, thieves, pushed, taken>>

slot(i) == i % Capacity

ThiefGoto(v, l) == tpc' = [tpc EXCEPT ![v] = l]

\* A caller receives j; NULL is no job.
HandOut(j) == taken' = IF j = NULL THEN taken ELSE [taken EXCEPT ![j] = @ + 1]

\* lgx_work_deque_init
Init == /\ top = 0
        /\ bottom = 0
        /\ buffer = [i \in 0..(Capacity - 1) |-> NULL]
        /\ opc = "idle" /\ b = 0 /\ t = 0 /\ job = NULL
        /\ tpc = [v \in Thieves |-> "idle"]
        /\ st = [v \in Thieves |-> 0]
        /\ sjob = [v \in Thieves |-> NULL]
        /\ pushed = [j \in Jobs |-> 0]
        /\ taken = [j \in Jobs |-> 0]

-----------------------------------------------------------------------------
(* lgx_work_deque_push *)

PushWrite(j) == /\ opc = "idle"
                /\ pushed[j] = 0                \* each job is submitted once
                /\ bottom < MaxIndex
                /\ b' = bottom
                /\ buffer' = [buffer EXCEPT ![slot(bottom)] = j]
                /\ pushed' = [pushed EXCEPT ![j] = @ + 1]
                /\ opc' = "publish"
                /\ UNCHANGED <<top, bottom, t, job, thieves, taken>>

\* Mutant of PushPublish: bottom is left where the slot was written.
PublishNothing == /\ opc = "publish"
                  /\ bottom' = b
                  /\ opc' = "idle"
                  /\ UNCHANGED <<top, buffer, b, t, job, thieves, pushed, taken>>

PushPublish == /\ opc = "publish"
               /\ bottom' = b + 1
               /\ opc' = "idle"
               /\ UNCHANGED <<top, buffer, b, t, job, thieves, pushed, taken>>

-----------------------------------------------------------------------------
(* lgx_work_deque_pop *)

PopReserve == /\ opc = "idle"
              /\ bottom < MaxIndex
              /\ b' = bottom - 1
              /\ bottom' = bottom - 1
              /\ opc' = "poptop"
              /\ UNCHANGED <<top, buffer, t, job, thieves, pushed, taken>>

\* Load top, and the slot when there is one.
PopTop == /\ opc = "poptop"
          /\ t' = top
          /\ job' = IF top <= b THEN buffer[slot(b)] ELSE NULL
          /\ opc' = IF top < b THEN "return" ELSE IF top = b THEN "popcas" ELSE "restore"
          /\ UNCHANGED <<top, bottom, buffer, b, thieves, pushed, taken>>

\* The last element: CAS t -> t + 1 on top; a failure reloads t.
PopCas == /\ opc = "popcas"
          /\ IF top = t THEN top' = t + 1 /\ UNCHANGED <<t, job>>
                        ELSE t' = top /\ job' = NULL /\ UNCHANGED top
          /\ opc' = "restore1"
          /\ UNCHANGED <<bottom, buffer, b, thieves, pushed, taken>>

\* bottom = t + 1, whichever way the race went.
PopRestoreLast == /\ opc = "restore1"
                  /\ bottom' = t + 1
                  /\ opc' = "return"
                  /\ UNCHANGED <<top, buffer, b, t, job, thieves, pushed, taken>>

PopRestoreEmpty == /\ opc = "restore"
                   /\ bottom' = t
                   /\ opc' = "return"
                   /\ UNCHANGED <<top, buffer, b, t, job, thieves, pushed, taken>>

PopReturn == /\ opc = "return"
             /\ HandOut(job)
             /\ job' = NULL
             /\ opc' = "idle"
             /\ UNCHANGED <<top, bottom, buffer, b, t, thieves, pushed>>

-----------------------------------------------------------------------------
(* lgx_work_deque_steal *)

StealTop(v) == /\ tpc[v] = "idle"
               /\ top < MaxIndex
               /\ st' = [st EXCEPT ![v] = top]
               /\ ThiefGoto(v, "bottom")
               /\ UNCHANGED <<top, bottom, buffer, owner, sjob, pushed, taken>>

StealBottom(v) == /\ tpc[v] = "bottom"
                  /\ ThiefGoto(v, IF st[v] < bottom THEN "read" ELSE "idle")
                  /\ UNCHANGED <<top, bottom, buffer, owner, st, sjob, pushed, taken>>

StealRead(v) == /\ tpc[v] = "read"
                /\ sjob' = [sjob EXCEPT ![v] = buffer[slot(st[v])]]
                /\ ThiefGoto(v, "cas")
                /\ UNCHANGED <<top, bottom, buffer, owner, st, pushed, taken>>

StealCas(v) == /\ tpc[v] = "cas"
               /\ \/ /\ top = st[v]
                     /\ top' = st[v] + 1
                     /\ HandOut(sjob[v])
                  \/ /\ top # st[v]
                     /\ UNCHANGED <<top, taken>>
               /\ sjob' = [sjob EXCEPT ![v] = NULL]
               /\ ThiefGoto(v, "idle")
               /\ UNCHANGED <<bottom, buffer, owner, st, pushed>>

Owner == \/ \E j \in Jobs : PushWrite(j)
         \/ PushPublish \/ PopReserve \/ PopTop \/ PopCas
         \/ PopRestoreLast \/ PopRestoreEmpty \/ PopReturn

Steal(v) == StealTop(v) \/ StealBottom(v) \/ StealRead(v) \/ StealCas(v)

Next == Owner \/ \E v \in Thieves : Steal(v)

Spec == Init /\ [][Next]_vars

-----------------------------------------------------------------------------

Queued(j) == \E i \in top..(bottom - 1) : buffer[slot(i)] = j

InHand(j) == \/ job = j \/ (opc = "publish" /\ buffer[slot(b)] = j)
             \/ (opc \in {"poptop", "popcas"} /\ top <= b /\ buffer[slot(b)] = j)

\* No job is lost: each that went in and has not come out is between top and
\* bottom or in the owner's hands, whoever races for it.  This needs at most
\* Capacity jobs at a time: push does not look (lines 129-134).
NothingLost ==
    \A j \in Jobs : pushed[j] > taken[j] => Queued(j) \/ InHand(j)

\* A job comes out once for each time it went in
\* (tests/threading/test_threading_stress.c:72: count == TOTAL_JOBS).
TakenOnce == \A j \in Jobs : taken[j] <= pushed[j]

=============================================================================
