-------------------------------- MODULE Net --------------------------------
(***************************************************************************)
(* The network library (lgx_net.c): the connection table of a UDP socket,  *)
(* the serialization stream, and the delta encoding of states.             *)
(***************************************************************************)
EXTENDS Integers, FiniteSets, Sequences, SequencesExt, Bitwise

CONSTANTS Peers, NoPeer,
          max_connections, timeout_ms,
          Horizon,      \* bound: the clock
          Radix,        \* 256: values of a byte in a stream
          Numbers,      \* numbers the sender writes, taken modulo their width
          Strings,      \* lengths of the strings it writes
          max_len,      \* of write_string
          capacity,
          Bytes,        \* values of a byte of a state, 0..k
          MaxRun,       \* 255: longest run one record can hold
          MaxSize       \* bound: bytes of a state

-----------------------------------------------------------------------------
(* Connections: slots are reused, a datagram refreshes the connection of   *)
(* its sender, and lgx_net_update drops the ones not heard from.  Datagrams *)
(* of a peer may be lost or come after its connection is gone.             *)

VARIABLES connections,          \* [active, addr, last_recv_ms] of each slot
          now,
          heard                 \* history: when each slot's peer was last heard

connectionVars == <<connections, now, heard>>

Slots == 0..(max_connections - 1)

Unused == [active |-> FALSE, addr |-> NoPeer, last_recv_ms |-> 0]

ConnectionsInit == /\ connections = [s \in Slots |-> Unused]
                   /\ now = 0
                   /\ heard = [s \in Slots |-> 0]

Tick == /\ now < Horizon
        /\ now' = now + 1
        /\ UNCHANGED <<connections, heard>>

active(p) == {s \in Slots : connections[s].active /\ connections[s].addr = p}

\* lgx_net_connect takes the first slot that is not active.  The application
\* has no other connection to the peer: only the first would be refreshed.
Connect(p) == \E s \in Slots :
    /\ ~connections[s].active
    /\ \A r \in 0..(s - 1) : connections[r].active
    /\ active(p) = {}
    /\ connections' = [connections EXCEPT
                         ![s] = [active |-> TRUE, addr |-> p, last_recv_ms |-> now]]
    /\ heard' = [heard EXCEPT ![s] = now]
    /\ UNCHANGED now

Disconnect(s) == /\ connections[s].active
                 /\ connections' = [connections EXCEPT ![s].active = FALSE]
                 /\ UNCHANGED <<now, heard>>

\* lgx_net_socket_recv: the first active connection with the sender's address.
Refreshed(p) == {s \in active(p) : \A r \in active(p) : s <= r}

Recv(p) == /\ connections' = [s \in Slots |->
                 IF s \in Refreshed(p) THEN [connections[s] EXCEPT !.last_recv_ms = now]
                                       ELSE connections[s]]
           /\ heard' = [s \in Slots |-> IF s \in active(p) THEN now ELSE heard[s]]
           /\ UNCHANGED now

\* Mutant of Expired: the timeout itself counts as too late.
ExpiredEarly(s) == connections[s].active /\ now - connections[s].last_recv_ms >= timeout_ms

Expired(s) == connections[s].active /\ now - connections[s].last_recv_ms > timeout_ms

\* lgx_net_update
Update == /\ connections' = [s \in Slots |->
                IF Expired(s) THEN [connections[s] EXCEPT !.active = FALSE]
                              ELSE connections[s]]
          /\ UNCHANGED <<now, heard>>

ConnectionsNext == \/ Tick \/ Update
                   \/ \E p \in Peers : Connect(p) \/ Recv(p)
                   \/ \E s \in Slots : Disconnect(s)

-----------------------------------------------------------------------------
(* Streams: a sender writes values into a buffer of fixed capacity, the    *)
(* receiver reads what was sent, asking for the same kinds of values in the *)
(* same order.                                                             *)

VARIABLES buf, overflow,  \* the sender's stream; its pos is the length of buf
          torn,           \* a string was refused after its length was written
          wrote,          \* the values written, for the receiver to ask for
          pos, got,       \* the receiver's position and the values it read
          side

streamVars == <<buf, overflow, torn, wrote, pos, got, side>>

Width == [u8 |-> 1, u16 |-> 2, u32 |-> 4]
Kinds == DOMAIN Width

\* Mutant of Encoded: the two low bytes are swapped.
EncodedSwapped(n, w) == [k \in 1..w |-> IF w = 2 THEN (n \div Radix^(w - k)) % Radix
                                        ELSE (n \div Radix^(k - 1)) % Radix]

\* Little-endian, w bytes.
Encoded(n, w) == [k \in 1..w |-> (n \div Radix^(k - 1)) % Radix]

Decoded(bytes) == FoldLeftDomain(LAMBDA n, k : n + bytes[k] * Radix^(k - 1), 0, bytes)

StreamInit == /\ buf = <<>> /\ overflow = FALSE /\ torn = FALSE /\ wrote = <<>>
              /\ pos = 0 /\ got = <<>> /\ side = "sender"

\* write_u8, write_u16, write_u32, and write_f32, which writes the bits as u32.
WriteNumber(kind, n) ==
    LET w == Width[kind]
        val == n % Radix^w IN
    /\ side = "sender"
    /\ IF Len(buf) + w > capacity
       THEN overflow' = TRUE /\ UNCHANGED <<buf, wrote>>
       ELSE /\ buf' = buf \o Encoded(val, w)
            /\ wrote' = Append(wrote, [kind |-> kind, value |-> val])
            /\ UNCHANGED overflow
    /\ UNCHANGED <<torn, pos, got, side>>

\* The characters of a string do not matter, its length does: all are the byte 1.
Characters(len) == [k \in 1..len |-> 1]

\* write_string: at most max_len - 1 characters, the length first.
WriteString(length) ==
    LET len == IF length < max_len - 1 THEN length ELSE max_len - 1 IN
    /\ side = "sender"
    /\ IF Len(buf) + 2 > capacity
       THEN overflow' = TRUE /\ UNCHANGED <<buf, wrote, torn>>
       ELSE IF Len(buf) + 2 + len > capacity
       THEN /\ buf' = buf \o Encoded(len, 2)
            /\ overflow' = TRUE
            /\ torn' = TRUE
            /\ UNCHANGED wrote
       ELSE /\ buf' = buf \o Encoded(len, 2) \o Characters(len)
            /\ wrote' = Append(wrote, [kind |-> "string", value |-> len])
            /\ UNCHANGED <<overflow, torn>>
    /\ UNCHANGED <<pos, got, side>>

\* The bytes written are sent.
Send == /\ side = "sender" /\ buf # <<>>
        /\ side' = "receiver"
        /\ UNCHANGED <<buf, overflow, torn, wrote, pos, got>>

Asked == wrote[Len(got) + 1].kind
BytesRead(n) == SubSeq(buf, pos + 1, pos + n)

\* read_u8, read_u16, read_u32, read_f32: 0 when too few bytes are left.
ReadNumber ==
    /\ side = "receiver" /\ Len(got) < Len(wrote) /\ Asked \in Kinds
    /\ LET w == Width[Asked] IN
       IF pos + w > Len(buf)
       THEN got' = Append(got, 0) /\ UNCHANGED pos
       ELSE got' = Append(got, Decoded(BytesRead(w))) /\ pos' = pos + w
    /\ UNCHANGED <<buf, overflow, torn, wrote, side>>

\* read_string into a buffer of max_len: the number of characters copied.
ReadString ==
    /\ side = "receiver" /\ Len(got) < Len(wrote) /\ Asked = "string"
    /\ LET fits == pos + 2 <= Len(buf)
           len == IF fits THEN Decoded(BytesRead(2)) ELSE 0
           at == IF fits THEN pos + 2 ELSE pos
       IN IF len = 0 \/ at + len > Len(buf)
          THEN got' = Append(got, 0) /\ pos' = at
          ELSE /\ got' = Append(got, IF len < max_len - 1 THEN len ELSE max_len - 1)
               /\ pos' = at + len
    /\ UNCHANGED <<buf, overflow, torn, wrote, side>>

StreamNext == \/ \E kind \in Kinds, n \in Numbers : WriteNumber(kind, n)
              \/ \E length \in Strings : WriteString(length)
              \/ Send \/ ReadNumber \/ ReadString

-----------------------------------------------------------------------------
(* Deltas: a state is sent as its exclusive-or with the one before, runs   *)
(* of zeros as a marker and a length.  A datagram longer than the receiver's *)
(* buffer is cut off.                                                      *)

VARIABLES prev, curr,   \* the two states
          max_out,      \* room for the encoding
          delta,        \* the encoding so far, then the datagram received
          i, dpos,      \* positions in curr and in delta
          out,          \* the decoding so far
          phase, cut    \* cut: the datagram was truncated

deltaVars == <<prev, curr, max_out, delta, i, dpos, out, phase, cut>>

States == UNION {[1..n -> Bytes] : n \in 1..MaxSize}

DeltaInit == /\ prev = <<>>
             /\ curr = <<>>
             /\ max_out = 0
             /\ delta = <<>>
             /\ i = 1
             /\ dpos = 1
             /\ out = <<>>
             /\ phase = "idle"
             /\ cut = FALSE

\* lgx_net_delta_encode is called, with as many bytes of room as the state has
\* or with twice as many.
Begin == /\ phase = "idle"
         /\ prev' \in States
         /\ curr' \in [1..Len(prev') -> Bytes]
         /\ max_out' \in {Len(prev'), 2 * Len(prev')}
         /\ phase' = "encode"
         /\ UNCHANGED <<delta, i, dpos, out, cut>>

xor(k) == prev[k] ^^ curr[k]

\* Mutant of RunLength: a run may be one longer than its length byte can say.
RunTooLong == CHOOSE n \in 1..(MaxRun + 1) :
                 /\ \A k \in i..(i + n - 1) : k <= Len(curr) /\ xor(k) = 0
                 /\ n = MaxRun + 1 \/ i + n > Len(curr) \/ xor(i + n) # 0

\* The inner loop: as many equal bytes as there are, up to MaxRun.
RunLength == CHOOSE n \in 1..MaxRun :
                /\ \A k \in i..(i + n - 1) : k <= Len(curr) /\ xor(k) = 0
                /\ n = MaxRun \/ i + n > Len(curr) \/ xor(i + n) # 0

\* One iteration of the encoder's loop; the length is converted to a byte.
EncodeRun == /\ phase = "encode"
             /\ i <= Len(curr)
             /\ xor(i) = 0
             /\ IF Len(delta) + 2 > max_out
                THEN phase' = "refused" /\ UNCHANGED <<delta, i>>
                ELSE /\ delta' = delta \o <<0, RunLength % (MaxRun + 1)>>
                     /\ i' = i + RunLength
                     /\ UNCHANGED phase
             /\ UNCHANGED <<prev, curr, max_out, dpos, out, cut>>

EncodeByte == /\ phase = "encode"
              /\ i <= Len(curr)
              /\ xor(i) # 0
              /\ IF Len(delta) + 1 > max_out
                 THEN phase' = "refused" /\ UNCHANGED <<delta, i>>
                 ELSE /\ delta' = Append(delta, xor(i))
                      /\ i' = i + 1
                      /\ UNCHANGED phase
              /\ UNCHANGED <<prev, curr, max_out, dpos, out, cut>>

\* The encoding is sent and received, whole or cut off.
Transmit == /\ phase = "encode"
            /\ i > Len(curr)
            /\ \E n \in 1..Len(delta) : /\ delta' = SubSeq(delta, 1, n)
                                        /\ cut' = (n < Len(delta))
            /\ phase' = "decode"
            /\ UNCHANGED <<prev, curr, max_out, i, dpos, out>>

Decoding == phase = "decode" /\ dpos <= Len(delta) /\ Len(out) < Len(prev)

\* run_len bytes of prev, as far as the output has room.
CopyRun(n) == SubSeq(prev, Len(out) + 1,
                     IF Len(out) + n < Len(prev) THEN Len(out) + n ELSE Len(prev))

DecodeRun == /\ Decoding
             /\ delta[dpos] = 0
             /\ IF dpos + 1 > Len(delta)
                THEN phase' = "malformed" /\ UNCHANGED <<out, dpos>>
                ELSE /\ out' = out \o CopyRun(delta[dpos + 1])
                     /\ dpos' = dpos + 2
                     /\ UNCHANGED phase
             /\ UNCHANGED <<prev, curr, max_out, delta, i, cut>>

DecodeByte == /\ Decoding
              /\ delta[dpos] # 0
              /\ out' = Append(out, prev[Len(out) + 1] ^^ delta[dpos])
              /\ dpos' = dpos + 1
              /\ UNCHANGED <<prev, curr, max_out, delta, i, phase, cut>>

DecodeDone == /\ phase = "decode"
              /\ ~Decoding
              /\ phase' = "done"
              /\ UNCHANGED <<prev, curr, max_out, delta, i, dpos, out, cut>>

DeltaNext == \/ Begin \/ EncodeRun \/ EncodeByte \/ Transmit
             \/ DecodeRun \/ DecodeByte \/ DecodeDone

-----------------------------------------------------------------------------
(* They share no state *)

vars == <<connectionVars, streamVars, deltaVars>>

Init == ConnectionsInit /\ StreamInit /\ DeltaInit

Next == \/ ConnectionsNext /\ UNCHANGED <<streamVars, deltaVars>>
        \/ StreamNext /\ UNCHANGED <<connectionVars, deltaVars>>
        \/ DeltaNext /\ UNCHANGED <<connectionVars, streamVars>>

Spec == Init /\ [][Next]_vars

-----------------------------------------------------------------------------
\* A peer has one connection, and an update drops exactly the ones whose peer
\* was silent for longer than the timeout, whatever was received for the slot
\* before (lines 172-275).
TimeoutsAreReal ==
    /\ [] \A p \in Peers : Cardinality(active(p)) <= 1
    /\ [][Update => \A s \in Slots : connections[s].active =>
             (connections'[s].active <=> now - heard[s] <= timeout_ms)]_connectionVars

\* The sender stays within its buffer and a refused write is remembered; the
\* receiver gets every value that was written, and all of the buffer, unless a
\* string was refused between its length and its characters (lines 328-417).
StreamRoundTrips ==
    /\ Len(buf) <= capacity
    /\ torn => overflow
    /\ ~torn => /\ \A k \in DOMAIN got : got[k] = wrote[k].value
                /\ side = "receiver" /\ Len(got) = Len(wrote) => pos = Len(buf)

\* The encoder never writes past max_out and succeeds when given two bytes for
\* each; what is decoded is the state that was sent, or, from a datagram cut
\* off, the beginning of it or an error (lines 433-496).
DeltaRoundTrips ==
    /\ Len(delta) <= max_out
    /\ phase = "refused" => max_out < 2 * Len(curr)
    /\ IsPrefix(out, curr)
    /\ phase = "done" /\ ~cut => out = curr
    /\ phase = "malformed" => cut

=============================================================================
