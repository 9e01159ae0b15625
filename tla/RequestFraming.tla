--------------------------- MODULE RequestFraming ---------------------------
(***************************************************************************)
(* How a connection is cut into requests: Request::read_from               *)
(* (src/protocol.rs), where a request is a block of lines up to a blank    *)
(* one, and the reading in control::handle_connection                      *)
(* (src/control/mod.rs), where it is a line.  Both cap a request and start *)
(* the next where the last one ended.  Bytes arrive one by one and the     *)
(* reader may fall behind; the peer may close at any point.                *)
(***************************************************************************)
EXTENDS Integers, Sequences

CONSTANTS
    Bytes,          \* the bytes a peer sends; LF and CR are among them
    LF, CR,
    MAX_BYTES,      \* MAX_REQUEST_BYTES, MAX_CONTROL_REQUEST_BYTES
    MaxInput        \* bound on the bytes a peer sends

ASSUME BytesAssumption ==
    /\ {LF, CR} \subseteq Bytes /\ MAX_BYTES \in Nat \ {0} /\ MaxInput \in Nat

VARIABLES
    kind,       \* the socket: "policy" or "control"
    input,      \* all the peer has sent
    closed,     \* the peer has closed
    pos,        \* bytes the reader has consumed
    start,      \* where the current request began
    line,       \* where the current line began
    requests,   \* the requests handed on: <<first, last>> byte
    status      \* reading, or how the reader ended

vars == <<kind, input, closed, pos, start, line, requests, status>>
position == <<pos, start, line>>

TypeOK ==
    /\ kind \in {"policy", "control"}
    /\ input \in Seq(Bytes) /\ closed \in BOOLEAN
    /\ pos \in 0 .. Len(input) /\ start \in 0 .. pos /\ line \in start .. pos
    /\ requests \in Seq((1 .. Len(input)) \X (1 .. Len(input)))
    /\ status \in {"reading", "eof", "truncated", "too_long"}

Init ==
    /\ kind \in {"policy", "control"}
    /\ input = << >> /\ closed = FALSE
    /\ pos = 0 /\ start = 0 /\ line = 0
    /\ requests = << >>
    /\ status = "reading"

PeerSends(b) ==
    /\ ~ closed /\ Len(input) < MaxInput
    /\ input' = Append(input, b)
    /\ UNCHANGED <<kind, closed, position, requests, status>>

PeerCloses ==
    /\ ~ closed
    /\ closed' = TRUE
    /\ UNCHANGED <<kind, input, position, requests, status>>

----------------------------------------------------------------------------
(* The reader *)

\* Definitions named Wrong... are variants that the code could have had; the
\* checks must tell them from the definition that follows.

\* One take for the whole connection.
WrongLimit == MAX_BYTES - pos

\* limited.limit(): a fresh take for every request.
Limit == MAX_BYTES - (pos - start)

\* Takes only a bare LF for a blank line.
WrongIsBlank(a, b) == b = a /\ input[b] = LF

\* trim_end_matches leaves nothing of the line.
IsBlank(a, b) == \A i \in a .. b : input[i] \in {LF, CR}

\* The line that ends with byte i completes a request.
Completes(i) == kind = "control" \/ IsBlank(line + 1, i)

\* What is buffered behind a request belongs to the next one.
After(i) == i

ReadByte ==
    /\ status = "reading" /\ Limit > 0 /\ pos < Len(input)
    /\ LET i == pos + 1
       IN  \/ /\ input[i] # LF
              /\ pos' = i
              /\ UNCHANGED <<start, line, requests>>
           \/ /\ input[i] = LF /\ ~ Completes(i)
              /\ pos' = i /\ line' = i
              /\ UNCHANGED <<start, requests>>
           \/ /\ input[i] = LF /\ Completes(i)
              /\ pos' = After(i) /\ line' = After(i) /\ start' = After(i)
              /\ requests' = Append(requests, <<start + 1, i>>)
    /\ UNCHANGED <<kind, input, closed, status>>

HitLimit ==
    /\ status = "reading" /\ Limit = 0
    /\ status' = "too_long"
    /\ UNCHANGED <<kind, input, closed, position, requests>>

\* Looks for the end between lines only.
WrongAtEnd ==
    status = "reading" /\ Limit > 0 /\ closed /\ pos = Len(input) /\ pos = line

AtEnd == status = "reading" /\ Limit > 0 /\ closed /\ pos = Len(input)

\* read_line returns 0 at the beginning of a line only.
EndOfFile ==
    /\ AtEnd
    /\ status' = IF pos = line THEN "eof" ELSE "truncated"
    /\ UNCHANGED <<kind, input, closed, position, requests>>

Reader == ReadByte \/ HitLimit \/ EndOfFile

Next == (\E b \in Bytes : PeerSends(b)) \/ PeerCloses \/ Reader

Spec == Init /\ [][Next]_vars

\* The runtime polls a task whose socket is readable.
FairSpec == Spec /\ WF_vars(Reader)

----------------------------------------------------------------------------
(* Properties *)

\* Independently of the reader: byte i ends a request that began after s.
EndsRequest(s, i) ==
    /\ input[i] = LF
    /\ \/ kind = "control"
       \/ \E a \in s + 1 .. i : /\ a = s + 1 \/ input[a - 1] = LF
                                /\ \A j \in a .. i : input[j] \in {LF, CR}

First(k) == requests[k][1]
Last(k) == requests[k][2]

\* However the bytes arrive, the requests are the ones that were sent: they
\* follow each other without gap or overlap, each ends with its first
\* terminator, none is above the cap, and nothing complete is left in what
\* the reader has consumed beyond them.
\* It is stated of well-typed states.
FramingIsExact ==
    /\ TypeOK
    /\ \A k \in 1 .. Len(requests) :
        /\ First(k) = IF k = 1 THEN 1 ELSE Last(k - 1) + 1
        /\ Last(k) - First(k) + 1 <= MAX_BYTES
        /\ EndsRequest(First(k) - 1, Last(k))
        /\ \A i \in First(k) .. Last(k) - 1 : ~ EndsRequest(First(k) - 1, i)
    /\ start = IF requests = << >> THEN 0 ELSE Last(Len(requests))
    /\ \A i \in start + 1 .. pos : ~ EndsRequest(start, i)

\* A connection is dropped for its size only if no request ended within the
\* cap, counted from the end of the previous request; and it is taken for
\* closed only when all that was sent has been read.
EndIsJustified ==
    /\ status = "too_long" =>
        /\ Len(input) >= start + MAX_BYTES
        /\ \A i \in start + 1 .. start + MAX_BYTES : ~ EndsRequest(start, i)
    /\ status \in {"eof", "truncated"} => closed /\ pos = Len(input)

\* A peer that closes its end is noticed, wherever in a request it does so.
CloseIsNoticed == closed ~> status # "reading"
=============================================================================
