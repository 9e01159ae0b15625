-------------------------- MODULE ConnectionProofs --------------------------
(***************************************************************************)
(* Proofs about module RequestFraming for every input, every cap and every *)
(* way the bytes arrive, and about module ControlClient for any finite set *)
(* of tools, any backlog and any limit.                                    *)
(*                                                                         *)
(* The reader decides by the current line alone whether a request is       *)
(* complete, while EndsRequest looks at the whole request.  The two agree  *)
(* because the reader knows where the line began (LineOK) and because      *)
(* nothing it has passed ended the request (NothingMissed).                *)
(*                                                                         *)
(* The tool reports what it read several steps after the daemon wrote it;  *)
(* ClientInv ties each report to the reply, and each reply to its query.   *)
(***************************************************************************)
EXTENDS RequestFraming, ControlClient, FiniteSetTheorems, SequenceTheorems,
        TLAPS

----------------------------------------------------------------------------
(* RequestFraming *)

\* EndsRequest of an input and a kind of socket.
Ends(f, kd, s, i) ==
    /\ f[i] = LF
    /\ \/ kd = "control"
       \/ \E a \in s + 1 .. i : /\ a = s + 1 \/ f[a - 1] = LF
                                /\ \A j \in a .. i : f[j] \in {LF, CR}

\* The line began with the request or after a line feed, and has none itself.
LineOK ==
    /\ line = start \/ input[line] = LF
    /\ \A i \in line + 1 .. pos : input[i] # LF
    /\ kind = "control" => line = start

\* Nothing the reader has passed ends the current request.
NothingMissed == \A i \in start + 1 .. pos : ~ Ends(input, kind, start, i)

\* The k-th request is one, and follows the one before.
RequestOK(f, kd, rs, k) ==
    /\ rs[k][1] \in Nat /\ rs[k][2] \in Nat
    /\ 1 <= rs[k][1] /\ rs[k][1] <= rs[k][2] /\ rs[k][2] <= Len(f)
    /\ rs[k][1] = IF k = 1 THEN 1 ELSE rs[k - 1][2] + 1
    /\ rs[k][2] - rs[k][1] + 1 <= MAX_BYTES
    /\ Ends(f, kd, rs[k][1] - 1, rs[k][2])
    /\ \A i \in rs[k][1] .. rs[k][2] - 1 : ~ Ends(f, kd, rs[k][1] - 1, i)

RequestsOK ==
    /\ \A k \in 1 .. Len(requests) : RequestOK(input, kind, requests, k)
    /\ start = IF requests = << >> THEN 0 ELSE requests[Len(requests)][2]

\* Why the reader stopped.
StopOK ==
    /\ pos - start <= MAX_BYTES
    /\ status = "too_long" => pos - start = MAX_BYTES
    /\ status \in {"eof", "truncated"} => closed /\ pos = Len(input)

IInv == TypeOK /\ LineOK /\ NothingMissed /\ RequestsOK /\ StopOK

----------------------------------------------------------------------------
(* What ends a request *)

\* The definition of the properties is that of Ends.
LEMMA EndsIsEnds ==
    ASSUME NEW s, NEW i
    PROVE  EndsRequest(s, i) <=> Ends(input, kind, s, i)
  BY DEF EndsRequest, Ends

\* Bytes that arrive later do not change what has been read.
LEMMA EndsIsStable ==
    ASSUME NEW f \in Seq(Bytes), NEW byte \in Bytes, NEW kd,
           NEW s \in Nat, NEW i \in 1 .. Len(f)
    PROVE  Ends(Append(f, byte), kd, s, i) <=> Ends(f, kd, s, i)
  <1> DEFINE g == Append(f, byte)
  <1>1. \A j \in 1 .. Len(f) : g[j] = f[j]
    BY AppendProperties
  <1> HIDE DEF g
  <1>2. Len(f) \in Nat
    OBVIOUS
  <1>3. ASSUME NEW a \in s + 1 .. i
        PROVE  /\ a = s + 1 \/ g[a - 1] = f[a - 1]
               /\ \A j \in a .. i : g[j] = f[j]
    <2>1. a \in 1 .. Len(f) /\ (a = s + 1 \/ a - 1 \in 1 .. Len(f))
      BY <1>2
    <2>2. \A j \in a .. i : j \in 1 .. Len(f)
      BY <1>2, <2>1
    <2> QED
      BY <1>1, <2>1, <2>2
  <1>4. g[i] = f[i]
    BY <1>1
  <1>5. ASSUME NEW a \in s + 1 .. i
        PROVE  ((a = s + 1 \/ g[a - 1] = LF) /\ \A j \in a .. i : g[j] \in {LF, CR})
               <=> ((a = s + 1 \/ f[a - 1] = LF) /\ \A j \in a .. i : f[j] \in {LF, CR})
    BY <1>3
  <1>6. Ends(g, kd, s, i) <=> Ends(f, kd, s, i)
    BY <1>4, <1>5 DEF Ends
  <1> QED
    BY <1>6 DEF g

\* The reader's test of the current line finds exactly the end of a request.
LEMMA TestIsExact ==
    ASSUME IInv, pos < Len(input), input[pos + 1] = LF
    PROVE  Completes(pos + 1) <=> Ends(input, kind, start, pos + 1)
  <1> DEFINE i == pos + 1
  <1>0. /\ pos \in Nat /\ start \in Nat /\ line \in Nat
        /\ start <= line /\ line <= pos /\ i \in Nat /\ line + 1 \in start + 1 .. i
    BY DEF IInv, TypeOK
  <1>1. CASE kind = "control"
    BY <1>1 DEF Completes, Ends
  <1>2. CASE kind # "control"
    <2>1. Completes(i) <=> \A j \in line + 1 .. i : input[j] \in {LF, CR}
      BY <1>2 DEF Completes, IsBlank
    <2>2. ASSUME Completes(i) PROVE Ends(input, kind, start, i)
      <3>1. line + 1 = start + 1 \/ input[line + 1 - 1] = LF
        BY <1>0 DEF IInv, LineOK
      <3> QED
        BY <1>0, <2>1, <2>2, <3>1 DEF Ends
    <2>3. ASSUME Ends(input, kind, start, i) PROVE Completes(i)
      <3>1. PICK a \in start + 1 .. i : /\ a = start + 1 \/ input[a - 1] = LF
                                        /\ \A j \in a .. i : input[j] \in {LF, CR}
        BY <1>2, <2>3 DEF Ends
      <3>2. a \in Nat /\ start + 1 <= a /\ a <= i
        BY <1>0, <3>1
      <3>3. CASE a = line + 1
        BY <2>1, <3>1, <3>3
      <3>4. CASE a > line + 1
        <4>1. a - 1 \in line + 1 .. pos /\ a # start + 1
          BY <1>0, <3>2, <3>4
        <4> QED
          BY <3>1, <4>1 DEF IInv, LineOK
      <3>5. CASE a <= line
        <4>1. line \in start + 1 .. pos /\ input[line] = LF
          BY <1>0, <3>2, <3>5 DEF IInv, LineOK
        <4>2. a \in start + 1 .. line /\ \A j \in a .. line : j \in a .. i
          BY <1>0, <3>2, <3>5
        <4>3. Ends(input, kind, start, line)
          BY <3>1, <4>1, <4>2 DEF Ends
        <4> QED
          BY <4>1, <4>3 DEF IInv, NothingMissed
      <3> QED
        BY <1>0, <3>2, <3>3, <3>4, <3>5
    <2> QED
      BY <2>2, <2>3
  <1> QED
    BY <1>1, <1>2

----------------------------------------------------------------------------
(* The inductive invariant *)

\* IInv holds of a new connection.
LEMMA InitInv == Init => IInv
  <1> SUFFICES ASSUME Init PROVE IInv
    OBVIOUS
  <1>0. /\ kind \in {"policy", "control"} /\ closed = FALSE /\ status = "reading"
        /\ pos = 0 /\ start = 0 /\ line = 0 /\ requests = << >>
    BY DEF Init
  <1>1. Len(input) = 0 /\ Len(requests) = 0 /\ input \in Seq(Bytes)
        /\ requests \in Seq((1 .. Len(input)) \X (1 .. Len(input)))
    BY EmptySeq DEF Init
  <1>2. TypeOK
    <2>1. pos \in 0 .. Len(input) /\ start \in 0 .. pos /\ line \in start .. pos
      BY <1>0, <1>1
    <2>2. closed \in BOOLEAN /\ status \in {"reading", "eof", "truncated", "too_long"}
      BY <1>0
    <2> QED
      BY <1>0, <1>1, <2>1, <2>2 DEF TypeOK
  <1>3. LineOK /\ NothingMissed /\ RequestsOK
    BY <1>0, <1>1 DEF LineOK, NothingMissed, RequestsOK
  <1>4. StopOK
    BY <1>0, BytesAssumption DEF StopOK
  <1> QED
    BY <1>2, <1>3, <1>4 DEF IInv

\* More bytes arrive.
LEMMA PeerSendsInv == ASSUME IInv, NEW byte \in Bytes, PeerSends(byte) PROVE IInv'
  <1>0. /\ input \in Seq(Bytes) /\ closed \in BOOLEAN /\ Len(input) \in Nat
        /\ pos \in 0 .. Len(input) /\ start \in 0 .. pos /\ line \in start .. pos
        /\ requests \in Seq((1 .. Len(input)) \X (1 .. Len(input)))
    BY DEF IInv, TypeOK
  <1>1. /\ ~ closed /\ input' = Append(input, byte)
        /\ UNCHANGED <<kind, closed, pos, start, line, requests, status>>
    BY DEF PeerSends, position
  <1>2. /\ input' \in Seq(Bytes) /\ Len(input') = Len(input) + 1
        /\ \A j \in 1 .. Len(input) : input'[j] = input[j]
    BY <1>0, <1>1, AppendProperties
  <1>3. ASSUME NEW s \in Nat, NEW i \in 1 .. Len(input)
        PROVE  Ends(input', kind', s, i) <=> Ends(input, kind, s, i)
    BY <1>0, <1>1, EndsIsStable
  <1>4. TypeOK'
    <2>1. (1 .. Len(input)) \X (1 .. Len(input)) \subseteq (1 .. Len(input')) \X (1 .. Len(input'))
      BY <1>0, <1>2
    <2>2. requests' \in Seq((1 .. Len(input')) \X (1 .. Len(input')))
      BY <1>0, <1>1, <2>1, SeqMonotonic
    <2>3. pos \in 0 .. Len(input')
      BY <1>0, <1>2
    <2> QED
      BY <1>0, <1>1, <1>2, <2>2, <2>3 DEF IInv, TypeOK
  <1>5. LineOK'
    <2>1. line # start => line \in 1 .. Len(input)
      BY <1>0
    <2>2. \A i \in line + 1 .. pos : i \in 1 .. Len(input)
      BY <1>0
    <2> QED
      BY <1>1, <1>2, <2>1, <2>2 DEF IInv, LineOK
  <1>6. NothingMissed'
    <2>1. start \in Nat /\ \A i \in start + 1 .. pos : i \in 1 .. Len(input)
      BY <1>0
    <2> QED
      BY <1>1, <1>3, <2>1 DEF IInv, NothingMissed
  <1>7. RequestsOK'
    <2>1. ASSUME NEW k \in 1 .. Len(requests) PROVE RequestOK(input', kind', requests', k)
      <3> DEFINE s == requests[k][1] - 1
                 e == requests[k][2]
      <3>1. RequestOK(input, kind, requests, k)
        BY DEF IInv, RequestsOK
      <3>2. /\ s \in Nat /\ e \in 1 .. Len(input)
            /\ \A i \in requests[k][1] .. e - 1 : i \in 1 .. Len(input)
        <4>1. /\ requests[k][1] \in Nat /\ e \in Nat
              /\ 1 <= requests[k][1] /\ requests[k][1] <= e /\ e <= Len(input)
          BY <3>1 DEF RequestOK
        <4> HIDE DEF e
        <4> QED
          BY <1>0, <4>1
      <3>3. /\ Ends(input', kind', s, e)
            /\ \A i \in requests[k][1] .. e - 1 : ~ Ends(input', kind', s, i)
        BY <1>3, <3>1, <3>2 DEF RequestOK
      <3>4. requests[k][2] <= Len(input')
        BY <1>0, <1>2, <3>2
      <3> QED
        BY <1>1, <3>1, <3>3, <3>4 DEF RequestOK
    <2> QED
      BY <1>1, <2>1 DEF IInv, RequestsOK
  <1>8. StopOK'
    BY <1>1 DEF IInv, StopOK
  <1> QED
    BY <1>4, <1>5, <1>6, <1>7, <1>8 DEF IInv

\* The reader stops, or the peer closes: nothing read changes.
LEMMA StopsInv ==
    ASSUME IInv, UNCHANGED <<kind, input, pos, start, line, requests>>,
           closed' \in BOOLEAN, StopOK',
           status' \in {"reading", "eof", "truncated", "too_long"}
    PROVE  IInv'
  <1>1. TypeOK'
    BY DEF IInv, TypeOK
  <1>2. LineOK'
    BY DEF IInv, LineOK
  <1>3. NothingMissed'
    BY DEF IInv, NothingMissed
  <1>4. RequestsOK'
    BY DEF IInv, RequestsOK
  <1> QED
    BY <1>1, <1>2, <1>3, <1>4 DEF IInv

\* A byte that does not end the request: an ordinary one, which continues the
\* line, or a line feed, after which a line begins.
LEMMA ReadOnInv ==
    ASSUME IInv, ReadByte, pos' = pos + 1, UNCHANGED <<start, requests>>,
           \/ input[pos + 1] # LF /\ line' = line
           \/ input[pos + 1] = LF /\ ~ Completes(pos + 1) /\ line' = pos + 1
    PROVE  IInv'
  <1>0. /\ input \in Seq(Bytes) /\ Len(input) \in Nat /\ MAX_BYTES \in Nat
        /\ pos \in Nat /\ start \in Nat /\ line \in Nat
        /\ start <= line /\ line <= pos /\ pos <= Len(input)
        /\ requests \in Seq((1 .. Len(input)) \X (1 .. Len(input)))
    BY BytesAssumption DEF IInv, TypeOK
  <1>1. /\ status = "reading" /\ pos < Len(input) /\ pos - start < MAX_BYTES
        /\ UNCHANGED <<kind, input, closed, status>>
    BY <1>0 DEF ReadByte, Limit
  <1>2. ~ Ends(input, kind, start, pos + 1)
    <2>1. CASE input[pos + 1] # LF
      BY <2>1 DEF Ends
    <2>2. CASE input[pos + 1] = LF
      BY <1>1, <2>2, TestIsExact
    <2> QED
      BY <2>1, <2>2
  <1>3. TypeOK'
    <2>1. pos' \in 0 .. Len(input) /\ start' \in 0 .. pos' /\ line' \in start' .. pos'
      BY <1>0, <1>1
    <2> QED
      BY <1>0, <1>1, <2>1 DEF IInv, TypeOK
  <1>4. LineOK'
    <2>1. CASE input[pos + 1] # LF
      <3>1. \A i \in line + 1 .. pos + 1 : i \in line + 1 .. pos \/ i = pos + 1
        BY <1>0
      <3>2. line' = line
        BY <2>1
      <3> QED
        BY <1>1, <2>1, <3>1, <3>2 DEF IInv, LineOK
    <2>2. CASE input[pos + 1] = LF
      <3>1. line' = pos + 1 /\ kind # "control"
        BY <2>2 DEF Completes
      <3>2. \A i \in line' + 1 .. pos' : FALSE
        BY <1>0, <3>1
      <3> QED
        BY <1>1, <2>2, <3>1, <3>2 DEF LineOK
    <2> QED
      BY <2>1, <2>2
  <1>5. NothingMissed'
    <2>1. \A i \in start + 1 .. pos + 1 : i \in start + 1 .. pos \/ i = pos + 1
      BY <1>0
    <2> QED
      BY <1>1, <1>2, <2>1 DEF IInv, NothingMissed
  <1>6. RequestsOK'
    BY <1>1 DEF IInv, RequestsOK
  <1>7. StopOK'
    <2>1. pos' - start' <= MAX_BYTES
      BY <1>0, <1>1
    <2> QED
      BY <1>1, <2>1 DEF StopOK
  <1> QED
    BY <1>3, <1>4, <1>5, <1>6, <1>7 DEF IInv

\* A line feed that ends the request, which is handed on.
LEMMA CompletesInv ==
    ASSUME IInv, ReadByte, input[pos + 1] = LF, Completes(pos + 1),
           pos' = pos + 1, line' = pos + 1, start' = pos + 1,
           requests' = Append(requests, <<start + 1, pos + 1>>)
    PROVE  IInv'
  <1> DEFINE i == pos + 1
             new == <<start + 1, i>>
             n == Len(requests)
             Span == (1 .. Len(input)) \X (1 .. Len(input))
  <1>0. /\ input \in Seq(Bytes) /\ Len(input) \in Nat /\ MAX_BYTES \in Nat
        /\ pos \in Nat /\ start \in Nat /\ line \in Nat
        /\ start <= line /\ line <= pos /\ pos <= Len(input)
        /\ requests \in Seq(Span) /\ n \in Nat
    BY BytesAssumption DEF IInv, TypeOK
  <1>1. /\ status = "reading" /\ pos < Len(input) /\ pos - start < MAX_BYTES
        /\ UNCHANGED <<kind, input, closed, status>>
    BY <1>0 DEF ReadByte, Limit
  <1>2. Ends(input, kind, start, i)
    BY <1>1, TestIsExact
  <1>3. new \in Span /\ new[1] = start + 1 /\ new[2] = i
    BY <1>0, <1>1
  <1> HIDE DEF new, Span
  <1>4. /\ requests' \in Seq(Span) /\ Len(requests') = n + 1
        /\ requests'[n + 1] = new
        /\ \A k \in 1 .. n : requests'[k] = requests[k]
    BY <1>0, <1>3, AppendProperties DEF new
  <1>5. TypeOK'
    <2>1. pos' \in 0 .. Len(input) /\ start' \in 0 .. pos' /\ line' \in start' .. pos'
      BY <1>0, <1>1
    <2>2. requests' \in Seq((1 .. Len(input')) \X (1 .. Len(input')))
      BY <1>1, <1>4 DEF Span
    <2> QED
      BY <1>0, <1>1, <2>1, <2>2 DEF IInv, TypeOK
  <1>6. LineOK'
    <2>1. \A j \in line' + 1 .. pos' : FALSE
      BY <1>0
    <2> QED
      BY <2>1 DEF LineOK
  <1>7. NothingMissed'
    <2>1. \A j \in start' + 1 .. pos' : FALSE
      BY <1>0
    <2> QED
      BY <2>1 DEF NothingMissed
  <1>8. RequestsOK'
    <2>1. ASSUME NEW k \in 1 .. n PROVE RequestOK(input', kind', requests', k)
      <3>1. RequestOK(input, kind, requests, k)
        BY DEF IInv, RequestsOK
      <3>2. requests'[k] = requests[k]
        BY <1>4
      <3>3. k # 1 => requests'[k - 1] = requests[k - 1]
        <4>1. k # 1 => k - 1 \in 1 .. n
          BY <1>0
        <4> QED
          BY <1>4, <4>1
      <3> QED
        BY <1>1, <3>1, <3>2, <3>3 DEF RequestOK
    <2>2. RequestOK(input', kind', requests', n + 1)
      <3>1. start = IF n + 1 = 1 THEN 0 ELSE requests'[n][2]
        <4>1. n = 0 <=> requests = << >>
          BY <1>0, EmptySeq
        <4>2. n # 0 => n \in 1 .. n
          BY <1>0
        <4>3. start = IF n = 0 THEN 0 ELSE requests[n][2]
          BY <4>1 DEF IInv, RequestsOK
        <4>4. n # 0 => requests'[n] = requests[n]
          BY <1>4, <4>2
        <4> QED
          BY <1>0, <4>3, <4>4
      <3>2. /\ start + 1 \in Nat /\ i \in Nat
            /\ 1 <= start + 1 /\ start + 1 <= i /\ i <= Len(input)
            /\ i - (start + 1) + 1 <= MAX_BYTES /\ start + 1 - 1 = start
            /\ (n + 1) - 1 = n
        BY <1>0, <1>1
      <3>3. \A j \in start + 1 .. i - 1 : ~ Ends(input, kind, start, j)
        <4>1. i - 1 = pos
          BY <1>0
        <4> QED
          BY <4>1 DEF IInv, NothingMissed
      <3>4. requests'[n + 1][1] = start + 1 /\ requests'[n + 1][2] = i
        BY <1>3, <1>4
      <3>5. start + 1 = IF n + 1 = 1 THEN 1 ELSE requests'[(n + 1) - 1][2] + 1
        <4>1. CASE n + 1 = 1
          BY <3>1, <4>1
        <4>2. CASE n + 1 # 1
          BY <3>1, <3>2, <4>2
        <4> QED
          BY <4>1, <4>2
      <3> DEFINE m == n + 1
                 s == requests'[m][1]
                 e == requests'[m][2]
      <3>6. /\ s \in Nat /\ e \in Nat /\ 1 <= s /\ s <= e /\ e <= Len(input')
            /\ e - s + 1 <= MAX_BYTES
        BY <1>1, <3>2, <3>4
      <3>7. s - 1 = start /\ s = start + 1 /\ e = i
        BY <1>0, <3>2, <3>4
      <3>8. s = IF m = 1 THEN 1 ELSE requests'[m - 1][2] + 1
        BY <3>5, <3>7
      <3>9. /\ Ends(input', kind', s - 1, e)
            /\ \A j \in s .. e - 1 : ~ Ends(input', kind', s - 1, j)
        <4> HIDE DEF i, s, e
        <4> QED
          BY <1>1, <1>2, <3>3, <3>7
      <3> HIDE DEF m
      <3>10. RequestOK(input', kind', requests', m)
        BY <3>6, <3>8, <3>9 DEF RequestOK
      <3> QED
        BY <3>10 DEF m
    <2>3. \A k \in 1 .. n + 1 : k \in 1 .. n \/ k = n + 1
      BY <1>0
    <2>4. requests' # << >>
      BY <1>0, <1>4, EmptySeq
    <2>5. start' = requests'[Len(requests')][2]
      BY <1>3, <1>4
    <2> QED
      BY <1>4, <2>1, <2>2, <2>3, <2>4, <2>5 DEF RequestsOK
  <1>9. StopOK'
    <2>1. pos' - start' <= MAX_BYTES
      BY <1>0
    <2> QED
      BY <1>1, <2>1 DEF StopOK
  <1> QED
    BY <1>5, <1>6, <1>7, <1>8, <1>9 DEF IInv

\* Every step of the peer and of the reader preserves IInv.
LEMMA NextInv == IInv /\ [Next]_vars => IInv'
  <1> SUFFICES ASSUME IInv, [Next]_vars PROVE IInv'
    OBVIOUS
  <1>1. CASE \E b \in Bytes : PeerSends(b)
    BY <1>1, PeerSendsInv
  <1>2. CASE PeerCloses
    <2>1. /\ closed' = TRUE /\ ~ closed
          /\ UNCHANGED <<kind, input, pos, start, line, requests, status>>
      BY <1>2 DEF PeerCloses, position
    <2>2. StopOK'
      BY <2>1 DEF IInv, StopOK
    <2> QED
      BY <2>1, <2>2, StopsInv DEF IInv, TypeOK
  <1>3. CASE ReadByte
    <2>1. CASE input[pos + 1] # LF
      BY <1>3, <2>1, ReadOnInv DEF ReadByte
    <2>2. CASE input[pos + 1] = LF /\ ~ Completes(pos + 1)
      BY <1>3, <2>2, ReadOnInv DEF ReadByte
    <2>3. CASE input[pos + 1] = LF /\ Completes(pos + 1)
      BY <1>3, <2>3, CompletesInv DEF ReadByte, After
    <2> QED
      BY <2>1, <2>2, <2>3
  <1>4. CASE HitLimit
    <2>1. /\ Limit = 0 /\ status' = "too_long"
          /\ UNCHANGED <<kind, input, closed, pos, start, line, requests>>
      BY <1>4 DEF HitLimit, position
    <2>2. pos - start = MAX_BYTES
      BY <2>1, BytesAssumption DEF Limit, IInv, TypeOK
    <2>3. StopOK'
      BY <2>1, <2>2 DEF IInv, StopOK
    <2> QED
      BY <2>1, <2>3, StopsInv DEF IInv, TypeOK
  <1>5. CASE EndOfFile
    <2>1. /\ closed /\ pos = Len(input) /\ status' \in {"eof", "truncated"}
          /\ UNCHANGED <<kind, input, closed, pos, start, line, requests>>
      BY <1>5 DEF EndOfFile, AtEnd, position
    <2>2. StopOK'
      BY <2>1 DEF IInv, StopOK
    <2> QED
      BY <2>1, <2>2, StopsInv DEF IInv, TypeOK
  <1>6. CASE UNCHANGED vars
    <2>1. UNCHANGED <<kind, input, closed, pos, start, line, requests, status>>
      BY <1>6 DEF vars
    <2>2. StopOK'
      BY <2>1 DEF IInv, StopOK
    <2> QED
      BY <2>1, <2>2, StopsInv DEF IInv, TypeOK
  <1> QED
    BY <1>1, <1>2, <1>3, <1>4, <1>5, <1>6 DEF Next, Reader

\* IInv holds as long as the connection lasts.
LEMMA Invariance == Spec => []IInv
  BY InitInv, NextInv, PTL DEF Spec

----------------------------------------------------------------------------
(* The results *)

\* Request::read_from and the control socket's reader cut the bytes of a peer
\* into the requests that were sent, whatever the cap and however the bytes
\* arrive: no gap, no overlap, no terminator passed over, none above the cap.
THEOREM FramingExact == Spec => []FramingIsExact
  <1>1. IInv => FramingIsExact
    <2> SUFFICES ASSUME IInv PROVE FramingIsExact
      OBVIOUS
    <2>1. ASSUME NEW k \in 1 .. Len(requests)
          PROVE  /\ First(k) = IF k = 1 THEN 1 ELSE Last(k - 1) + 1
                 /\ Last(k) - First(k) + 1 <= MAX_BYTES
                 /\ EndsRequest(First(k) - 1, Last(k))
                 /\ \A i \in First(k) .. Last(k) - 1 : ~ EndsRequest(First(k) - 1, i)
      <3>1. RequestOK(input, kind, requests, k)
        BY DEF IInv, RequestsOK
      <3> QED
        BY <3>1, EndsIsEnds DEF RequestOK, First, Last
    <2>2. start = IF requests = << >> THEN 0 ELSE Last(Len(requests))
      BY DEF IInv, RequestsOK, Last
    <2>3. \A i \in start + 1 .. pos : ~ EndsRequest(start, i)
      BY EndsIsEnds DEF IInv, NothingMissed
    <2> QED
      BY <2>1, <2>2, <2>3 DEF FramingIsExact, IInv
  <1> QED
    BY <1>1, Invariance, PTL

\* A connection is dropped for its size only when the cap's worth of bytes
\* since the last request holds no end of one, and is taken for closed only
\* when the peer has closed and everything it sent has been read.
THEOREM EndJustified == Spec => []EndIsJustified
  <1>1. IInv => EndIsJustified
    <2> SUFFICES ASSUME IInv PROVE EndIsJustified
      OBVIOUS
    <2>1. ASSUME status = "too_long"
          PROVE  /\ Len(input) >= start + MAX_BYTES
                 /\ \A i \in start + 1 .. start + MAX_BYTES : ~ EndsRequest(start, i)
      <3>1. pos - start = MAX_BYTES
        BY <2>1 DEF IInv, StopOK
      <3>2. pos = start + MAX_BYTES /\ Len(input) >= pos
        BY <3>1, BytesAssumption DEF IInv, TypeOK
      <3> QED
        BY <3>2, EndsIsEnds DEF IInv, NothingMissed
    <2>2. status \in {"eof", "truncated"} => closed /\ pos = Len(input)
      BY DEF IInv, StopOK
    <2> QED
      BY <2>1, <2>2 DEF EndIsJustified
  <1> QED
    BY <1>1, Invariance, PTL

----------------------------------------------------------------------------
(* ControlClient *)

\* A reply is of the kind that its query asks for, and says what was done.
Fits(reply, query, did) ==
    \/ reply = "pong" /\ query = "ping" /\ did = "answered"
    \/ reply = "status" /\ query = "limits" /\ did = "answered"
    \/ reply = "error" /\ query = "limits" /\ did = "failed"

\* Tool k and its connection n, of which the daemon did f, at each of the
\* daemon's steps.
TaskOK(k, n, f) ==
    /\ n.task = "none" => /\ ~ n.line /\ n.answer = "none" /\ n.reply = "none" /\ f = "none"
                          /\ k.pc \in {"idle", "connect", "done"}
    /\ n.task = "queued" => n.answer = "none" /\ n.reply = "none" /\ f = "none"
    /\ n.task = "read" =>
        \/ n.answer = "none" /\ n.reply = "none" /\ f = "none"
        \/ /\ ~ n.line /\ n.reply = n.answer /\ Fits(n.reply, k.query, f)
           /\ k.pc \in {"read", "done"}
    /\ n.task = "check" => /\ ~ n.line /\ n.answer = "none" /\ n.reply = "none" /\ f = "none"
                           /\ k.query = "limits" /\ k.pc \in {"read", "done"}
    /\ n.task = "write" => /\ ~ n.line /\ n.reply = "none" /\ Fits(n.answer, k.query, f)
                           /\ k.pc \in {"read", "done"}

\* The same at each of the tool's steps.  What it reported it had read; a
\* connection that ended without a reply ended for a reason.
ToolOK(k, n, f, d) ==
    /\ k.pc \in {"idle", "connect"} => n.task = "none"
    /\ k.pc = "send" => ~ n.line /\ n.answer = "none" /\ n.reply = "none"
    /\ n.line => n.answer = "none" /\ n.reply = "none" /\ k.pc \in {"read", "done"}
    /\ n.reply # "none" => /\ n.task \in {"read", "gone"} /\ ~ n.line
                           /\ Fits(n.reply, k.query, f) /\ k.pc \in {"read", "done"}
    /\ n.task = "gone" => f = "rejected" \/ d # "up" \/ k.pc = "done"
    /\ f = "rejected" => n.task = "gone"
    /\ k.report = "ok" => n.reply \in {"pong", "status"}
    /\ k.report = "failed" => n.reply = "error"
    /\ k.report = "malformed" => f = "rejected" \/ d # "up"

ClientOK(k, n, f, d) == TaskOK(k, n, f) /\ ToolOK(k, n, f, d)

\* The backlog holds the connections that nobody has accepted, once each.
QueueOK ==
    /\ \A i \in 1 .. Len(queue) : conn[queue[i]].task = "queued"
    /\ \A i, j \in 1 .. Len(queue) : queue[i] = queue[j] => i = j

\* The inductive invariant.
ClientInv ==
    /\ ClientTypeOK
    /\ QueueOK
    /\ \A c \in Clients : ClientOK(ctl[c], conn[c], fate[c], daemon)

Tool == [pc : {"idle", "connect", "send", "read", "done"}, query : Queries, report : Reports]
Connection == [task : Tasks \cup {"none", "queued", "gone"}, line : BOOLEAN,
               answer : Replies, reply : Replies]
Fate == {"none", "rejected", "answered", "failed"}

\* The connections that have a task of the daemon.
Busy == {c \in Clients : conn[c].task \in Tasks}

\* The types in parts.
LEMMA ClientTypes ==
    ASSUME ClientTypeOK
    PROVE  /\ ctl \in [Clients -> Tool] /\ conn \in [Clients -> Connection]
           /\ fate \in [Clients -> Fate]
           /\ queue \in Seq(Clients) /\ Len(queue) \in Nat /\ Len(queue) <= Backlog
           /\ daemon \in {"up", "draining", "exited"} /\ stalled \in BOOLEAN
           /\ others \in Nat /\ others <= MaxConnections
           /\ Active = others + Cardinality(Busy) /\ Active <= MaxConnections
           /\ IsFiniteSet(Busy) /\ Cardinality(Busy) \in Nat
           /\ MaxConnections \in Nat
  <1>1. MaxConnections \in Nat /\ IsFiniteSet(Clients)
    BY ControlClientAssumption
  <1>2. IsFiniteSet(Busy)
    BY <1>1, FS_Subset DEF Busy
  <1>3. Cardinality(Busy) \in Nat
    BY <1>2, FS_CardinalityType
  <1>4. ctl \in [Clients -> Tool] /\ conn \in [Clients -> Connection] /\ fate \in [Clients -> Fate]
    BY DEF ClientTypeOK, Tool, Connection, Fate
  <1>5. others \in Nat /\ others <= MaxConnections
    BY <1>1 DEF ClientTypeOK
  <1>6. Active = others + Cardinality(Busy) /\ Active <= MaxConnections
    BY DEF ClientTypeOK, Active, Busy
  <1> QED
    BY <1>1, <1>2, <1>3, <1>4, <1>5, <1>6 DEF ClientTypeOK

\* A step that takes no slot keeps within the limit.
LEMMA NoSlotTaken ==
    ASSUME ClientTypeOK, Busy' \subseteq Busy, others' = others
    PROVE  Active' <= MaxConnections
  <1>1. IsFiniteSet(Busy) /\ Cardinality(Busy) \in Nat /\ others \in Nat /\ MaxConnections \in Nat
        /\ others + Cardinality(Busy) <= MaxConnections
    BY ClientTypes
  <1>2. Cardinality(Busy') \in Nat /\ Cardinality(Busy') <= Cardinality(Busy)
    BY <1>1, FS_Subset, FS_CardinalityType
  <1>3. Active' = others + Cardinality(Busy')
    BY DEF Active, Busy
  <1> QED
    BY <1>1, <1>2, <1>3

\* A step that concerns one run of the tool and its connection.
LEMMA OneClient ==
    ASSUME ClientInv, NEW c \in Clients,
           ctl' \in [Clients -> Tool], conn' \in [Clients -> Connection],
           fate' \in [Clients -> Fate],
           \A e \in Clients \ {c} : ctl'[e] = ctl[e] /\ conn'[e] = conn[e] /\ fate'[e] = fate[e],
           UNCHANGED <<queue, daemon, stalled, others>>,
           conn'[c].task \in Tasks => conn[c].task \in Tasks,
           conn[c].task = "queued" => conn'[c].task = "queued",
           ClientOK(ctl'[c], conn'[c], fate'[c], daemon)
    PROVE  ClientInv'
  <1>0. ClientTypeOK
    BY DEF ClientInv
  <1>1. Busy' \subseteq Busy
    BY DEF Busy
  <1>2. Active' <= MaxConnections
    BY <1>0, <1>1, NoSlotTaken
  <1>3. ClientTypeOK'
    BY <1>0, <1>2 DEF ClientTypeOK, Tool, Connection, Fate
  <1>4. QueueOK'
    <2>1. ASSUME NEW i \in 1 .. Len(queue) PROVE conn'[queue[i]].task = "queued"
      <3>1. queue[i] \in Clients /\ conn[queue[i]].task = "queued"
        BY <1>0, ClientTypes DEF ClientInv, QueueOK
      <3> QED
        BY <3>1
    <2> QED
      BY <2>1 DEF ClientInv, QueueOK
  <1>5. ASSUME NEW e \in Clients PROVE ClientOK(ctl'[e], conn'[e], fate'[e], daemon')
    <2>1. CASE e = c
      BY <2>1
    <2>2. CASE e # c
      BY <2>2 DEF ClientInv
    <2> QED
      BY <2>1, <2>2
  <1> QED
    BY <1>3, <1>4, <1>5 DEF ClientInv

\* A new daemon, and tools that have not begun.
LEMMA ClientInitInv == ClientInit => ClientInv
  <1> SUFFICES ASSUME ClientInit PROVE ClientInv
    OBVIOUS
  <1>1. /\ ctl \in [Clients -> Tool] /\ conn \in [Clients -> Connection]
        /\ fate \in [Clients -> Fate]
    BY DEF ClientInit, Tool, Connection, Fate, Queries, Reports, Replies
  <1>2. queue \in Seq(Clients) /\ Len(queue) = 0
    BY DEF ClientInit
  <1>3. \A c \in Clients : conn[c].task = "none"
    BY DEF ClientInit
  <1>4. Busy = {} /\ MaxConnections \in Nat /\ Backlog \in Nat
    BY <1>3, ControlClientAssumption DEF Busy, Tasks
  <1>5. Active = 0
    <2>1. Active = others + Cardinality(Busy) /\ others = 0
      BY DEF Active, Busy, ClientInit
    <2> QED
      BY <1>4, <2>1, FS_EmptySet
  <1>6. daemon \in {"up", "draining", "exited"} /\ stalled \in BOOLEAN
    BY DEF ClientInit
  <1>7. others \in 0 .. MaxConnections /\ Active <= MaxConnections /\ Len(queue) <= Backlog
    BY <1>2, <1>4, <1>5 DEF ClientInit
  <1>8. ClientTypeOK
    BY <1>1, <1>2, <1>6, <1>7 DEF ClientTypeOK, Tool, Connection, Fate
  <1>9. QueueOK
    BY <1>2 DEF QueueOK
  <1>10. \A c \in Clients : ClientOK(ctl[c], conn[c], fate[c], daemon)
    BY DEF ClientInit, ClientOK, TaskOK, ToolOK
  <1> QED
    BY <1>8, <1>9, <1>10 DEF ClientInv

\* What Report, Goto and Close do to the record of one run.
LEMMA ToolSteps ==
    ASSUME ClientTypeOK, NEW c \in Clients
    PROVE  /\ \A pc \in {"send", "read"} : Goto(c, pc) =>
                /\ ctl' \in [Clients -> Tool]
                /\ ctl'[c].pc = pc /\ ctl'[c].query = ctl[c].query
                /\ ctl'[c].report = ctl[c].report
                /\ \A e \in Clients \ {c} : ctl'[e] = ctl[e]
           /\ \A report \in Reports : Report(c, report) =>
                /\ ctl' \in [Clients -> Tool]
                /\ ctl'[c].pc = "done" /\ ctl'[c].query = ctl[c].query
                /\ ctl'[c].report = report
                /\ \A e \in Clients \ {c} : ctl'[e] = ctl[e]
           /\ Close(c) =>
                /\ conn' \in [Clients -> Connection]
                /\ conn'[c].task = "gone" /\ conn'[c].line = conn[c].line
                /\ conn'[c].answer = conn[c].answer /\ conn'[c].reply = conn[c].reply
                /\ \A e \in Clients \ {c} : conn'[e] = conn[e]
  <1>0. ctl \in [Clients -> Tool] /\ conn \in [Clients -> Connection]
    BY ClientTypes
  <1>1. ASSUME NEW pc \in {"send", "read"}, Goto(c, pc)
        PROVE  /\ ctl' \in [Clients -> Tool]
               /\ ctl'[c].pc = pc /\ ctl'[c].query = ctl[c].query
               /\ ctl'[c].report = ctl[c].report
               /\ \A e \in Clients \ {c} : ctl'[e] = ctl[e]
    BY <1>0, <1>1 DEF Goto, Tool
  <1>2. ASSUME NEW report \in Reports, Report(c, report)
        PROVE  /\ ctl' \in [Clients -> Tool]
               /\ ctl'[c].pc = "done" /\ ctl'[c].query = ctl[c].query
               /\ ctl'[c].report = report
               /\ \A e \in Clients \ {c} : ctl'[e] = ctl[e]
    BY <1>0, <1>2 DEF Report, Tool
  <1>3. ASSUME Close(c)
        PROVE  /\ conn' \in [Clients -> Connection]
               /\ conn'[c].task = "gone" /\ conn'[c].line = conn[c].line
               /\ conn'[c].answer = conn[c].answer /\ conn'[c].reply = conn[c].reply
               /\ \A e \in Clients \ {c} : conn'[e] = conn[e]
    BY <1>0, <1>3 DEF Close, Connection
  <1> QED
    BY <1>1, <1>2, <1>3

\* The tool ends with a report that is true.
LEMMA ReportInv ==
    ASSUME ClientInv, NEW c \in Clients, NEW report \in Reports, Report(c, report),
           UNCHANGED <<conn, server>>, ctl[c].pc # "idle",
           report = "ok" => conn[c].reply \in {"pong", "status"},
           report = "failed" => conn[c].reply = "error",
           report = "malformed" => fate[c] = "rejected" \/ daemon # "up"
    PROVE  ClientInv'
  <1>0. ClientTypeOK /\ UNCHANGED <<conn, queue, daemon, stalled, others, fate>>
    BY DEF ClientInv, server
  <1>1. /\ ctl' \in [Clients -> Tool]
        /\ ctl'[c].pc = "done" /\ ctl'[c].query = ctl[c].query /\ ctl'[c].report = report
        /\ \A e \in Clients \ {c} : ctl'[e] = ctl[e]
    BY <1>0, ToolSteps
  <1>2. TaskOK(ctl[c], conn[c], fate[c]) /\ ToolOK(ctl[c], conn[c], fate[c], daemon)
    BY DEF ClientInv, ClientOK
  <1>3. TaskOK(ctl'[c], conn[c], fate[c])
    BY <1>1, <1>2 DEF TaskOK
  <1>4. ToolOK(ctl'[c], conn[c], fate[c], daemon)
    BY <1>1, <1>2 DEF ToolOK
  <1> QED
    BY <1>0, <1>1, <1>3, <1>4, OneClient, ClientTypes DEF ClientOK

\* The tool's own steps, but for the connect.
LEMMA ToolInv ==
    ASSUME ClientInv, NEW c \in Clients,
           \/ \E query \in Queries, found \in BOOLEAN : Resolve(c, query, found)
           \/ ConnectRefused(c) \/ Send(c) \/ ReadReply(c) \/ QueryTimeout(c) \/ ClientError(c)
    PROVE  ClientInv'
  <1>0. /\ ClientTypeOK /\ ctl \in [Clients -> Tool] /\ conn \in [Clients -> Connection]
        /\ fate \in [Clients -> Fate]
        /\ TaskOK(ctl[c], conn[c], fate[c]) /\ ToolOK(ctl[c], conn[c], fate[c], daemon)
    BY ClientTypes DEF ClientInv, ClientOK
  <1>1. CASE \E query \in Queries, found \in BOOLEAN : Resolve(c, query, found)
    <2>1. PICK query \in Queries, found \in BOOLEAN : Resolve(c, query, found)
      BY <1>1
    <2>2. ctl[c].pc = "idle" /\ UNCHANGED <<conn, queue, daemon, stalled, others, fate>>
      BY <2>1 DEF Resolve, At, server
    <2>3. /\ ctl' \in [Clients -> Tool] /\ ctl'[c].pc \in {"connect", "done"}
          /\ ctl'[c].report \in {"none", "config"}
          /\ \A e \in Clients \ {c} : ctl'[e] = ctl[e]
      BY <1>0, <2>1 DEF Resolve, Tool, Reports
    <2>4. TaskOK(ctl'[c], conn[c], fate[c]) /\ conn[c].task = "none"
      BY <1>0, <2>2, <2>3 DEF TaskOK, ToolOK
    <2>5. ToolOK(ctl'[c], conn[c], fate[c], daemon)
      BY <1>0, <2>2, <2>3, <2>4 DEF TaskOK, ToolOK
    <2> QED
      BY <1>0, <2>2, <2>3, <2>4, <2>5, OneClient DEF ClientOK
  <1>2. CASE ConnectRefused(c)
    BY <1>2, ReportInv DEF ConnectRefused, At, Reports
  <1>3. CASE Send(c)
    <2>1. CASE Gone(c) /\ Report(c, "send") /\ conn' = conn
      BY <1>3, <2>1, ReportInv DEF Send, At, Reports
    <2>2. CASE ~ Gone(c) /\ Goto(c, "read") /\ conn' = [conn EXCEPT ![c].line = TRUE]
      <3>1. ctl[c].pc = "send" /\ UNCHANGED <<queue, daemon, stalled, others, fate>>
        BY <1>3 DEF Send, At, server
      <3>2. /\ ctl' \in [Clients -> Tool]
            /\ ctl'[c].pc = "read" /\ ctl'[c].query = ctl[c].query
            /\ ctl'[c].report = ctl[c].report
            /\ \A e \in Clients \ {c} : ctl'[e] = ctl[e]
        BY <1>0, <2>2, ToolSteps
      <3>3. /\ conn' \in [Clients -> Connection]
            /\ conn'[c].line /\ conn'[c].task = conn[c].task
            /\ conn'[c].answer = conn[c].answer /\ conn'[c].reply = conn[c].reply
            /\ \A e \in Clients \ {c} : conn'[e] = conn[e]
        BY <1>0, <2>2 DEF Connection
      <3>4. conn[c].task \in {"queued", "read"} /\ conn[c].answer = "none" /\ conn[c].reply = "none"
        BY <1>0, <2>2, <3>1 DEF Connection, Tasks, Gone, TaskOK, ToolOK, Fits
      <3>5. TaskOK(ctl'[c], conn'[c], fate[c])
        BY <1>0, <3>1, <3>2, <3>3, <3>4 DEF TaskOK, ToolOK, Fits
      <3>6. ToolOK(ctl'[c], conn'[c], fate[c], daemon)
        BY <1>0, <3>1, <3>2, <3>3, <3>4 DEF TaskOK, ToolOK
      <3> QED
        BY <1>0, <3>1, <3>2, <3>3, <3>5, <3>6, OneClient DEF ClientOK
    <2> QED
      BY <1>3, <2>1, <2>2 DEF Send
  <1>4. CASE ReadReply(c)
    <2>1. CASE conn[c].reply # "none" /\ Report(c, Decoded(c))
      <3>1. Fits(conn[c].reply, ctl[c].query, fate[c])
        BY <1>0, <2>1 DEF ToolOK
      <3>2. \/ Decoded(c) = "failed" /\ conn[c].reply = "error"
            \/ Decoded(c) = "ok" /\ conn[c].reply \in {"pong", "status"}
        BY <3>1 DEF Fits, Decoded
      <3> QED
        BY <1>4, <2>1, <3>2, ReportInv DEF ReadReply, At, Reports
    <2>2. CASE conn[c].reply = "none" /\ Gone(c) /\ Report(c, "malformed")
      <3>1. fate[c] = "rejected" \/ daemon # "up"
        BY <1>0, <1>4, <2>2 DEF ReadReply, At, Gone, ToolOK
      <3> QED
        BY <1>4, <2>2, <3>1, ReportInv DEF ReadReply, At, Reports
    <2> QED
      BY <1>4, <2>1, <2>2 DEF ReadReply
  <1>5. CASE QueryTimeout(c)
    BY <1>5, ReportInv DEF QueryTimeout, At, Reports
  <1>6. CASE ClientError(c)
    BY <1>6, ReportInv DEF ClientError, Reports
  <1> QED
    BY <1>1, <1>2, <1>3, <1>4, <1>5, <1>6

\* The connection's task ends: the tool has gone, or the daemon is ending.
LEMMA CloseInv ==
    ASSUME ClientInv, NEW c \in Clients, Close(c), UNCHANGED <<ctl, server>>,
           conn[c].task \in {"read", "write"}, ctl[c].pc = "done" \/ daemon # "up"
    PROVE  ClientInv'
  <1>0. /\ ClientTypeOK /\ ctl \in [Clients -> Tool] /\ fate \in [Clients -> Fate]
        /\ TaskOK(ctl[c], conn[c], fate[c]) /\ ToolOK(ctl[c], conn[c], fate[c], daemon)
        /\ UNCHANGED <<ctl, queue, daemon, stalled, others, fate>>
    BY ClientTypes DEF ClientInv, ClientOK, server
  <1>1. /\ conn' \in [Clients -> Connection]
        /\ conn'[c].task = "gone" /\ conn'[c].line = conn[c].line
        /\ conn'[c].answer = conn[c].answer /\ conn'[c].reply = conn[c].reply
        /\ \A e \in Clients \ {c} : conn'[e] = conn[e]
    BY <1>0, ToolSteps
  <1>2. TaskOK(ctl[c], conn'[c], fate[c])
    BY <1>1 DEF TaskOK
  <1>3. ToolOK(ctl[c], conn'[c], fate[c], daemon)
    BY <1>0, <1>1 DEF ToolOK
  <1>4. conn'[c].task \notin Tasks /\ conn[c].task # "queued"
    BY <1>1 DEF Tasks
  <1> QED
    BY <1>0, <1>1, <1>2, <1>3, <1>4, OneClient DEF ClientOK

\* The steps of a task of the daemon.
LEMMA TaskInv == ASSUME ClientInv, NEW c \in Clients, TaskStep(c) PROVE ClientInv'
  <1>0. /\ ClientTypeOK /\ ctl \in [Clients -> Tool] /\ conn \in [Clients -> Connection]
        /\ fate \in [Clients -> Fate]
        /\ TaskOK(ctl[c], conn[c], fate[c]) /\ ToolOK(ctl[c], conn[c], fate[c], daemon)
    BY ClientTypes DEF ClientInv, ClientOK
  <1>1. CASE ReadLine(c)
    <2>1. conn[c].task = "read" /\ conn[c].line /\ UNCHANGED <<ctl, queue, daemon, stalled, others>>
      BY <1>1 DEF ReadLine
    <2>2. /\ conn' \in [Clients -> Connection] /\ ~ conn'[c].line
          /\ conn'[c].reply = conn[c].reply
          /\ ctl[c].query = "ping" => conn'[c].task = "write" /\ conn'[c].answer = "pong"
          /\ ctl[c].query # "ping" => conn'[c].task = "check" /\ conn'[c].answer = "none"
          /\ \A e \in Clients \ {c} : conn'[e] = conn[e]
      BY <1>0, <1>1 DEF ReadLine, Connection, Tasks, Replies
    <2>3. /\ fate' \in [Clients -> Fate]
          /\ ctl[c].query = "ping" => fate'[c] = "answered"
          /\ ctl[c].query # "ping" => fate'[c] = fate[c]
          /\ \A e \in Clients \ {c} : fate'[e] = fate[e]
      BY <1>0, <1>1 DEF ReadLine, Fate
    <2>4. /\ ctl[c].query \in {"ping", "limits"} /\ ctl[c].pc \in {"read", "done"}
          /\ fate[c] = "none" /\ conn[c].reply = "none"
          /\ ctl[c].report \notin {"ok", "failed"}
      BY <1>0, <2>1 DEF Tool, Queries, TaskOK, ToolOK
    <2>5. TaskOK(ctl[c], conn'[c], fate'[c])
      BY <2>2, <2>3, <2>4 DEF TaskOK, Fits
    <2>6. ToolOK(ctl[c], conn'[c], fate'[c], daemon)
      <3>1. ctl[c].report = "malformed" => daemon # "up"
        BY <1>0, <2>4 DEF ToolOK
      <3> QED
        BY <2>2, <2>3, <2>4, <3>1 DEF ToolOK
    <2>7. conn[c].task \in Tasks /\ conn[c].task # "queued"
      BY <2>1 DEF Tasks
    <2> QED
      BY <1>0, <2>1, <2>2, <2>3, <2>5, <2>6, <2>7, OneClient DEF ClientOK
  <1>2. CASE \E ok \in BOOLEAN : CheckDone(c, ok)
    <2>0. PICK ok \in BOOLEAN : CheckDone(c, ok)
      BY <1>2
    <2>1. conn[c].task = "check" /\ UNCHANGED <<ctl, queue, daemon, stalled, others>>
      BY <2>0 DEF CheckDone
    <2>2. /\ conn' \in [Clients -> Connection] /\ conn'[c].line = conn[c].line
          /\ conn'[c].reply = conn[c].reply /\ conn'[c].task = "write"
          /\ conn'[c].answer = IF ok THEN "status" ELSE "error"
          /\ \A e \in Clients \ {c} : conn'[e] = conn[e]
      BY <1>0, <2>0 DEF CheckDone, Connection, Tasks, Replies
    <2>3. /\ fate' \in [Clients -> Fate]
          /\ fate'[c] = IF ok THEN "answered" ELSE "failed"
          /\ \A e \in Clients \ {c} : fate'[e] = fate[e]
      BY <1>0, <2>0 DEF CheckDone, Fate
    <2>4. /\ ctl[c].query = "limits" /\ ctl[c].pc \in {"read", "done"} /\ ~ conn[c].line
          /\ fate[c] = "none" /\ conn[c].reply = "none"
          /\ ctl[c].report \notin {"ok", "failed"}
      BY <1>0, <2>1 DEF TaskOK, ToolOK
    <2>5. TaskOK(ctl[c], conn'[c], fate'[c])
      BY <2>2, <2>3, <2>4 DEF TaskOK, Fits
    <2>6. ToolOK(ctl[c], conn'[c], fate'[c], daemon)
      <3>1. ctl[c].report = "malformed" => daemon # "up"
        BY <1>0, <2>4 DEF ToolOK
      <3> QED
        BY <2>2, <2>3, <2>4, <3>1 DEF ToolOK
    <2>7. conn[c].task \in Tasks /\ conn[c].task # "queued"
      BY <2>1 DEF Tasks
    <2> QED
      BY <1>0, <2>1, <2>2, <2>3, <2>5, <2>6, <2>7, OneClient DEF ClientOK
  <1>3. CASE WriteResponse(c)
    <2>1. CASE At(c, "done") /\ Close(c)
      BY <1>3, <2>1, CloseInv DEF WriteResponse, At
    <2>2. CASE ~ At(c, "done") /\ conn' = [conn EXCEPT ![c].task = "read",
                                                      ![c].reply = conn[c].answer]
      <3>1. /\ conn[c].task = "write" /\ ctl[c].pc # "done"
            /\ UNCHANGED <<ctl, queue, daemon, stalled, others, fate>>
        BY <1>3, <2>2 DEF WriteResponse, At, server
      <3>2. /\ conn' \in [Clients -> Connection] /\ conn'[c].line = conn[c].line
            /\ conn'[c].task = "read" /\ conn'[c].answer = conn[c].answer
            /\ conn'[c].reply = conn[c].answer
            /\ \A e \in Clients \ {c} : conn'[e] = conn[e]
        BY <1>0, <2>2 DEF Connection, Tasks
      <3>3. /\ Fits(conn[c].answer, ctl[c].query, fate[c]) /\ ~ conn[c].line
            /\ conn[c].reply = "none" /\ ctl[c].pc = "read"
            /\ ctl[c].report \notin {"ok", "failed"}
        BY <1>0, <3>1 DEF TaskOK, ToolOK
      <3>4. TaskOK(ctl[c], conn'[c], fate[c])
        BY <3>2, <3>3 DEF TaskOK
      <3>5. ToolOK(ctl[c], conn'[c], fate[c], daemon)
        <4>1. fate[c] # "rejected"
          BY <3>3 DEF Fits
        <4> QED
          BY <1>0, <3>2, <3>3, <4>1 DEF ToolOK
      <3>6. conn[c].task \in Tasks /\ conn[c].task # "queued"
        BY <3>1 DEF Tasks
      <3> QED
        BY <1>0, <3>1, <3>2, <3>4, <3>5, <3>6, OneClient DEF ClientOK
    <2> QED
      BY <1>3, <2>1, <2>2 DEF WriteResponse
  <1>4. CASE ReadEof(c)
    BY <1>4, CloseInv DEF ReadEof, At
  <1>5. CASE SeeCancel(c)
    BY <1>5, CloseInv DEF SeeCancel
  <1> QED
    BY <1>1, <1>2, <1>3, <1>4, <1>5 DEF TaskStep

\* A connection is queued by the kernel.
LEMMA ConnectInv == ASSUME ClientInv, NEW c \in Clients, Connect(c) PROVE ClientInv'
  <1>0. /\ ClientTypeOK /\ ctl \in [Clients -> Tool] /\ conn \in [Clients -> Connection]
        /\ fate \in [Clients -> Fate] /\ queue \in Seq(Clients) /\ Len(queue) \in Nat
        /\ TaskOK(ctl[c], conn[c], fate[c]) /\ ToolOK(ctl[c], conn[c], fate[c], daemon)
    BY ClientTypes DEF ClientInv, ClientOK
  <1>1. /\ ctl[c].pc = "connect" /\ Len(queue) < Backlog /\ queue' = Append(queue, c)
        /\ Goto(c, "send") /\ UNCHANGED <<daemon, stalled, others, fate>>
    BY DEF Connect, At
  <1>2. /\ ctl' \in [Clients -> Tool]
        /\ ctl'[c].pc = "send" /\ ctl'[c].query = ctl[c].query
        /\ ctl'[c].report = ctl[c].report
        /\ \A e \in Clients \ {c} : ctl'[e] = ctl[e]
    BY <1>0, <1>1, ToolSteps
  <1>3. /\ conn' \in [Clients -> Connection]
        /\ conn'[c].line = conn[c].line /\ conn'[c].task = "queued"
        /\ conn'[c].answer = conn[c].answer /\ conn'[c].reply = conn[c].reply
        /\ \A e \in Clients \ {c} : conn'[e] = conn[e]
    BY <1>0 DEF Connect, Connection
  <1>4. conn[c].task = "none"
    BY <1>0, <1>1 DEF ToolOK
  <1>5. /\ queue' \in Seq(Clients) /\ Len(queue') = Len(queue) + 1
        /\ queue'[Len(queue) + 1] = c
        /\ \A i \in 1 .. Len(queue) : queue'[i] = queue[i]
    BY <1>0, <1>1, AppendProperties
  <1>6. ClientTypeOK'
    <2>1. Busy' \subseteq Busy
      BY <1>3 DEF Busy, Tasks
    <2>2. Active' <= MaxConnections
      BY <1>0, <1>1, <2>1, NoSlotTaken
    <2>3. Len(queue') <= Backlog
      BY <1>0, <1>1, <1>5, ControlClientAssumption
    <2> QED
      BY <1>0, <1>1, <1>2, <1>3, <1>5, <2>2, <2>3 DEF ClientTypeOK, Tool, Connection, Fate
  <1>7. QueueOK'
    <2>1. ASSUME NEW i \in 1 .. Len(queue)
          PROVE  queue'[i] = queue[i] /\ queue[i] \in Clients \ {c} /\ conn'[queue[i]].task = "queued"
      <3>1. queue[i] \in Clients /\ conn[queue[i]].task = "queued"
        BY <1>0 DEF ClientInv, QueueOK
      <3>2. queue[i] # c
        BY <1>4, <3>1
      <3> QED
        BY <1>3, <1>5, <3>1, <3>2
    <2>2. \A i \in 1 .. Len(queue') : i \in 1 .. Len(queue) \/ i = Len(queue) + 1
      BY <1>0, <1>5
    <2>3. \A i \in 1 .. Len(queue') : conn'[queue'[i]].task = "queued"
      BY <1>3, <1>5, <2>1, <2>2
    <2>4. ASSUME NEW i \in 1 .. Len(queue'), NEW j \in 1 .. Len(queue'), queue'[i] = queue'[j]
          PROVE  i = j
      <3>1. CASE i \in 1 .. Len(queue) /\ j \in 1 .. Len(queue)
        BY <2>1, <2>4, <3>1 DEF ClientInv, QueueOK
      <3>2. CASE i = Len(queue) + 1 \/ j = Len(queue) + 1
        BY <1>5, <2>1, <2>2, <2>4, <3>2
      <3> QED
        BY <2>2, <3>1, <3>2
    <2> QED
      BY <2>3, <2>4 DEF QueueOK
  <1>8. TaskOK(ctl'[c], conn'[c], fate[c])
    BY <1>0, <1>2, <1>3, <1>4 DEF TaskOK
  <1>9. ToolOK(ctl'[c], conn'[c], fate[c], daemon)
    BY <1>0, <1>2, <1>3, <1>4 DEF TaskOK, ToolOK
  <1>10. ASSUME NEW e \in Clients PROVE ClientOK(ctl'[e], conn'[e], fate'[e], daemon')
    <2>1. CASE e = c
      BY <1>1, <1>8, <1>9, <2>1 DEF ClientOK
    <2>2. CASE e # c
      BY <1>1, <1>2, <1>3, <2>2 DEF ClientInv
    <2> QED
      BY <2>1, <2>2
  <1> QED
    BY <1>6, <1>7, <1>10 DEF ClientInv

\* The connection at the head of the backlog gets a task, or is dropped.
LEMMA AcceptInv == ASSUME ClientInv, Accept PROVE ClientInv'
  <1> DEFINE c == Head(queue)
  <1>0. /\ ClientTypeOK /\ ctl \in [Clients -> Tool] /\ conn \in [Clients -> Connection]
        /\ fate \in [Clients -> Fate] /\ queue \in Seq(Clients) /\ Len(queue) \in Nat
        /\ Len(queue) <= Backlog /\ Backlog \in Nat
    BY ClientTypes, ControlClientAssumption DEF ClientInv
  <1>1. /\ queue # << >> /\ queue' = Tail(queue) /\ daemon = "up"
        /\ UNCHANGED <<ctl, daemon, stalled, others>>
    BY DEF Accept
  <1>2. /\ c \in Clients /\ c = queue[1] /\ 1 \in 1 .. Len(queue)
        /\ queue' \in Seq(Clients) /\ Len(queue') = Len(queue) - 1
        /\ \A i \in 1 .. Len(queue') : queue'[i] = queue[i + 1]
    BY <1>0, <1>1, HeadTailProperties
  <1>3. /\ conn[c].task = "queued"
        /\ TaskOK(ctl[c], conn[c], fate[c]) /\ ToolOK(ctl[c], conn[c], fate[c], daemon)
    BY <1>2 DEF ClientInv, ClientOK, QueueOK
  <1> HIDE DEF c
  <1>4. \/ AtLimit /\ Close(c) /\ fate' = [fate EXCEPT ![c] = "rejected"]
        \/ ~ AtLimit /\ conn' = [conn EXCEPT ![c].task = "read"] /\ fate' = fate
    BY DEF Accept, c
  <1>5. /\ conn' \in [Clients -> Connection]
        /\ conn'[c].line = conn[c].line
        /\ conn'[c].answer = conn[c].answer /\ conn'[c].reply = conn[c].reply
        /\ \A e \in Clients \ {c} : conn'[e] = conn[e]
    <2>1. CASE Close(c)
      BY <1>0, <1>2, <2>1, ToolSteps
    <2>2. CASE conn' = [conn EXCEPT ![c].task = "read"]
      BY <1>0, <1>2, <2>2 DEF Connection, Tasks
    <2> QED
      BY <1>4, <2>1, <2>2
  <1>6. /\ fate' \in [Clients -> Fate]
        /\ \A e \in Clients \ {c} : fate'[e] = fate[e]
        /\ \/ AtLimit /\ conn'[c].task = "gone" /\ fate'[c] = "rejected"
           \/ ~ AtLimit /\ conn'[c].task = "read" /\ fate'[c] = fate[c]
    BY <1>0, <1>2, <1>4 DEF Close, Connection, Fate
  <1>7. Active' <= MaxConnections
    <2>1. CASE conn'[c].task = "gone"
      <3>1. Busy' \subseteq Busy
        BY <1>5, <2>1 DEF Busy, Tasks
      <3> QED
        BY <1>0, <1>1, <3>1, NoSlotTaken
    <2>2. CASE conn'[c].task = "read" /\ ~ AtLimit
      <3>1. Busy' = Busy \cup {c} /\ c \notin Busy
        BY <1>2, <1>3, <1>5, <2>2 DEF Busy, Tasks
      <3>2. /\ IsFiniteSet(Busy) /\ Cardinality(Busy) \in Nat /\ others \in Nat
            /\ MaxConnections \in Nat /\ Active = others + Cardinality(Busy)
        BY <1>0, ClientTypes
      <3>3. Cardinality(Busy') = Cardinality(Busy) + 1
        BY <3>1, <3>2, FS_AddElement
      <3>4. Active' = others' + Cardinality(Busy')
        BY DEF Active, Busy
      <3>5. ~ (Active >= MaxConnections)
        BY <2>2 DEF AtLimit
      <3> QED
        BY <1>1, <3>2, <3>3, <3>4, <3>5
    <2> QED
      BY <1>6, <2>1, <2>2
  <1>8. ClientTypeOK'
    <2>1. Len(queue') <= Backlog
      BY <1>0, <1>2
    <2> QED
      BY <1>0, <1>1, <1>2, <1>5, <1>6, <1>7, <2>1 DEF ClientTypeOK, Tool, Connection, Fate
  <1>9. QueueOK'
    <2>1. ASSUME NEW i \in 1 .. Len(queue')
          PROVE  i + 1 \in 1 .. Len(queue) /\ i + 1 # 1
      BY <1>0, <1>2
    <2>2. ASSUME NEW i \in 1 .. Len(queue') PROVE conn'[queue'[i]].task = "queued"
      <3>1. queue'[i] = queue[i + 1] /\ queue[i + 1] \in Clients /\ queue[i + 1] # c
        BY <1>0, <1>2, <2>1 DEF ClientInv, QueueOK
      <3>2. conn[queue[i + 1]].task = "queued"
        BY <2>1 DEF ClientInv, QueueOK
      <3> QED
        BY <1>5, <3>1, <3>2
    <2>3. ASSUME NEW i \in 1 .. Len(queue'), NEW j \in 1 .. Len(queue'), queue'[i] = queue'[j]
          PROVE  i = j
      <3>1. i + 1 = j + 1
        BY <1>2, <2>1, <2>3 DEF ClientInv, QueueOK
      <3> QED
        BY <3>1
    <2> QED
      BY <2>2, <2>3 DEF QueueOK
  <1>10. ASSUME NEW e \in Clients PROVE ClientOK(ctl'[e], conn'[e], fate'[e], daemon')
    <2>1. CASE e = c
      <3>1. conn[c].answer = "none" /\ conn[c].reply = "none" /\ fate[c] = "none"
            /\ ctl[c].pc \notin {"idle", "connect"}
        BY <1>3 DEF TaskOK, ToolOK
      <3>2. TaskOK(ctl[c], conn'[c], fate'[c])
        BY <1>5, <1>6, <3>1 DEF TaskOK
      <3>3. ToolOK(ctl[c], conn'[c], fate'[c], daemon)
        BY <1>3, <1>5, <1>6, <3>1 DEF ToolOK
      <3> QED
        BY <1>1, <2>1, <3>2, <3>3 DEF ClientOK
    <2>2. CASE e # c
      BY <1>1, <1>5, <1>6, <2>2 DEF ClientInv
    <2> QED
      BY <2>1, <2>2
  <1> QED
    BY <1>8, <1>9, <1>10 DEF ClientInv

\* The daemon as a whole, and its other connections.
LEMMA DaemonInv ==
    ASSUME ClientInv,
           Shutdown \/ Exit \/ Stall \/ \E n \in 0 .. MaxConnections : OthersChange(n)
    PROVE  ClientInv'
  <1>0. /\ ClientTypeOK /\ ctl \in [Clients -> Tool] /\ conn \in [Clients -> Connection]
        /\ fate \in [Clients -> Fate]
    BY ClientTypes DEF ClientInv
  <1>1. CASE Shutdown \/ Stall
    <2>1. /\ UNCHANGED <<ctl, conn, queue, others, fate>>
          /\ daemon' = daemon \/ daemon' = "draining"
          /\ daemon' \in {"up", "draining", "exited"} /\ stalled' \in BOOLEAN
      BY <1>0, <1>1 DEF Shutdown, Stall, ClientTypeOK
    <2>2. ClientTypeOK'
      BY <1>0, <2>1 DEF ClientTypeOK, Active
    <2>3. QueueOK'
      BY <2>1 DEF ClientInv, QueueOK
    <2>4. ASSUME NEW e \in Clients PROVE ClientOK(ctl[e], conn[e], fate[e], daemon')
      BY <2>1 DEF ClientInv, ClientOK, ToolOK
    <2> QED
      BY <2>1, <2>2, <2>3, <2>4 DEF ClientInv
  <1>2. CASE Exit
    <2>1. daemon' = "exited" /\ queue' = << >> /\ UNCHANGED <<ctl, stalled, others, fate>>
      BY <1>2 DEF Exit
    <2>2. ASSUME NEW e \in Clients
          PROVE  /\ conn'[e] \in Connection
                 /\ \/ conn'[e] = conn[e] /\ conn[e].task = "none"
                    \/ /\ conn'[e].task = "gone" /\ conn'[e].line = conn[e].line
                       /\ conn'[e].answer = conn[e].answer /\ conn'[e].reply = conn[e].reply
      BY <1>0, <1>2 DEF Exit, Connection
    <2>3. conn' \in [Clients -> Connection]
      BY <1>2, <2>2 DEF Exit
    <2>4. Active' <= MaxConnections
      <3>1. Busy' \subseteq Busy
        BY <2>2 DEF Busy, Tasks
      <3> QED
        BY <1>0, <2>1, <3>1, NoSlotTaken
    <2>5. queue' \in Seq(Clients) /\ Len(queue') = 0 /\ Len(queue') <= Backlog
      BY <2>1, ControlClientAssumption
    <2>6. ClientTypeOK'
      BY <1>0, <2>1, <2>3, <2>4, <2>5 DEF ClientTypeOK, Tool, Connection, Fate
    <2>7. QueueOK'
      BY <2>5 DEF QueueOK
    <2>8. ASSUME NEW e \in Clients PROVE ClientOK(ctl[e], conn'[e], fate[e], daemon')
      <3>1. TaskOK(ctl[e], conn[e], fate[e]) /\ ToolOK(ctl[e], conn[e], fate[e], daemon)
        BY DEF ClientInv, ClientOK
      <3>2. CASE conn'[e] = conn[e]
        BY <2>1, <3>1, <3>2 DEF ClientOK, ToolOK
      <3>3. CASE /\ conn'[e].task = "gone" /\ conn'[e].line = conn[e].line
                 /\ conn'[e].answer = conn[e].answer /\ conn'[e].reply = conn[e].reply
                 /\ conn[e].task # "none"
        <4>1. TaskOK(ctl[e], conn'[e], fate[e])
          BY <3>3 DEF TaskOK
        <4>2. ToolOK(ctl[e], conn'[e], fate[e], daemon')
          BY <2>1, <3>1, <3>3 DEF ToolOK
        <4> QED
          BY <4>1, <4>2 DEF ClientOK
      <3> QED
        BY <1>2, <2>2, <3>2, <3>3 DEF Exit
    <2> QED
      BY <2>1, <2>6, <2>7, <2>8 DEF ClientInv
  <1>3. CASE \E n \in 0 .. MaxConnections : OthersChange(n)
    <2>1. PICK n \in 0 .. MaxConnections : OthersChange(n)
      BY <1>3
    <2>2. /\ others' = n /\ (n > others => Active + n - others <= MaxConnections)
          /\ UNCHANGED <<ctl, conn, queue, daemon, stalled, fate>>
      BY <2>1 DEF OthersChange
    <2>3. /\ Cardinality(Busy) \in Nat /\ others \in Nat
          /\ MaxConnections \in Nat /\ Active = others + Cardinality(Busy)
          /\ Active <= MaxConnections
      BY <1>0, ClientTypes
    <2>4. Active' = n + Cardinality(Busy)
      BY <2>2 DEF Active, Busy
    <2>5. Active' <= MaxConnections
      BY <2>1, <2>2, <2>3, <2>4
    <2>6. ClientTypeOK'
      BY <1>0, <2>2, <2>5 DEF ClientTypeOK
    <2> QED
      BY <2>2, <2>6 DEF ClientInv, QueueOK
  <1> QED
    BY <1>1, <1>2, <1>3

\* Every step preserves ClientInv.
LEMMA ClientNextInv == ClientInv /\ [ClientNext]_clientVars => ClientInv'
  <1> SUFFICES ASSUME ClientInv, [ClientNext]_clientVars PROVE ClientInv'
    OBVIOUS
  <1>1. ASSUME NEW c \in Clients,
               \/ \E query \in Queries, found \in BOOLEAN : Resolve(c, query, found)
               \/ ToolStep(c) \/ ClientError(c) \/ TaskStep(c)
        PROVE  ClientInv'
    BY <1>1, ToolInv, ConnectInv, TaskInv DEF ToolStep
  <1>2. CASE Accept
    BY <1>2, AcceptInv
  <1>3. CASE Shutdown \/ Exit \/ Stall \/ \E n \in 0 .. MaxConnections : OthersChange(n)
    BY <1>3, DaemonInv
  <1>4. CASE UNCHANGED clientVars
    BY <1>4 DEF clientVars, ClientInv, ClientTypeOK, QueueOK, Active
  <1> QED
    BY <1>1, <1>2, <1>3, <1>4 DEF ClientNext

\* What postfix-ratelimitctl reports is what the daemon did with its query,
\* for any number of runs, any limit and any backlog, however the daemon's
\* steps, its shutdown and its end fall between those of the tools.
THEOREM ReportTrue == ClientSpec => []ReportIsTrue
  <1>1. ClientInv => ReportIsTrue
    BY DEF ClientInv, ClientOK, ToolOK, Fits, ReportIsTrue
  <1> QED
    BY <1>1, ClientInitInv, ClientNextInv, PTL DEF ClientSpec
=============================================================================
