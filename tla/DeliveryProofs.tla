---------------------------- MODULE DeliveryProofs ---------------------------
(***************************************************************************)
(* Theorems about Delivery, for every campaign, every timing plan and any  *)
(* number of executions.                                                   *)
(***************************************************************************)
EXTENDS Delivery, SequenceTheorems, FiniteSetTheorems, DataInduction

(***************************************************************************)
(* A request's mark in the trace, against what came: the last request has  *)
(* all that came behind it.                                                *)
(***************************************************************************)
Late(t, c, k) == IF k = Len(t) THEN Len(c) ELSE k + 1

Heard(t, c) ==
    \A k \in 1 .. Len(t) : (t[k] = TRUE) <=> \E j \in k + 1 .. Late(t, c, k) : c[j] # 0

\* The first n cells are written, and only grow.
Grows(cells, n, most) ==
    \A k \in 1 .. n : /\ 0 <= cells[k] /\ cells[k] <= most
                      /\ \A j \in 1 .. k : cells[j] <= cells[k]

Typed ==
    /\ messages_sent \in Nat /\ size \in Nat
    /\ response_bytes \in Seq(Int) /\ trace \in Seq(BOOLEAN) /\ came \in Seq(Nat)

(***************************************************************************)
(* Where an execution is.  The cell of the request just sent is not        *)
(* written before its reply or the last bytes were received.               *)
(***************************************************************************)
Written ==
    IF pc \in {"receive", "handle"} /\ response_bytes # << >> THEN Len(response_bytes) - 1
    ELSE Len(response_bytes)

Talking == pc \in {"greeting", "send", "receive", "handle", "report"}

Tried ==
    /\ Len(came) = Len(response_bytes) + 1 /\ Len(trace) <= Len(response_bytes)
    /\ pc = "greeting" => Len(response_bytes) = 0
    /\ pc \in {"send", "receive"} =>
          Len(trace) = Len(response_bytes) /\ messages_sent = Len(response_bytes)
    /\ pc = "receive" => response_bytes # << >>
    /\ response_bytes # << >> =>
          messages_sent = Len(response_bytes) /\ Len(response_bytes) - Len(trace) \in 0 .. 1

Conversation ==
    /\ Typed
    /\ Talking => /\ Tried
                  /\ Heard(trace, came)
                  /\ Grows(response_bytes, Written, size)

-----------------------------------------------------------------------------
LEMMA Lengths ==
    ASSUME NEW S, NEW s \in Seq(S)
    PROVE  Len(s) \in Nat /\ DOMAIN s = 1 .. Len(s) /\ (s = << >> <=> Len(s) = 0)
  <1>1. Len(s) \in Nat /\ DOMAIN s = 1 .. Len(s)
    BY LenProperties
  <1>2. s = << >> <=> Len(s) = 0
    BY EmptySeq
  <1> QED
    BY <1>1, <1>2

LEMMA Marked ==
    ASSUME NEW s \in Seq(BOOLEAN), NEW n \in 1 .. Len(s), NEW u, u = [s EXCEPT ![n] = TRUE]
    PROVE  /\ u \in Seq(BOOLEAN) /\ Len(u) = Len(s) /\ u[n] = TRUE
           /\ \A j \in 1 .. Len(s) : j # n => u[j] = s[j]
  <1>1. Len(s) \in Nat /\ DOMAIN s = 1 .. Len(s) /\ s \in [1 .. Len(s) -> BOOLEAN]
    BY LenProperties
  <1>2. u \in [1 .. Len(s) -> BOOLEAN]
    BY <1>1, Zenon
  <1>3. u \in Seq(BOOLEAN)
    BY <1>1, <1>2, SeqDef, ZenonT(30)
  <1>4. Len(u) \in Nat /\ 1 .. Len(u) = 1 .. Len(s)
    <2>1. Len(u) \in Nat /\ DOMAIN u = 1 .. Len(u)
      BY <1>3, Lengths, Zenon
    <2>2. DOMAIN u = 1 .. Len(s)
      BY <1>2, Zenon
    <2> QED
      BY <2>1, <2>2
  <1>5. Len(u) = Len(s)
    BY <1>1, <1>4
  <1>6. u[n] = TRUE /\ \A j \in 1 .. Len(s) : j # n => u[j] = s[j]
    BY <1>1, Zenon
  <1> QED
    BY <1>3, <1>5, <1>6

(***************************************************************************)
(* Bytes that are received go to the last request, and to no other.        *)
(***************************************************************************)
LEMMA Received ==
    ASSUME Typed, Heard(trace, came), Len(trace) < Len(came), NEW got \in 0 .. 1, net_recv(got)
    PROVE  /\ size' \in Nat /\ size' >= size
           /\ trace' \in Seq(BOOLEAN) /\ Len(trace') = Len(trace)
           /\ came' \in Seq(Nat) /\ Len(came') = Len(came)
           /\ Heard(trace', came')
  <1>0. /\ Len(trace) \in Nat /\ (trace = << >> <=> Len(trace) = 0)
        /\ Len(came) \in Nat
    BY Lengths DEF Typed
  <1>1. size' \in Nat /\ size' >= size
    BY DEF net_recv, Typed
  <1>2. came' = [came EXCEPT ![Len(came)] = came[Len(came)] + got]
    BY DEF net_recv
  <1>3. Len(came) \in 1 .. Len(came) /\ came[Len(came)] \in Nat
    BY <1>0, ElementOfSeq DEF Typed
  <1>4. /\ came' \in Seq(Nat) /\ Len(came') = Len(came)
        /\ \A j \in 1 .. Len(came) :
              came'[j] = IF j = Len(came) THEN came[Len(came)] + got ELSE came[j]
    <2>1. came[Len(came)] + got \in Nat
      BY <1>3
    <2> QED
      BY <1>2, <1>3, <2>1, ExceptSeq DEF Typed
  <1>5. CASE got = 0 \/ trace = << >>
    <2>1. trace' = trace
      BY <1>5 DEF net_recv
    <2>2. Heard(trace, came')
      BY <1>0, <1>3, <1>4, <1>5, SMTT(20) DEF Heard, Late
    <2> QED
      BY <1>1, <1>4, <2>1, <2>2 DEF Typed
  <1>6. CASE ~(got = 0 \/ trace = << >>)
    <2>1. /\ trace' = [trace EXCEPT ![Len(trace)] = TRUE] /\ got = 1
          /\ Len(trace) \in 1 .. Len(trace)
      BY <1>0, <1>6 DEF net_recv
    <2>2. /\ trace' \in Seq(BOOLEAN) /\ Len(trace') = Len(trace)
          /\ trace'[Len(trace)] = TRUE
          /\ \A j \in 1 .. Len(trace) : j # Len(trace) => trace'[j] = trace[j]
      <3>1. trace \in Seq(BOOLEAN)
        BY DEF Typed
      <3>2. Len(trace) \in 1 .. Len(trace)
        BY <2>1
      <3>3. trace' = [trace EXCEPT ![Len(trace)] = TRUE]
        BY <2>1
      <3>4. \A u : u = [trace EXCEPT ![Len(trace)] = TRUE] =>
               /\ u \in Seq(BOOLEAN) /\ Len(u) = Len(trace) /\ u[Len(trace)] = TRUE
               /\ \A j \in 1 .. Len(trace) : j # Len(trace) => u[j] = trace[j]
        BY <3>1, <3>2, Marked, Zenon
      <3> QED
        BY <3>3, <3>4, Zenon
    <2>3. ASSUME NEW k \in 1 .. Len(trace)
          PROVE  (trace'[k] = TRUE) <=> \E j \in k + 1 .. Late(trace', came', k) : came'[j] # 0
      <3>1. CASE k = Len(trace)
        <4>1. trace'[k] = TRUE /\ Late(trace', came', k) = Len(came)
          BY <1>4, <2>2, <3>1 DEF Late
        <4>2. Len(came) \in k + 1 .. Len(came) /\ came'[Len(came)] # 0
          BY <1>0, <1>3, <1>4, <2>1, <3>1
        <4> QED
          BY <4>1, <4>2
      <3>2. CASE k # Len(trace)
        <4>1. /\ trace'[k] = trace[k]
              /\ Late(trace', came', k) = k + 1 /\ Late(trace, came, k) = k + 1
          BY <2>2, <3>2 DEF Late
        <4>2. came'[k + 1] = came[k + 1]
          BY <1>0, <1>4, <3>2
        <4>3. (trace[k] = TRUE) <=> \E j \in k + 1 .. k + 1 : came[j] # 0
          BY <4>1 DEF Heard
        <4> QED
          BY <1>0, <4>1, <4>2, <4>3
      <3> QED
        BY <3>1, <3>2
    <2>4. Heard(trace', came')
      BY <2>2, <2>3 DEF Heard
    <2> QED
      BY <1>1, <1>4, <2>2, <2>4
  <1> QED
    BY <1>5, <1>6

(***************************************************************************)
(* A message that is tried, sent as a whole or not, has drawn nothing yet. *)
(***************************************************************************)
LEMMA Appended ==
    ASSUME NEW S, NEW s \in Seq(S), NEW x \in S
    PROVE  /\ Append(s, x) \in Seq(S) /\ Len(Append(s, x)) = Len(s) + 1
           /\ \A k \in 1 .. Len(s) : Append(s, x)[k] = s[k]
           /\ Append(s, x)[Len(s) + 1] = x
  BY AppendProperties

LEMMA SentInPart ==
    ASSUME NEW t \in Seq(BOOLEAN), NEW c \in Seq(Nat), Heard(t, c), Len(t) < Len(c),
           NEW d \in Seq(Nat), d = Append(c, 0)
    PROVE  Heard(t, d)
  <1>1. /\ Len(d) = Len(c) + 1 /\ d[Len(c) + 1] = 0
        /\ \A j \in 1 .. Len(c) : d[j] = c[j]
    BY Appended
  <1>2. Len(c) \in Nat /\ Len(t) \in Nat
    BY Lengths
  <1> QED
    BY <1>1, <1>2 DEF Heard, Late

LEMMA SentAsAWhole ==
    ASSUME NEW t \in Seq(BOOLEAN), NEW c \in Seq(Nat), Heard(t, c), Len(c) = Len(t) + 1,
           NEW d \in Seq(Nat), d = Append(c, 0), NEW u \in Seq(BOOLEAN), u = Append(t, FALSE)
    PROVE  Heard(u, d)
  <1>1. /\ Len(d) = Len(c) + 1 /\ d[Len(c) + 1] = 0
        /\ \A j \in 1 .. Len(c) : d[j] = c[j]
    BY Appended
  <1>2. /\ Len(u) = Len(t) + 1 /\ u[Len(t) + 1] = FALSE
        /\ \A k \in 1 .. Len(t) : u[k] = t[k]
    <2>1. FALSE \in BOOLEAN
      OBVIOUS
    <2> QED
      BY <2>1, Appended, ZenonT(30)
  <1>3. Len(c) \in Nat /\ Len(t) \in Nat
    BY Lengths
  <1>4. ASSUME NEW k \in 1 .. Len(u)
        PROVE  (u[k] = TRUE) <=> \E j \in k + 1 .. Late(u, d, k) : d[j] # 0
    <2>1. CASE k = Len(u)
      <3>1. u[k] = FALSE
        BY <1>2, <2>1
      <3>2. \A j \in k + 1 .. Late(u, d, k) : d[j] = 0
        BY <1>1, <1>2, <1>3, <2>1 DEF Late
      <3> QED
        BY <3>1, <3>2
    <2>2. CASE k # Len(u)
      <3>1. u[k] = t[k] /\ k \in 1 .. Len(t)
        BY <1>2, <1>3, <2>2
      <3>2. Late(u, d, k) = Late(t, c, k)
        BY <1>1, <1>2, <1>3, <2>2 DEF Late
      <3>3. \A j \in k + 1 .. Late(t, c, k) : d[j] = c[j]
        BY <1>1, <1>3, <3>1 DEF Late
      <3>4. (t[k] = TRUE) <=> \E j \in k + 1 .. Late(t, c, k) : c[j] # 0
        BY <3>1 DEF Heard
      <3> QED
        BY <3>1, <3>2, <3>3, <3>4
    <2> QED
      BY <2>1, <2>2
  <1> QED
    BY <1>4 DEF Heard

(***************************************************************************)
(* Cells: one that is new is not written, and the last one is written.     *)
(***************************************************************************)
LEMMA NewCell ==
    ASSUME NEW s \in Seq(Int), NEW most \in Nat, Grows(s, Len(s), most)
    PROVE  /\ Append(s, Garbage) \in Seq(Int) /\ Len(Append(s, Garbage)) = Len(s) + 1
           /\ Grows(Append(s, Garbage), Len(s), most)
  <1>1. Garbage \in Int
    BY DEF Garbage
  <1>2. Len(s) \in Nat
    BY Lengths
  <1> HIDE DEF Garbage
  <1>3. /\ Append(s, Garbage) \in Seq(Int) /\ Len(Append(s, Garbage)) = Len(s) + 1
        /\ \A k \in 1 .. Len(s) : Append(s, Garbage)[k] = s[k]
    BY <1>1, Appended
  <1> QED
    BY <1>2, <1>3 DEF Grows

LEMMA WrittenCell ==
    ASSUME NEW s \in Seq(Int), NEW most \in Nat, NEW m \in Nat, most <= m,
           s # << >>, Grows(s, Len(s) - 1, most)
    PROVE  LET u == [s EXCEPT ![Len(s)] = m]
           IN  u \in Seq(Int) /\ Len(u) = Len(s) /\ Grows(u, Len(s), m)
  <1> DEFINE u == [s EXCEPT ![Len(s)] = m]
  <1>1. Len(s) \in Nat /\ Len(s) \in 1 .. Len(s)
    BY Lengths
  <1>2. /\ u \in Seq(Int) /\ Len(u) = Len(s)
        /\ \A j \in 1 .. Len(s) : u[j] = IF j = Len(s) THEN m ELSE s[j]
    BY <1>1, ExceptSeq
  <1> HIDE DEF u
  <1>3. \A k \in 1 .. Len(s) : s[k] \in Int
    BY ElementOfSeq
  <1>4. Grows(u, Len(s), m)
    <2>1. \A k \in 1 .. Len(s) - 1 : /\ 0 <= s[k] /\ s[k] <= most
                                     /\ \A j \in 1 .. k : s[j] <= s[k]
      BY DEF Grows
    <2>2. ASSUME NEW k \in 1 .. Len(s)
          PROVE  0 <= u[k] /\ u[k] <= m /\ \A j \in 1 .. k : u[j] <= u[k]
      <3>1. CASE k = Len(s)
        <4>1. u[k] = m
          BY <1>2, <3>1
        <4>2. ASSUME NEW j \in 1 .. k PROVE u[j] <= m
          BY <1>1, <1>2, <1>3, <2>1, <3>1, <4>2
        <4> QED
          BY <4>1, <4>2
      <3>2. CASE k # Len(s)
        <4>1. u[k] = s[k] /\ k \in 1 .. Len(s) - 1 /\ s[k] \in Int
          BY <1>1, <1>2, <1>3, <3>2
        <4>2. ASSUME NEW j \in 1 .. k PROVE u[j] = s[j]
          <5>1. j \in 1 .. Len(s) /\ j # Len(s)
            BY <1>1, <4>1, <4>2
          <5> QED
            BY <1>2, <5>1
        <4> QED
          BY <2>1, <4>1, <4>2
      <3> QED
        BY <3>1, <3>2
    <2> QED
      BY <2>2 DEF Grows
  <1> QED
    BY <1>2, <1>4 DEF u

LEMMA MayGrow ==
    ASSUME NEW s \in Seq(Int), NEW n \in Int, n <= Len(s), NEW most \in Nat, NEW m \in Nat,
           most <= m, Grows(s, n, most)
    PROVE  Grows(s, n, m)
  <1>1. \A k \in 1 .. Len(s) : s[k] \in Int
    BY ElementOfSeq
  <1>2. Len(s) \in Nat
    BY Lengths
  <1> QED
    BY <1>1, <1>2 DEF Grows
-----------------------------------------------------------------------------
LEMMA Started == Init => Conversation
  <1> SUFFICES ASSUME Init PROVE Conversation
    OBVIOUS
  <1>1. /\ pc = "idle" /\ messages_sent = 0 /\ size = 0
        /\ response_bytes = << >> /\ trace = << >> /\ came = << >>
    BY DEF Init
  <1> QED
    BY <1>1, EmptySeq DEF Conversation, Typed, Talking

(***************************************************************************)
(* Every step of an execution keeps what is known of the conversation.     *)
(***************************************************************************)
LEMMA ConversationInductive == Conversation /\ [Next]_vars => Conversation'
<1> SUFFICES ASSUME Conversation, [Next]_vars PROVE Conversation'
  OBVIOUS
<1>0. Typed /\ (Talking => Tried /\ Heard(trace, came) /\ Grows(response_bytes, Written, size))
  BY DEF Conversation
<1>a. /\ Len(response_bytes) \in Nat /\ (response_bytes = << >> <=> Len(response_bytes) = 0)
      /\ Len(trace) \in Nat /\ Len(came) \in Nat /\ size \in Nat /\ messages_sent \in Nat
  BY <1>0, Lengths DEF Typed
<1>1. CASE Plan
  <2>1. UNCHANGED conversation /\ pc' = "connect"
    BY <1>1, Zenon DEF Plan
  <2> QED
    BY <1>0, <2>1 DEF Conversation, Typed, Talking, conversation
<1>2. ASSUME NEW connected \in BOOLEAN, Connect(connected) PROVE Conversation'
  <2>1. /\ size' = 0 /\ response_bytes' = << >> /\ trace' = << >> /\ came' = <<0>>
        /\ pc' \in {"greeting", "report"} /\ messages_sent' = messages_sent
    BY <1>2 DEF Connect
  <2>2. Typed'
    BY <1>0, <2>1, EmptySeq DEF Typed
  <2>3. Len(response_bytes') = 0 /\ Len(trace') = 0 /\ Len(came') = 1
    BY <2>1
  <2>4. Tried'
    BY <2>1, <2>3 DEF Tried
  <2>5. Heard(trace', came') /\ Grows(response_bytes', Written', size')
    BY <2>1, <2>3 DEF Heard, Grows, Written
  <2> QED
    BY <2>2, <2>4, <2>5 DEF Conversation
<1>3. ASSUME NEW got \in 0 .. 1, NEW failed \in BOOLEAN, Greeting(got, failed)
      PROVE  Conversation'
  <2>1. /\ pc = "greeting" /\ net_recv(got) /\ response_bytes' = response_bytes
        /\ \/ pc' = "handle" /\ messages_sent' = messages_sent
           \/ pc' = "send" /\ messages_sent' = 0
    BY <1>3 DEF Greeting
  <2>2. Tried /\ Heard(trace, came) /\ Len(trace) < Len(came) /\ Len(response_bytes) = 0
    <3>1. Talking
      BY <2>1 DEF Talking
    <3>2. Tried /\ Heard(trace, came)
      BY <1>0, <3>1
    <3> QED
      BY <1>a, <2>1, <3>2 DEF Tried
  <2>3. /\ size' \in Nat /\ trace' \in Seq(BOOLEAN) /\ Len(trace') = Len(trace)
        /\ came' \in Seq(Nat) /\ Len(came') = Len(came) /\ Heard(trace', came')
    BY <1>0, <2>1, <2>2, Received
  <2>4. Typed'
    BY <1>0, <2>1, <2>3 DEF Typed
  <2>5. Tried'
    BY <1>a, <2>1, <2>2, <2>3 DEF Tried
  <2>6. Grows(response_bytes', Written', size')
    BY <1>a, <2>1, <2>2 DEF Grows, Written
  <2> QED
    BY <2>3, <2>4, <2>5, <2>6 DEF Conversation
<1>4. ASSUME NEW whole \in BOOLEAN, Send(whole) PROVE Conversation'
  <2>1. /\ pc = "send" /\ messages_sent' = messages_sent + 1 /\ size' = size
        /\ response_bytes' = Append(response_bytes, Garbage)
        /\ came' = Append(came, 0)
        /\ \/ trace' = Append(trace, FALSE) /\ pc' = "receive"
           \/ trace' = trace /\ pc' = "handle"
    BY <1>4 DEF Send
  <2>2. /\ Tried /\ Heard(trace, came) /\ Grows(response_bytes, Len(response_bytes), size)
        /\ Len(trace) = Len(response_bytes) /\ messages_sent = Len(response_bytes)
        /\ Len(came) = Len(trace) + 1
    BY <1>0, <2>1 DEF Talking, Tried, Written
  <2>3. /\ response_bytes' \in Seq(Int) /\ Len(response_bytes') = Len(response_bytes) + 1
        /\ Grows(response_bytes', Len(response_bytes), size)
    BY <1>0, <2>1, <2>2, NewCell DEF Typed
  <2>4. came' \in Seq(Nat) /\ Len(came') = Len(came) + 1
    BY <1>0, <2>1, Appended DEF Typed
  <2>5. /\ trace' \in Seq(BOOLEAN) /\ Heard(trace', came')
        /\ Len(trace') = Len(trace) + (IF pc' = "receive" THEN 1 ELSE 0)
    <3>1. CASE trace' = Append(trace, FALSE) /\ pc' = "receive"
      <4>1. trace \in Seq(BOOLEAN) /\ FALSE \in BOOLEAN
        BY <1>0 DEF Typed
      <4>2. trace' \in Seq(BOOLEAN) /\ Len(trace') = Len(trace) + 1
        BY <3>1, <4>1, Appended, Zenon
      <4>3. Heard(trace', came')
        BY <1>0, <2>1, <2>2, <2>4, <3>1, <4>2, SentAsAWhole DEF Typed
      <4> QED
        BY <3>1, <4>2, <4>3
    <3>2. CASE trace' = trace /\ pc' = "handle"
      <4>1. Heard(trace', came')
        <5>1. trace \in Seq(BOOLEAN) /\ came \in Seq(Nat) /\ came' = Append(came, 0)
          BY <1>0, <2>1 DEF Typed
        <5>2. Len(trace) < Len(came)
          BY <1>a, <2>2
        <5>3. Heard(trace, came')
          BY <2>2, <2>4, <5>1, <5>2, SentInPart
        <5> QED
          BY <3>2, <5>3
      <4> QED
        BY <1>0, <1>a, <3>2, <4>1 DEF Typed
    <3> QED
      BY <2>1, <3>1, <3>2
  <2>6. response_bytes' # << >>
    BY <1>a, <2>3, Lengths
  <2>7. Typed'
    BY <1>0, <2>1, <2>3, <2>4, <2>5 DEF Typed
  <2>8. Tried'
    <3>1. pc' \in {"receive", "handle"}
      BY <2>1
    <3>2. messages_sent' = Len(response_bytes')
      BY <2>1, <2>2, <2>3
    <3>3. Len(came') = Len(response_bytes') + 1
      BY <1>a, <2>2, <2>3, <2>4
    <3>4. /\ Len(trace') <= Len(response_bytes') /\ Len(response_bytes') - Len(trace') \in 0 .. 1
          /\ pc' = "receive" => Len(trace') = Len(response_bytes')
      BY <1>a, <2>2, <2>3, <2>5
    <3> QED
      BY <2>6, <3>1, <3>2, <3>3, <3>4 DEF Tried
  <2>9. Grows(response_bytes', Written', size')
    <3>1. Written' = Len(response_bytes)
      <4>1. pc' \in {"receive", "handle"}
        BY <2>1
      <4>2. Written' = Len(response_bytes') - 1
        BY <2>6, <4>1 DEF Written
      <4> QED
        BY <1>a, <2>3, <4>2
    <3> QED
      BY <2>1, <2>3, <3>1
  <2> QED
    BY <2>5, <2>7, <2>8, <2>9 DEF Conversation
<1>5. ASSUME NEW got \in 0 .. 1, NEW failed \in BOOLEAN, Receive(got, failed)
      PROVE  Conversation'
  <2>1. /\ pc = "receive" /\ net_recv(got) /\ messages_sent' = messages_sent
        /\ \/ pc' = "handle" /\ response_bytes' = response_bytes
           \/ pc' = "send" /\ response_bytes' = [response_bytes EXCEPT ![messages_sent] = size']
    BY <1>5 DEF Receive
  <2>2. /\ Tried /\ Heard(trace, came) /\ Len(trace) < Len(came) /\ response_bytes # << >>
        /\ Len(trace) = Len(response_bytes) /\ messages_sent = Len(response_bytes)
        /\ Grows(response_bytes, Len(response_bytes) - 1, size)
    BY <1>0, <1>a, <2>1 DEF Talking, Tried, Written
  <2>3. /\ size' \in Nat /\ size' >= size /\ trace' \in Seq(BOOLEAN) /\ Len(trace') = Len(trace)
        /\ came' \in Seq(Nat) /\ Len(came') = Len(came) /\ Heard(trace', came')
    BY <1>0, <2>1, <2>2, Received
  <2>4. /\ response_bytes' \in Seq(Int) /\ Len(response_bytes') = Len(response_bytes)
        /\ Grows(response_bytes',
                 IF pc' = "send" THEN Len(response_bytes) ELSE Len(response_bytes) - 1, size')
    <3>1. CASE pc' = "handle" /\ response_bytes' = response_bytes
      <4>1. Grows(response_bytes, Len(response_bytes) - 1, size')
        <5>1. /\ response_bytes \in Seq(Int) /\ Len(response_bytes) - 1 \in Int
              /\ Len(response_bytes) - 1 <= Len(response_bytes)
          BY <1>0, <1>a DEF Typed
        <5>2. Grows(response_bytes, Len(response_bytes) - 1, size)
          BY <2>2
        <5> HIDE DEF Grows
        <5> QED
          BY <1>a, <2>3, <5>1, <5>2, MayGrow
      <4> QED
        BY <1>0, <3>1, <4>1 DEF Typed
    <3>2. CASE pc' = "send" /\ response_bytes' = [response_bytes EXCEPT ![messages_sent] = size']
      BY <1>0, <1>a, <2>2, <2>3, <3>2, WrittenCell DEF Typed
    <3> QED
      BY <2>1, <3>1, <3>2
  <2>5. response_bytes' # << >>
    BY <1>a, <2>2, <2>4, Lengths
  <2>6. Typed'
    BY <1>0, <2>1, <2>3, <2>4 DEF Typed
  <2>7. Tried'
    BY <1>a, <2>1, <2>2, <2>3, <2>4, <2>5 DEF Tried
  <2>8. Grows(response_bytes', Written', size')
    BY <1>a, <2>1, <2>4, <2>5 DEF Written
  <2> QED
    BY <2>3, <2>6, <2>7, <2>8 DEF Conversation
<1>6. ASSUME NEW got \in 0 .. 1, Handle(got) PROVE Conversation'
  <2>1. /\ pc \in {"handle", "send"} /\ net_recv(got) /\ messages_sent' = messages_sent
        /\ pc' = "report"
        /\ response_bytes' = IF messages_sent > 0 /\ response_bytes # << >>
                             THEN [response_bytes EXCEPT ![messages_sent] = size']
                             ELSE response_bytes
    BY <1>6 DEF Handle
  <2>2. /\ Tried /\ Heard(trace, came) /\ Len(trace) < Len(came)
        /\ Grows(response_bytes, Written, size)
    BY <1>0, <1>a, <2>1 DEF Talking, Tried
  <2>3. /\ size' \in Nat /\ size' >= size /\ trace' \in Seq(BOOLEAN) /\ Len(trace') = Len(trace)
        /\ came' \in Seq(Nat) /\ Len(came') = Len(came) /\ Heard(trace', came')
    BY <1>0, <2>1, <2>2, Received
  <2>4. /\ response_bytes' \in Seq(Int) /\ Len(response_bytes') = Len(response_bytes)
        /\ Grows(response_bytes', Len(response_bytes), size')
    <3>1. CASE response_bytes = << >>
      BY <1>0, <1>a, <2>1, <3>1 DEF Typed, Grows
    <3>2. CASE response_bytes # << >>
      <4>1. messages_sent = Len(response_bytes) /\ messages_sent > 0
        BY <1>a, <2>2, <3>2 DEF Tried
      <4>2. Grows(response_bytes, Len(response_bytes) - 1, size)
        BY <1>a, <2>2 DEF Grows, Written
      <4> QED
        BY <1>0, <1>a, <2>1, <2>3, <3>2, <4>1, <4>2, WrittenCell DEF Typed
    <3> QED
      BY <3>1, <3>2
  <2>5. response_bytes' # << >> <=> response_bytes # << >>
    BY <1>a, <2>4, Lengths
  <2>6. Typed'
    BY <1>0, <2>1, <2>3, <2>4 DEF Typed
  <2>7. Tried'
    BY <1>a, <2>1, <2>2, <2>3, <2>4, <2>5 DEF Tried
  <2>8. Grows(response_bytes', Written', size')
    BY <2>1, <2>4 DEF Written
  <2> QED
    BY <2>3, <2>6, <2>7, <2>8 DEF Conversation
<1>7. CASE Monitor \/ Keep
  <2>1. UNCHANGED conversation /\ pc' \in {"monitored", "kept"}
    BY <1>7 DEF Monitor, Keep
  <2> QED
    BY <1>0, <2>1 DEF Conversation, Typed, Talking, conversation
<1>8. CASE Again
  <2>1. /\ pc' = "idle" /\ messages_sent' = messages_sent /\ size' = 0
        /\ response_bytes' = << >> /\ trace' = << >> /\ came' = << >>
    BY <1>8 DEF Again
  <2> QED
    BY <1>0, <2>1, EmptySeq DEF Conversation, Typed, Talking
<1>9. CASE UNCHANGED vars
  BY <1>0, <1>9 DEF vars, conversation, Conversation, Typed, Talking, Tried, Written
<1> QED
  BY <1>1, <1>2, <1>3, <1>4, <1>5, <1>6, <1>7, <1>8, <1>9 DEF Next
-----------------------------------------------------------------------------
(***************************************************************************)
(* What the monitor reads of a request: silence, or a part of the buffer.  *)
(***************************************************************************)
LEMMA Event ==
    ASSUME NEW k \in DOMAIN trace
    PROVE  LET e == build_bizone_event_trace[k]
           IN  /\ e.silent <=> ~trace[k]
               /\ ~e.silent => /\ e.from = IF k = 1 THEN 0 ELSE response_bytes[k - 1]
                               /\ e.to = response_bytes[k]
  BY DEF build_bizone_event_trace

(***************************************************************************)
(* Wherever the connection broke and however late bytes came, the trace    *)
(* the monitor reads has the messages that were sent, silence exactly      *)
(* where nothing came, and replies that are written, apart and in order    *)
(* (send_over_network, build_bizone_event_trace).                          *)
(***************************************************************************)
THEOREM TraceTellsTheConversation == Spec => []TraceIsTrue
<1>1. ASSUME Conversation PROVE TraceIsTrue
  <2> SUFFICES ASSUME pc = "report" PROVE TraceIsTrue
    BY DEF TraceIsTrue
  <2>1. /\ Typed /\ Tried /\ Heard(trace, came)
        /\ Grows(response_bytes, Len(response_bytes), size)
    BY <1>1 DEF Conversation, Talking, Written
  <2>2. /\ Len(response_bytes) \in Nat /\ Len(trace) \in Nat /\ DOMAIN trace = 1 .. Len(trace)
        /\ Len(came) \in Nat /\ size \in Nat /\ messages_sent \in Nat
    BY <2>1, Lengths DEF Typed
  <2>3. \A k \in 1 .. Len(response_bytes) : response_bytes[k] \in Int
    BY <2>1, ElementOfSeq DEF Typed
  <2>4. \A k \in 1 .. Len(came) : came[k] \in Nat
    BY <2>1, ElementOfSeq DEF Typed
  <2>5. response_bytes # << >> => messages_sent - Len(trace) \in 0 .. 1
    BY <2>1, <2>2 DEF Tried
  <2>6. ASSUME NEW k \in DOMAIN trace
        PROVE  LET e == build_bizone_event_trace[k]
                   late == IF k = Len(trace) THEN Len(came) ELSE k + 1
               IN  /\ e.silent <=> \A j \in k + 1 .. late : came[j] = 0
                   /\ ~e.silent =>
                         /\ 0 <= e.from /\ e.from <= e.to /\ e.to <= size
                         /\ \A j \in 1 .. k - 1 : ~build_bizone_event_trace[j].silent =>
                               build_bizone_event_trace[j].to <= e.from
    <3> DEFINE e == build_bizone_event_trace[k]
               late == IF k = Len(trace) THEN Len(came) ELSE k + 1
    <3>1. k \in 1 .. Len(trace) /\ k \in 1 .. Len(response_bytes)
      BY <2>1, <2>2, <2>6 DEF Tried
    <3>2. (trace[k] = TRUE) <=> \E j \in k + 1 .. late : came[j] # 0
      BY <2>1, <3>1 DEF Heard, Late
    <3>3. trace[k] \in BOOLEAN
      BY <2>1, <3>1, ElementOfSeq, Zenon DEF Typed
    <3>4. e.silent <=> ~trace[k]
      BY <2>6, Event, Zenon
    <3>5. e.silent <=> \A j \in k + 1 .. late : came[j] = 0
      BY <3>2, <3>3, <3>4, Zenon
    <3>6. ASSUME ~e.silent
          PROVE  /\ 0 <= e.from /\ e.from <= e.to /\ e.to <= size
                 /\ \A j \in 1 .. k - 1 : ~build_bizone_event_trace[j].silent =>
                       build_bizone_event_trace[j].to <= e.from
      <4>1. e.from = (IF k = 1 THEN 0 ELSE response_bytes[k - 1]) /\ e.to = response_bytes[k]
        BY <2>6, <3>6, Event, Zenon
      <4>2. 0 <= e.from /\ e.from <= e.to /\ e.to <= size
        BY <2>1, <2>2, <2>3, <3>1, <4>1 DEF Grows
      <4>3. ASSUME NEW j \in 1 .. k - 1, ~build_bizone_event_trace[j].silent
            PROVE  build_bizone_event_trace[j].to <= e.from
        <5>1. j \in DOMAIN trace
          BY <2>2, <3>1, <4>3
        <5>2. build_bizone_event_trace[j].to = response_bytes[j]
          BY <4>3, <5>1, Event, Zenon
        <5>3. response_bytes[j] <= response_bytes[k - 1] /\ k # 1
          BY <2>1, <2>2, <3>1, <4>3 DEF Grows
        <5> QED
          BY <4>1, <5>2, <5>3
      <4> QED
        BY <4>2, <4>3
    <3> QED
      BY <3>5, <3>6
  <2> QED
    BY <2>5, <2>6, Zenon DEF TraceIsTrue
<1> QED
  BY <1>1, Started, ConversationInductive, PTL DEF Spec

-----------------------------------------------------------------------------
(***************************************************************************)
(* How much came: the sum of the first m counts.                           *)
(***************************************************************************)
Total(s) == FoldLeft(LAMBDA a, b : a + b, 0, s)

Summing(g, s) ==
    g = [S \in SUBSET DOMAIN s |-> IF S = {} THEN 0 ELSE g[S \ {Max(S)}] + s[Max(S)]]

Running(p, s) ==
    /\ p \in [0 .. Len(s) -> Nat]
    /\ p[0] = 0
    /\ \A k \in 1 .. Len(s) : p[k] = p[k - 1] + s[k]
    /\ Total(s) = p[Len(s)]

LEMMA MaxIs ==
    ASSUME NEW S \in SUBSET Int, NEW x, IsGreatest(x, S)
    PROVE  Max(S) = x
  BY GreatestIs, Zenon DEF Max

LEMMA TotalRuns ==
    ASSUME NEW s \in Seq(Nat)
    PROVE  \E p : Running(p, s)
  <1> DEFINE n == Len(s)
             iter == CHOOSE g : Summing(g, s)
  <1>1. n \in Nat /\ DOMAIN s = 1 .. n /\ \A k \in 1 .. n : s[k] \in Nat
    BY LenProperties, ElementOfSeq
  <1>2. Total(s) = iter[DOMAIN s]
    BY Zenon DEF Total, FoldLeft, MapThenFoldSet, Summing
  <1> DEFINE step == [z \in Nat \X (1 .. n) |-> z[1] + s[z[2]]]
  <1>3. PICK g \in [SUBSET (1 .. n) -> Nat] : FoldsTo(g, n, 0, step)
    <2>1. step \in [Nat \X (1 .. n) -> Nat]
      BY <1>1
    <2>2. CanFold(n, Nat, 0, step)
      <3> HIDE DEF n, step
      <3> QED
        BY <1>1, <2>1, FoldExists
    <2> QED
      BY <2>2 DEF CanFold
  <1>4. Summing(g, s)
    <2>1. ASSUME NEW S \in SUBSET DOMAIN s
          PROVE  g[S] = IF S = {} THEN 0 ELSE g[S \ {Max(S)}] + s[Max(S)]
      <3>1. CASE S = {}
        BY <1>3, <3>1 DEF FoldsTo
      <3>2. CASE S # {}
        <4>1. PICK x : IsGreatest(x, S)
          <5> HIDE DEF n
          <5> QED
            BY <1>1, <3>2, GreatestExists
        <4>2. Max(S) = x
          <5>1. S \in SUBSET Int
            BY <1>1
          <5> QED
            BY <4>1, <5>1, MaxIs
        <4>3. x \in 1 .. n /\ S \ {x} \in SUBSET (1 .. n)
          BY <1>1, <4>1 DEF IsGreatest
        <4>4. g[S] = step[<<g[S \ {x}], x>>]
          <5>1. S \in SUBSET (1 .. n)
            BY <1>1
          <5> HIDE DEF step
          <5> QED
            BY <1>3, <4>1, <5>1 DEF FoldsTo
        <4>5. g[S \ {x}] \in Nat
          BY <1>3, <4>3
        <4> QED
          BY <3>2, <4>2, <4>3, <4>4, <4>5
      <3> QED
        BY <3>1, <3>2
    <2>2. g = [S \in SUBSET DOMAIN s |-> g[S]]
      BY <1>1, <1>3
    <2> HIDE DEF step, n
    <2>3. g = [S \in SUBSET DOMAIN s |-> IF S = {} THEN 0 ELSE g[S \ {Max(S)}] + s[Max(S)]]
      BY <2>1, <2>2, Zenon
    <2> QED
      BY <2>3 DEF Summing
  <1>5. Summing(iter, s)
    BY <1>4, Zenon
  <1> HIDE DEF iter, step
  <1>6. iter[{}] = 0
    BY <1>5, Zenon DEF Summing
  <1>7. ASSUME NEW k \in 1 .. n PROVE iter[1 .. k] = iter[1 .. k - 1] + s[k]
    <2>1. /\ 1 .. k \in SUBSET DOMAIN s /\ 1 .. k # {} /\ (1 .. k) \ {k} = 1 .. k - 1
          /\ 1 .. k \in SUBSET Int /\ IsGreatest(k, 1 .. k)
      <3>1. k \in Nat \ {0} /\ k <= n
        BY <1>1
      <3>2. 1 .. k \in SUBSET DOMAIN s
        BY <1>1, <3>1
      <3> QED
        BY <3>1, <3>2, WithoutLast
    <2>2. Max(1 .. k) = k
      BY <2>1, MaxIs
    <2>3. iter[1 .. k] = iter[(1 .. k) \ {Max(1 .. k)}] + s[Max(1 .. k)]
      BY <1>5, <2>1, Zenon DEF Summing
    <2> QED
      BY <2>1, <2>2, <2>3
  <1> DEFINE p == [k \in 0 .. n |-> iter[1 .. k]]
  <1>8. p[0] = 0
    <2>1. 1 .. 0 = {}
      OBVIOUS
    <2> QED
      BY <1>1, <1>6, <2>1
  <1>9. ASSUME NEW k \in 1 .. n PROVE p[k] = p[k - 1] + s[k]
    <2>1. p[k] = iter[1 .. k] /\ p[k - 1] = iter[1 .. k - 1]
      BY <1>1
    <2> QED
      BY <1>7, <2>1
  <1>10. Total(s) = p[n] /\ p = [k \in 0 .. n |-> p[k]]
    BY <1>1, <1>2
  <1> HIDE DEF p
  <1>11. \A k \in 0 .. n : p[k] \in Nat
    <2> DEFINE T == {k \in Nat : k <= n => p[k] \in Nat}
    <2>1. 0 \in T
      BY <1>8
    <2>2. ASSUME NEW k \in Nat, k \in T PROVE k + 1 \in T
      <3> SUFFICES ASSUME k + 1 <= n PROVE p[k + 1] \in Nat
        OBVIOUS
      <3>1. k + 1 \in 1 .. n /\ (k + 1) - 1 = k /\ p[k] \in Nat
        BY <1>1, <2>2
      <3> QED
        BY <1>1, <1>9, <3>1
    <2>3. Nat \subseteq T
      <3> HIDE DEF T
      <3> QED
        BY <2>1, <2>2, SetInduction
    <2> QED
      BY <1>1, <2>3
  <1> QED
    BY <1>8, <1>9, <1>10, <1>11 DEF Running

First(s, m) == Total(SubSeq(s, 1, m))

LEMMA Cut ==
    ASSUME NEW s \in Seq(Nat), NEW m \in 0 .. Len(s)
    PROVE  /\ SubSeq(s, 1, m) \in Seq(Nat) /\ Len(SubSeq(s, 1, m)) = m
           /\ \A k \in 1 .. m : SubSeq(s, 1, m)[k] = s[k]
  BY SubSeqProperties, LenProperties

LEMMA FirstIs ==
    ASSUME NEW s \in Seq(Nat), NEW m \in 0 .. Len(s)
    PROVE  First(s, m) \in Nat /\ (m = 0 => First(s, m) = 0)
  <1>1. SubSeq(s, 1, m) \in Seq(Nat) /\ Len(SubSeq(s, 1, m)) = m
    BY Cut
  <1>2. PICK p : Running(p, SubSeq(s, 1, m))
    BY <1>1, TotalRuns
  <1> QED
    BY <1>1, <1>2 DEF First, Running

LEMMA FirstStep ==
    ASSUME NEW s \in Seq(Nat), NEW m \in 1 .. Len(s)
    PROVE  First(s, m) = First(s, m - 1) + s[m]
  <1>0. Len(s) \in Nat /\ \A k \in 1 .. Len(s) : s[k] \in Nat
    BY LenProperties, ElementOfSeq
  <1> DEFINE t == SubSeq(s, 1, m)
             u == SubSeq(s, 1, m - 1)
  <1>1. /\ t \in Seq(Nat) /\ Len(t) = m /\ \A k \in 1 .. m : t[k] = s[k]
    BY <1>0, Cut
  <1>2. /\ u \in Seq(Nat) /\ Len(u) = m - 1 /\ \A k \in 1 .. m - 1 : u[k] = s[k]
    <2>1. m - 1 \in 0 .. Len(s)
      BY <1>0
    <2> QED
      BY <2>1, Cut
  <1>3. First(s, m) = Total(t) /\ First(s, m - 1) = Total(u)
    BY DEF First
  <1> HIDE DEF t, u
  <1>4. PICK p : Running(p, t)
    BY <1>1, TotalRuns
  <1>5. PICK q : Running(q, u)
    BY <1>2, TotalRuns
  <1> DEFINE T == {k \in Nat : k <= m - 1 => p[k] = q[k]}
  <1>6. 0 \in T
    BY <1>4, <1>5 DEF Running
  <1>7. ASSUME NEW k \in Nat, k \in T PROVE k + 1 \in T
    <2> SUFFICES ASSUME k + 1 <= m - 1 PROVE p[k + 1] = q[k + 1]
      OBVIOUS
    <2>1. k + 1 \in 1 .. m - 1 /\ k + 1 \in 1 .. m /\ (k + 1) - 1 = k
      OBVIOUS
    <2>2. p[k] = q[k]
      BY <1>7
    <2>3. p[k + 1] = p[k] + t[k + 1]
      BY <1>1, <1>4, <2>1 DEF Running
    <2>4. q[k + 1] = q[k] + u[k + 1]
      BY <1>2, <1>5, <2>1 DEF Running
    <2> QED
      BY <1>1, <1>2, <2>1, <2>2, <2>3, <2>4
  <1>8. Nat \subseteq T
    <2> HIDE DEF T
    <2> QED
      BY <1>6, <1>7, SetInduction
  <1>9. p[m - 1] = q[m - 1]
    BY <1>8
  <1>10. p[m] = p[m - 1] + t[m]
    BY <1>1, <1>4 DEF Running
  <1>11. Total(t) = p[m] /\ Total(u) = q[m - 1]
    BY <1>1, <1>2, <1>4, <1>5 DEF Running
  <1> QED
    BY <1>1, <1>3, <1>9, <1>10, <1>11

LEMMA FirstSame ==
    ASSUME NEW s \in Seq(Nat), NEW t \in Seq(Nat), NEW m \in 0 .. Len(s), m <= Len(t),
           \A k \in 1 .. m : t[k] = s[k]
    PROVE  First(s, m) = First(t, m)
  <1>1. Len(s) \in Nat /\ Len(t) \in Nat /\ m \in 0 .. Len(t)
    BY LenProperties
  <1> DEFINE a == SubSeq(s, 1, m)
             b == SubSeq(t, 1, m)
  <1>2. /\ a \in Seq(Nat) /\ Len(a) = m /\ \A k \in 1 .. m : a[k] = s[k]
        /\ b \in Seq(Nat) /\ Len(b) = m /\ \A k \in 1 .. m : b[k] = t[k]
    BY <1>1, Cut
  <1>3. a = b
    <2> HIDE DEF a, b
    <2>1. \A k \in 1 .. Len(a) : a[k] = b[k]
      BY <1>2
    <2> QED
      BY <1>2, <2>1, SeqEqual
  <1> QED
    BY <1>3 DEF First

\* More bytes: the whole sum grows by them, those of fewer counts stay.
LEMMA FirstKept ==
    ASSUME NEW s \in Seq(Nat), s # << >>, NEW got \in Nat,
           NEW t, t = [s EXCEPT ![Len(s)] = s[Len(s)] + got],
           NEW m \in 0 .. Len(s) - 1
    PROVE  First(t, m) = First(s, m)
  <1>1. Len(s) \in Nat /\ Len(s) \in 1 .. Len(s) /\ s[Len(s)] \in Nat
    BY Lengths, ElementOfSeq
  <1>2. /\ t \in Seq(Nat) /\ Len(t) = Len(s)
        /\ \A j \in 1 .. Len(s) : t[j] = IF j = Len(s) THEN s[Len(s)] + got ELSE s[j]
    <2>1. s[Len(s)] + got \in Nat
      BY <1>1
    <2> QED
      BY <1>1, <2>1, ExceptSeq
  <1>3. m \in 0 .. Len(s) /\ m <= Len(t)
    BY <1>1, <1>2
  <1>4. ASSUME NEW k \in 1 .. m PROVE t[k] = s[k]
    <2>1. k \in 1 .. Len(s) /\ k # Len(s)
      BY <1>1
    <2> QED
      BY <1>2, <2>1
  <1>5. First(s, m) = First(t, m)
    BY <1>2, <1>3, <1>4, FirstSame
  <1> QED
    BY <1>5

LEMMA FirstRaised ==
    ASSUME NEW s \in Seq(Nat), s # << >>, NEW got \in Nat,
           NEW t, t = [s EXCEPT ![Len(s)] = s[Len(s)] + got]
    PROVE  /\ t \in Seq(Nat) /\ Len(t) = Len(s)
           /\ First(t, Len(s)) = First(s, Len(s)) + got
  <1>1. Len(s) \in Nat /\ Len(s) \in 1 .. Len(s) /\ s[Len(s)] \in Nat
    BY Lengths, ElementOfSeq
  <1>2. t \in Seq(Nat) /\ Len(t) = Len(s) /\ t[Len(s)] = s[Len(s)] + got
    <2>1. s[Len(s)] + got \in Nat
      BY <1>1
    <2> QED
      BY <1>1, <2>1, ExceptSeq
  <1>3. First(t, Len(t)) = First(t, Len(t) - 1) + t[Len(t)]
    BY <1>1, <1>2, FirstStep
  <1>4. First(s, Len(s)) = First(s, Len(s) - 1) + s[Len(s)]
    BY <1>1, FirstStep
  <1>5. First(s, Len(s) - 1) \in Nat
    <2>1. Len(s) - 1 \in 0 .. Len(s)
      BY <1>1
    <2> QED
      BY <2>1, FirstIs
  <1>6. First(t, Len(s) - 1) = First(s, Len(s) - 1)
    <2>1. Len(s) - 1 \in 0 .. Len(s) - 1
      BY <1>1
    <2> QED
      BY <2>1, FirstKept
  <1> QED
    BY <1>1, <1>2, <1>3, <1>4, <1>5, <1>6

(***************************************************************************)
(* The response buffer has what came, and a written cell what came up to   *)
(* the next message.                                                       *)
(***************************************************************************)
Credited(cells, n, c) == \A k \in 1 .. n : cells[k] = First(c, k + 1)

Counted ==
    Talking => size = First(came, Len(came)) /\ Credited(response_bytes, Written, came)

LEMMA CountedInductive == Conversation /\ Counted /\ [Next]_vars => Counted'
<1> SUFFICES ASSUME Conversation, Counted, [Next]_vars PROVE Counted'
  OBVIOUS
<1>0. Typed /\ (Talking => Tried)
  BY DEF Conversation
<1>a. /\ Len(response_bytes) \in Nat /\ (response_bytes = << >> <=> Len(response_bytes) = 0)
      /\ Len(came) \in Nat /\ (came = << >> <=> Len(came) = 0)
      /\ size \in Nat /\ messages_sent \in Nat
      /\ response_bytes \in Seq(Int) /\ came \in Seq(Nat)
  BY <1>0, Lengths DEF Typed
<1>r. ASSUME NEW got \in 0 .. 1, net_recv(got), Talking
      PROVE  /\ came' \in Seq(Nat) /\ Len(came') = Len(came)
             /\ size' = First(came', Len(came'))
             /\ \A m \in 0 .. Len(came) - 1 : First(came', m) = First(came, m)
  <2>1. size = First(came, Len(came)) /\ came # << >>
    BY <1>0, <1>a, <1>r DEF Counted, Tried
  <2>2. came' = [came EXCEPT ![Len(came)] = came[Len(came)] + got] /\ size' = size + got
    BY <1>r DEF net_recv
  <2>3. got \in Nat
    OBVIOUS
  <2>4. came' \in Seq(Nat) /\ Len(came') = Len(came) /\ size' = First(came', Len(came'))
    BY <1>a, <2>1, <2>2, <2>3, FirstRaised
  <2>5. ASSUME NEW m \in 0 .. Len(came) - 1 PROVE First(came', m) = First(came, m)
    BY <1>a, <2>1, <2>2, <2>3, FirstKept
  <2> QED
    BY <2>4, <2>5
<1>1. CASE Plan \/ Monitor \/ Keep \/ Again
  <2>1. pc' \in {"connect", "monitored", "kept", "idle"}
    BY <1>1, Zenon DEF Plan, Monitor, Keep, Again
  <2> QED
    BY <2>1 DEF Counted, Talking
<1>2. ASSUME NEW connected \in BOOLEAN, Connect(connected) PROVE Counted'
  <2>1. size' = 0 /\ response_bytes' = << >> /\ came' = <<0>>
    BY <1>2 DEF Connect
  <2>2. First(came', Len(came')) = 0
    <3>1. came' \in Seq(Nat) /\ Len(came') = 1 /\ came'[1] = 0
      BY <2>1
    <3>2. First(came', 1) = First(came', 1 - 1) + came'[1]
      <4>1. 1 \in 1 .. Len(came')
        BY <3>1
      <4> QED
        BY <3>1, <4>1, FirstStep
    <3>3. First(came', 0) = 0
      <4>1. 0 \in 0 .. Len(came')
        BY <3>1
      <4> QED
        BY <3>1, <4>1, FirstIs
    <3> QED
      BY <3>1, <3>2, <3>3
  <2>3. Credited(response_bytes', Written', came')
    BY <2>1 DEF Credited, Written
  <2> QED
    BY <2>1, <2>2, <2>3 DEF Counted
<1>3. ASSUME NEW got \in 0 .. 1, NEW failed \in BOOLEAN, Greeting(got, failed)
      PROVE  Counted'
  <2>1. pc = "greeting" /\ net_recv(got) /\ response_bytes' = response_bytes
    BY <1>3 DEF Greeting
  <2>2. Talking
    BY <2>1 DEF Talking
  <2>3. response_bytes = << >>
    BY <1>0, <1>a, <2>1, <2>2 DEF Tried
  <2>4. Credited(response_bytes', Written', came')
    BY <2>1, <2>3 DEF Credited, Written
  <2>5. size' = First(came', Len(came'))
    BY <1>r, <2>1, <2>2
  <2> QED
    BY <2>4, <2>5 DEF Counted
<1>4. ASSUME NEW whole \in BOOLEAN, Send(whole) PROVE Counted'
  <2>1. /\ pc = "send" /\ size' = size /\ pc' \in {"receive", "handle"}
        /\ response_bytes' = Append(response_bytes, Garbage) /\ came' = Append(came, 0)
    BY <1>4 DEF Send
  <2>2. /\ Tried /\ size = First(came, Len(came))
        /\ Credited(response_bytes, Len(response_bytes), came)
    BY <1>0, <2>1 DEF Talking, Counted, Written
  <2>3. /\ came' \in Seq(Nat) /\ Len(came') = Len(came) + 1 /\ came'[Len(came) + 1] = 0
        /\ \A k \in 1 .. Len(came) : came'[k] = came[k]
    BY <1>a, <2>1, Appended
  <2>4. /\ Len(response_bytes') = Len(response_bytes) + 1 /\ response_bytes' \in Seq(Int)
        /\ \A k \in 1 .. Len(response_bytes) : response_bytes'[k] = response_bytes[k]
    <3>1. Garbage \in Int
      BY DEF Garbage
    <3> QED
      BY <1>a, <2>1, <3>1, Appended
  <2>5. \A m \in 0 .. Len(came) : First(came', m) = First(came, m)
    <3> SUFFICES ASSUME NEW m \in 0 .. Len(came) PROVE First(came', m) = First(came, m)
      OBVIOUS
    <3>1. m <= Len(came') /\ \A k \in 1 .. m : came'[k] = came[k]
      BY <1>a, <2>3
    <3> QED
      BY <1>a, <2>3, <3>1, FirstSame
  <2>6. size' = First(came', Len(came'))
    <3>1. First(came', Len(came')) = First(came', Len(came') - 1) + came'[Len(came')]
      <4>1. Len(came') \in 1 .. Len(came')
        BY <1>a, <2>3
      <4> QED
        BY <2>3, <4>1, FirstStep
    <3>2. Len(came') - 1 = Len(came) /\ Len(came) \in 0 .. Len(came)
      BY <1>a, <2>3
    <3>3. First(came', Len(came') - 1) = size /\ came'[Len(came')] = 0
      BY <2>2, <2>3, <2>5, <3>2
    <3> QED
      BY <1>a, <2>1, <3>1, <3>3
  <2>7. Written' = Len(response_bytes)
    <3>1. response_bytes' # << >>
      BY <1>a, <2>4, Lengths
    <3> QED
      BY <1>a, <2>1, <2>4, <3>1 DEF Written
  <2>8. Credited(response_bytes', Len(response_bytes), came')
    <3>1. ASSUME NEW k \in 1 .. Len(response_bytes)
          PROVE  response_bytes'[k] = First(came', k + 1)
      <4>1. k + 1 \in 0 .. Len(came)
        BY <1>a, <2>2 DEF Tried
      <4>2. response_bytes[k] = First(came, k + 1)
        BY <2>2 DEF Credited
      <4> QED
        BY <2>4, <2>5, <4>1, <4>2
    <3> QED
      BY <3>1 DEF Credited
  <2> QED
    BY <2>6, <2>7, <2>8 DEF Counted
<1>5. ASSUME NEW got \in 0 .. 1, NEW failed \in BOOLEAN, Receive(got, failed)
      PROVE  Counted'
  <2>1. /\ pc = "receive" /\ net_recv(got)
        /\ \/ pc' = "handle" /\ response_bytes' = response_bytes
           \/ pc' = "send" /\ response_bytes' = [response_bytes EXCEPT ![messages_sent] = size']
    BY <1>5 DEF Receive
  <2>2. Talking
    BY <2>1 DEF Talking
  <2>3. /\ Len(came) = Len(response_bytes) + 1 /\ response_bytes # << >>
        /\ messages_sent = Len(response_bytes)
        /\ Credited(response_bytes, Len(response_bytes) - 1, came)
    BY <1>0, <2>1, <2>2 DEF Tried, Counted, Written
  <2>4. /\ came' \in Seq(Nat) /\ Len(came') = Len(came)
        /\ size' = First(came', Len(came'))
        /\ \A m \in 0 .. Len(came) - 1 : First(came', m) = First(came, m)
    BY <1>r, <2>1, <2>2
  <2>5. Credited(response_bytes, Len(response_bytes) - 1, came')
    BY <1>a, <2>3, <2>4 DEF Credited
  <2>6. CASE pc' = "handle" /\ response_bytes' = response_bytes
    <3>1. Written' = Len(response_bytes) - 1
      BY <2>3, <2>6 DEF Written
    <3> QED
      BY <2>4, <2>5, <2>6, <3>1 DEF Counted
  <2>7. CASE pc' = "send" /\ response_bytes' = [response_bytes EXCEPT ![messages_sent] = size']
    <3>1. size' \in Int
      <4>1. Len(came') \in 0 .. Len(came')
        BY <1>a, <2>4
      <4> QED
        BY <2>4, <4>1, FirstIs
    <3>2. /\ Len(response_bytes') = Len(response_bytes)
          /\ \A j \in 1 .. Len(response_bytes) :
                response_bytes'[j] = IF j = Len(response_bytes) THEN size' ELSE response_bytes[j]
      <4>1. Len(response_bytes) \in 1 .. Len(response_bytes)
        BY <1>a, <2>3
      <4> QED
        BY <1>a, <2>3, <2>7, <3>1, <4>1, ExceptSeq
    <3>3. Written' = Len(response_bytes)
      BY <2>7, <3>2 DEF Written
    <3>4. Credited(response_bytes', Len(response_bytes), came')
      <4>1. ASSUME NEW k \in 1 .. Len(response_bytes)
            PROVE  response_bytes'[k] = First(came', k + 1)
        <5>1. CASE k = Len(response_bytes)
          <6>1. response_bytes'[k] = size' /\ k + 1 = Len(came')
            BY <2>3, <2>4, <3>2, <5>1
          <6> QED
            BY <2>4, <6>1
        <5>2. CASE k # Len(response_bytes)
          <6>1. k \in 1 .. Len(response_bytes) - 1 /\ response_bytes'[k] = response_bytes[k]
            BY <1>a, <3>2, <5>2
          <6> QED
            BY <2>5, <6>1 DEF Credited
        <5> QED
          BY <5>1, <5>2
      <4> QED
        BY <4>1 DEF Credited
    <3> QED
      BY <2>4, <3>3, <3>4 DEF Counted
  <2> QED
    BY <2>1, <2>6, <2>7
<1>6. ASSUME NEW got \in 0 .. 1, Handle(got) PROVE Counted'
  <2>1. /\ pc \in {"handle", "send"} /\ net_recv(got) /\ pc' = "report"
        /\ response_bytes' = IF messages_sent > 0 /\ response_bytes # << >>
                             THEN [response_bytes EXCEPT ![messages_sent] = size']
                             ELSE response_bytes
    BY <1>6 DEF Handle
  <2>2. Talking
    BY <2>1 DEF Talking
  <2>3. Tried /\ Credited(response_bytes, Written, came)
    BY <1>0, <2>2 DEF Counted
  <2>4. /\ came' \in Seq(Nat) /\ Len(came') = Len(came)
        /\ size' = First(came', Len(came'))
        /\ \A m \in 0 .. Len(came) - 1 : First(came', m) = First(came, m)
    BY <1>r, <2>1, <2>2
  <2>5. Written' = Len(response_bytes')
    BY <2>1 DEF Written
  <2>6. CASE response_bytes = << >>
    <3>1. response_bytes' = << >>
      BY <2>1, <2>6
    <3>2. Credited(response_bytes', Written', came')
      BY <2>5, <3>1 DEF Credited
    <3> QED
      BY <2>4, <3>2 DEF Counted
  <2>7. CASE response_bytes # << >>
    <3>1. messages_sent = Len(response_bytes) /\ Len(came) = Len(response_bytes) + 1
      BY <2>3, <2>7 DEF Tried
    <3>2. Credited(response_bytes, Len(response_bytes) - 1, came)
      BY <1>a, <2>3 DEF Credited, Written
    <3>3. size' \in Int
      <4>1. Len(came') \in 0 .. Len(came')
        BY <1>a, <2>4
      <4> QED
        BY <2>4, <4>1, FirstIs
    <3>4. /\ Len(response_bytes') = Len(response_bytes)
          /\ \A j \in 1 .. Len(response_bytes) :
                response_bytes'[j] = IF j = Len(response_bytes) THEN size' ELSE response_bytes[j]
      <4>1. Len(response_bytes) \in 1 .. Len(response_bytes) /\ messages_sent > 0
        BY <1>a, <2>7, <3>1
      <4> QED
        BY <1>a, <2>1, <2>7, <3>1, <3>3, <4>1, ExceptSeq
    <3>5. Credited(response_bytes', Len(response_bytes), came')
      <4>1. ASSUME NEW k \in 1 .. Len(response_bytes)
            PROVE  response_bytes'[k] = First(came', k + 1)
        <5>1. CASE k = Len(response_bytes)
          <6>1. response_bytes'[k] = size' /\ k + 1 = Len(came')
            BY <2>4, <3>1, <3>4, <5>1
          <6> QED
            BY <2>4, <6>1
        <5>2. CASE k # Len(response_bytes)
          <6>1. /\ k \in 1 .. Len(response_bytes) - 1 /\ response_bytes'[k] = response_bytes[k]
                /\ k + 1 \in 0 .. Len(came) - 1
            BY <1>a, <3>1, <3>4, <5>2
          <6>2. response_bytes[k] = First(came, k + 1)
            BY <3>2, <6>1 DEF Credited
          <6> QED
            BY <2>4, <6>1, <6>2
        <5> QED
          BY <5>1, <5>2
      <4> QED
        BY <4>1 DEF Credited
    <3> QED
      BY <2>4, <2>5, <3>4, <3>5 DEF Counted
  <2> QED
    BY <2>6, <2>7
<1>7. CASE UNCHANGED vars
  BY <1>7 DEF vars, conversation, Counted, Talking, Written
<1> QED
  BY <1>1, <1>2, <1>3, <1>4, <1>5, <1>6, <1>7 DEF Next

(***************************************************************************)
(* No reply is credited to a message that was sent after it came, and no   *)
(* cell is left unwritten, wherever the connection broke                   *)
(* (send_over_network, HANDLE_RESPONSES).                                  *)
(***************************************************************************)
THEOREM RepliesStayWithTheirs == Spec => []RepliesAreTheirs
<1>1. Init => Counted
  BY DEF Init, Counted, Talking
<1>2. ASSUME Conversation, Counted PROVE RepliesAreTheirs
  <2> SUFFICES ASSUME pc = "report", response_bytes # << >> PROVE RepliesAreTheirs
    BY DEF RepliesAreTheirs
  <2>1. Tried /\ Credited(response_bytes, Len(response_bytes), came)
    BY <1>2 DEF Conversation, Counted, Talking, Written
  <2>2. Len(response_bytes) = messages_sent
    BY <2>1 DEF Tried
  <2>3. \A i \in 1 .. messages_sent : response_bytes[i] = CameUpTo(i)
    BY <2>1, <2>2 DEF Credited, First, Total, CameUpTo
  <2> QED
    BY <2>2, <2>3, Zenon DEF RepliesAreTheirs
<1> QED
  BY <1>1, <1>2, Started, ConversationInductive, CountedInductive, PTL DEF Spec

-----------------------------------------------------------------------------
(***************************************************************************)
(* The timing plan, from here to the end: where the chosen messages are,   *)
(* the list that insertions make, each insertion against its record, the   *)
(* delays, and with them every plan an execution has.                      *)
(*                                                                         *)
(* The places a plan chooses are places of the list.                       *)
(***************************************************************************)
Class == STRING \cup {NoClass}

Message == [class : Class, of : Nat, kind : {"seed", "retry", "keepalive"}]

IsLeast(x, S) == x \in S /\ \A y \in S : x <= y

LEMMA LeastExists ==
    ASSUME NEW n \in Nat, NEW S \in SUBSET (1 .. n), S # {}
    PROVE  IsLeast(Min(S), S)
  <1>1. S \in SUBSET Nat
    OBVIOUS
  <1>2. PICK k \in S : \A m \in S : k <= m
    BY <1>1, LeastNumber
  <1>3. PICK m : m = CHOOSE x \in S : \A y \in S : x <= y
    BY Zenon
  <1>4. m \in S /\ \A y \in S : m <= y
    BY <1>2, <1>3, Zenon
  <1>5. Min(S) = m
    BY <1>3, Zenon DEF Min
  <1> QED
    BY <1>4, <1>5, Zenon DEF IsLeast

LEMMA MostExists ==
    ASSUME NEW n \in Nat, NEW S \in SUBSET (1 .. n), S # {}
    PROVE  IsGreatest(Max(S), S)
  <1>1. PICK k : IsGreatest(k, S)
    BY GreatestExists
  <1>2. PICK m : m = CHOOSE x \in S : \A y \in S : x >= y
    BY Zenon
  <1>3. m \in S /\ \A y \in S : m >= y
    BY <1>1, <1>2, Zenon DEF IsGreatest
  <1>4. Max(S) = m
    BY <1>2, Zenon DEF Max
  <1> QED
    BY <1>3, <1>4, Zenon DEF IsGreatest

LEMMA LesserOfTwo ==
    ASSUME NEW a \in Int, NEW b \in Int
    PROVE  Min({a, b}) = IF a <= b THEN a ELSE b
  <1>1. PICK m : m = CHOOSE x \in {a, b} : \A y \in {a, b} : x <= y
    BY Zenon
  <1>2. \E x \in {a, b} : \A y \in {a, b} : x <= y
    OBVIOUS
  <1>3. m \in {a, b} /\ \A y \in {a, b} : m <= y
    BY <1>1, <1>2, Zenon
  <1>4. Min({a, b}) = m
    BY <1>1, Zenon DEF Min
  <1> QED
    BY <1>3, <1>4

LEMMA GreaterOfTwo ==
    ASSUME NEW a \in Int, NEW b \in Int
    PROVE  Max({a, b}) = IF a >= b THEN a ELSE b
  <1>1. PICK m : m = CHOOSE x \in {a, b} : \A y \in {a, b} : x >= y
    BY Zenon
  <1>2. \E x \in {a, b} : \A y \in {a, b} : x >= y
    OBVIOUS
  <1>3. m \in {a, b} /\ \A y \in {a, b} : m >= y
    BY <1>1, <1>2, Zenon
  <1>4. Max({a, b}) = m
    BY <1>1, Zenon DEF Max
  <1> QED
    BY <1>3, <1>4

LEMMA FirstOrNone ==
    ASSUME NEW n \in Nat, NEW I \in SUBSET (1 .. n)
    PROVE  (IF I # {} THEN Min(I) ELSE 0) \in 0 .. n
  <1>1. CASE I # {}
    <2>1. IsLeast(Min(I), I)
      BY <1>1, LeastExists
    <2>2. Min(I) \in I
      BY <2>1, Zenon DEF IsLeast
    <2>3. I \subseteq 0 .. n
      OBVIOUS
    <2>4. Min(I) \in 0 .. n
      BY <2>2, <2>3, Zenon
    <2> QED
      BY <1>1, <2>4, Zenon
  <1>2. CASE I = {}
    BY <1>2
  <1> QED
    BY <1>1, <1>2

LEMMA LastOrNone ==
    ASSUME NEW n \in Nat, NEW I \in SUBSET (1 .. n)
    PROVE  (IF I # {} THEN Max(I) ELSE 0) \in 0 .. n
  <1>1. CASE I # {}
    <2>1. IsGreatest(Max(I), I)
      BY <1>1, MostExists
    <2>2. Max(I) \in I
      BY <2>1, Zenon DEF IsGreatest
    <2>3. I \subseteq 0 .. n
      OBVIOUS
    <2>4. Max(I) \in 0 .. n
      BY <2>2, <2>3, Zenon
    <2> QED
      BY <1>1, <2>4, Zenon
  <1>2. CASE I = {}
    BY <1>2
  <1> QED
    BY <1>1, <1>2

LEMMA MatchIsPlace ==
    ASSUME NEW ms, Len(ms) \in Nat, NEW hint
    PROVE  FirstMatch(ms, hint) \in 0 .. Len(ms) /\ LastMatch(ms, hint) \in 0 .. Len(ms)
  <1> DEFINE I == {i \in 1 .. Len(ms) : Matches(ms[i], hint)}
  <1>1. I \in SUBSET (1 .. Len(ms))
    OBVIOUS
  <1>2. FirstMatch(ms, hint) = IF I # {} THEN Min(I) ELSE 0
    BY Zenon DEF FirstMatch, SelectInSeq
  <1>3. LastMatch(ms, hint) = IF I # {} THEN Max(I) ELSE 0
    BY Zenon DEF LastMatch, SelectLastInSeq
  <1> HIDE DEF I
  <1>4. /\ (IF I # {} THEN Min(I) ELSE 0) \in 0 .. Len(ms)
        /\ (IF I # {} THEN Max(I) ELSE 0) \in 0 .. Len(ms)
    BY <1>1, FirstOrNone, LastOrNone
  <1> QED
    BY <1>2, <1>3, <1>4, Zenon

\* A keepalive goes behind a message of the list.
LEMMA KeepaliveIsPlace ==
    ASSUME NEW c, NEW h, NEW ms, Len(ms) \in Nat \ {0}
    PROVE  /\ choose_keepalive_slot(c, h, ms) \in 0 .. Len(ms)
           /\ choose_keepalive_insert_after_slot(h, ms) \in 1 .. Len(ms)
  <1> DEFINE I == {i \in 1 .. Len(ms) : ms[i].class \in KeepaliveClasses}
             J == {i \in 1 .. Len(ms) : ms[i].class \notin TerminalClasses}
             K == {i \in 1 .. Len(ms) : ms[i].class \notin KeepaliveClasses}
             hint == keepalive_hint_class(h)
             first == IF hint \in KeepaliveClasses THEN FirstMatch(ms, hint) ELSE 0
             last == IF hint \in TerminalClasses THEN 0 ELSE LastMatch(ms, hint)
  <1>1. I \in SUBSET (1 .. Len(ms)) /\ J \in SUBSET (1 .. Len(ms)) /\ K \in SUBSET (1 .. Len(ms))
    OBVIOUS
  <1>2. SelectInSeq(ms, LAMBDA m : m.class \in KeepaliveClasses) = IF I # {} THEN Min(I) ELSE 0
    BY Zenon DEF SelectInSeq
  <1>3. SelectLastInSeq(ms, LAMBDA m : m.class \notin TerminalClasses) =
            IF J # {} THEN Max(J) ELSE 0
    BY Zenon DEF SelectLastInSeq
  <1>4. SelectLastInSeq(ms, LAMBDA m : m.class \notin KeepaliveClasses) =
            IF K # {} THEN Max(K) ELSE 0
    BY Zenon DEF SelectLastInSeq
  <1>5. first \in 0 .. Len(ms) /\ last \in 0 .. Len(ms)
    BY MatchIsPlace
  <1>6. choose_keepalive_slot(c, h, ms) =
            IF c.protocol = "ssh" /\ hint \in {"ignore", "global_request"} THEN first
            ELSE Either(first, IF I # {} THEN Min(I) ELSE 0)
    BY <1>2, Zenon DEF choose_keepalive_slot
  <1>7. choose_keepalive_insert_after_slot(h, ms) =
            Either(Either(last, IF J # {} THEN Max(J) ELSE 0),
                   Either(IF K # {} THEN Max(K) ELSE 0, Len(ms)))
    BY <1>3, <1>4, Zenon DEF choose_keepalive_insert_after_slot
  <1> HIDE DEF I, J, K, hint, first, last
  <1>8. /\ (IF I # {} THEN Min(I) ELSE 0) \in 0 .. Len(ms)
        /\ (IF J # {} THEN Max(J) ELSE 0) \in 0 .. Len(ms)
        /\ (IF K # {} THEN Max(K) ELSE 0) \in 0 .. Len(ms)
    BY <1>1, FirstOrNone, LastOrNone
  <1> QED
    BY <1>5, <1>6, <1>7, <1>8 DEF Either

LEMMA SourceIsPlace ==
    ASSUME NEW c, NEW h, NEW count \in Nat, NEW ms, Len(ms) \in Nat \ {0}, DOMAIN ms = 1 .. Len(ms)
    PROVE  choose_retry_source_slot(c, h, count, ms) \in 1 .. Len(ms)
  <1> DEFINE n == Len(ms)
             hint == retry_hint_class(h)
             at(class) == IF c.protocol = "dtls12" THEN FirstMatch(ms, class)
                          ELSE LastMatch(ms, class)
             known == SelectInSeq(Retransmitted[c.protocol], LAMBDA k : at(k) # 0)
             cross == wants_cross_request_retry(c, h, count)
             requests == {i \in DOMAIN ms : ms[i].class \notin KeepaliveClasses \cup {NoClass}}
             room(i) == Min({Len(ms) - i, count - 1})
             roomy == {i \in requests : room(i) > 0 /\ \A j \in requests : room(j) <= room(i)}
             timed == Either(at(hint), IF known # 0 THEN at(Retransmitted[c.protocol][known])
                                       ELSE IF c.protocol = "dtls12" THEN 1 ELSE Len(ms))
             other == Either(IF cross THEN LastMatch(ms, hint) ELSE FirstMatch(ms, hint),
                             IF cross /\ roomy # {} THEN Max(roomy)
                             ELSE IF requests # {} THEN Max(requests) ELSE Len(ms))
  <1>1. choose_retry_source_slot(c, h, count, ms) =
            IF c.protocol \in DOMAIN Retransmitted THEN timed ELSE other
    BY Zenon DEF choose_retry_source_slot
  <1>2. \A class : at(class) \in 0 .. n
    BY MatchIsPlace
  <1>3. requests \in SUBSET (1 .. n) /\ roomy \in SUBSET (1 .. n)
    OBVIOUS
  <1>4. ASSUME c.protocol \in DOMAIN Retransmitted, known # 0
        PROVE  at(Retransmitted[c.protocol][known]) # 0
    <2> DEFINE s == Retransmitted[c.protocol]
               I == {i \in 1 .. Len(s) : at(s[i]) # 0}
    <2>1. Len(s) \in Nat
      BY <1>4 DEF Retransmitted
    <2>2. I \in SUBSET (1 .. Len(s))
      OBVIOUS
    <2>3. known = IF I # {} THEN Min(I) ELSE 0
      BY Zenon DEF SelectInSeq
    <2>4. I # {}
      BY <1>4, <2>3, Zenon
    <2>5. IsLeast(Min(I), I)
      <3> HIDE DEF I, s
      <3> QED
        BY <2>1, <2>2, <2>4, LeastExists
    <2>6. known \in I
      BY <2>3, <2>4, <2>5, Zenon DEF IsLeast
    <2> QED
      BY <2>6, Zenon
  <1> HIDE DEF known, at, requests, roomy
  <1>5. ASSUME c.protocol \in DOMAIN Retransmitted PROVE timed \in 1 .. n
    <2>1. PICK x, y : x = at(hint) /\ y = at(Retransmitted[c.protocol][known])
      BY Zenon
    <2>2. x \in 0 .. n /\ y \in 0 .. n /\ (known # 0 => y # 0)
      BY <1>2, <1>4, <1>5, <2>1
    <2>3. Either(x, IF known # 0 THEN y ELSE IF c.protocol = "dtls12" THEN 1 ELSE n) \in 1 .. n
      BY <2>2 DEF Either
    <2> QED
      BY <2>1, <2>3, Zenon
  <1>6. other \in 1 .. n
    <2>1. PICK x : x = IF cross THEN LastMatch(ms, hint) ELSE FirstMatch(ms, hint)
      BY Zenon
    <2>2. x \in 0 .. n
      BY <2>1, MatchIsPlace
    <2>3. roomy # {} => Max(roomy) \in 1 .. n
      <3>1. roomy # {} => IsGreatest(Max(roomy), roomy)
        BY <1>3, MostExists
      <3> QED
        BY <1>3, <3>1, Zenon DEF IsGreatest
    <2>4. requests # {} => Max(requests) \in 1 .. n
      <3>1. requests # {} => IsGreatest(Max(requests), requests)
        BY <1>3, MostExists
      <3> QED
        BY <1>3, <3>1, Zenon DEF IsGreatest
    <2>5. PICK y : y = IF cross /\ roomy # {} THEN Max(roomy)
                       ELSE IF requests # {} THEN Max(requests) ELSE n
      BY Zenon
    <2>6. y \in 1 .. n
      <3>1. n \in 1 .. n
        OBVIOUS
      <3> QED
        BY <2>3, <2>4, <2>5, <3>1, Zenon
    <2>7. Either(x, y) \in 1 .. n
      BY <2>2, <2>6 DEF Either
    <2> QED
      BY <2>1, <2>5, <2>7, Zenon
  <1> QED
    BY <1>1, <1>5, <1>6, Zenon

-----------------------------------------------------------------------------
(***************************************************************************)
(* Where retries go: at or behind their source, and each no earlier than   *)
(* the one before.                                                         *)
(***************************************************************************)
\* Places for as many insertions, in the list of n messages.
Rising(afters, n) ==
    \A i \in 1 .. Len(afters) : /\ afters[i] \in 1 .. n
                                /\ \A j \in 1 .. i : afters[j] <= afters[i]

LEMMA RetryChain ==
    ASSUME NEW c, NEW h, h.gap \in Int, NEW n \in Nat
    PROVE  retry_chain_count(c, h, n) \in 1 .. 3
  <1>1. CASE c.protocol = "dtls12"
    BY <1>1 DEF retry_chain_count
  <1>2. CASE c.protocol # "dtls12"
    BY <1>2 DEF retry_chain_count
  <1> QED
    BY <1>1, <1>2

LEMMA AfterSource ==
    ASSUME NEW c, NEW h, NEW count, NEW n \in Nat, NEW source \in 1 .. n, NEW i \in Nat
    PROVE  RetryAfter(c, h, count, n, source, i) \in source .. n
  <1> DEFINE spread == wants_cross_request_retry(c, h, count) /\ i > 0 /\ source + i + 1 <= n
             after == source + i + (IF spread THEN 1 ELSE 0)
             late == IF "silence" \in h.mask /\ after + 1 <= n THEN after + 1 ELSE after
  <1>1. after \in Int /\ after >= source
    OBVIOUS
  <1>2. late \in Int /\ late >= source
    <2> HIDE DEF after
    <2> QED
      BY <1>1
  <1>3. Min({n, late}) = IF n <= late THEN n ELSE late
    <2> HIDE DEF late
    <2> QED
      BY <1>2, LesserOfTwo
  <1>4. RetryAfter(c, h, count, n, source, i) =
            IF c.protocol = "dtls12" THEN source ELSE Min({n, late})
    BY Zenon DEF RetryAfter
  <1> HIDE DEF late
  <1>5. (IF n <= late THEN n ELSE late) \in source .. n
    BY <1>2
  <1> QED
    BY <1>3, <1>4, <1>5

LEMMA AfterRises ==
    ASSUME NEW c, NEW h, NEW count, NEW n \in Nat, NEW source \in 1 .. n,
           NEW i \in Nat, NEW j \in 0 .. i
    PROVE  RetryAfter(c, h, count, n, source, j) <= RetryAfter(c, h, count, n, source, i)
  <1> DEFINE wants == wants_cross_request_retry(c, h, count)
             spread(k) == wants /\ k > 0 /\ source + k + 1 <= n
             after(k) == source + k + (IF spread(k) THEN 1 ELSE 0)
             late(k) == IF "silence" \in h.mask /\ after(k) + 1 <= n THEN after(k) + 1
                        ELSE after(k)
  <1>1. ASSUME NEW k \in Nat
        PROVE  RetryAfter(c, h, count, n, source, k) =
                   IF c.protocol = "dtls12" THEN source
                   ELSE IF n <= late(k) THEN n ELSE late(k)
    <2>1. late(k) \in Int
      OBVIOUS
    <2>2. Min({n, late(k)}) = IF n <= late(k) THEN n ELSE late(k)
      <3> HIDE DEF late
      <3> QED
        BY <2>1, LesserOfTwo
    <2>3. RetryAfter(c, h, count, n, source, k) =
              IF c.protocol = "dtls12" THEN source ELSE Min({n, late(k)})
      BY Zenon DEF RetryAfter
    <2> QED
      BY <2>2, <2>3, Zenon
  <1>2. (IF n <= late(j) THEN n ELSE late(j)) <= (IF n <= late(i) THEN n ELSE late(i))
    <2> HIDE DEF wants
    <2> QED
      OBVIOUS
  <1>3. source <= source
    OBVIOUS
  <1> QED
    BY <1>1, <1>2, <1>3

-----------------------------------------------------------------------------
(***************************************************************************)
(* build_injected_messages: u[k] insertions come behind the first k        *)
(* messages, so message k is found u[k - 1] places later than before, and  *)
(* insertion i at i places behind the place it is made after.              *)
(***************************************************************************)
Counts(u, afters, n) ==
    /\ u \in [0 .. n -> 0 .. Len(afters)]
    /\ \A k \in 0 .. n : \A i \in 1 .. Len(afters) : i <= u[k] <=> afters[i] <= k

LEMMA CountsExist ==
    ASSUME NEW n \in Nat, NEW afters, Len(afters) \in Nat, Rising(afters, n)
    PROVE  \E u : Counts(u, afters, n)
  <1> DEFINE I(k) == {i \in 1 .. Len(afters) : afters[i] <= k}
             u == [k \in 0 .. n |-> IF I(k) # {} THEN Max(I(k)) ELSE 0]
  <1>1. ASSUME NEW k \in 0 .. n
        PROVE  /\ u[k] \in 0 .. Len(afters)
               /\ \A i \in 1 .. Len(afters) : i <= u[k] <=> afters[i] <= k
    <2>1. I(k) \in SUBSET (1 .. Len(afters)) /\ u[k] = IF I(k) # {} THEN Max(I(k)) ELSE 0
      OBVIOUS
    <2>2. CASE I(k) = {}
      BY <2>1, <2>2
    <2>3. CASE I(k) # {}
      <3>1. IsGreatest(Max(I(k)), I(k)) /\ u[k] = Max(I(k))
        <4> HIDE DEF I, u
        <4> QED
          BY <2>1, <2>3, MostExists
      <3>2. IsGreatest(u[k], I(k))
        BY <3>1, Zenon
      <3>3. u[k] \in I(k) /\ \A i \in I(k) : u[k] >= i
        BY <3>2, Zenon DEF IsGreatest
      <3>4. PICK x : x = u[k]
        OBVIOUS
      <3>5. x \in 1 .. Len(afters) /\ afters[x] <= k
        BY <3>3, <3>4
      <3>6. ASSUME NEW i \in 1 .. Len(afters) PROVE i <= x <=> afters[i] <= k
        <4>1. i <= x => afters[i] <= afters[x]
          BY <3>5 DEF Rising
        <4>2. afters[i] \in Int /\ afters[x] \in Int
          BY <3>5 DEF Rising
        <4>3. afters[i] <= k => x >= i
          BY <3>3, <3>4
        <4> QED
          BY <3>5, <4>1, <4>2, <4>3
      <3> QED
        BY <3>4, <3>5, <3>6
    <2> QED
      BY <2>2, <2>3
  <1>2. u \in [0 .. n -> 0 .. Len(afters)]
    BY <1>1
  <1> HIDE DEF u
  <1>3. Counts(u, afters, n)
    BY <1>1, <1>2 DEF Counts
  <1> QED
    BY <1>3

Growing(u, n, most) == u[0] = 0 /\ u[n] = most /\ \A k \in 1 .. n : u[k - 1] <= u[k]

LEMMA CountsGrow ==
    ASSUME NEW n \in Nat, NEW afters, Len(afters) \in Nat, Rising(afters, n),
           NEW u, Counts(u, afters, n)
    PROVE  Growing(u, n, Len(afters))
  <1>1. u[0] = 0
    <2>1. u[0] \in 0 .. Len(afters)
      BY DEF Counts
    <2>2. ASSUME u[0] \in 1 .. Len(afters) PROVE FALSE
      <3>1. afters[u[0]] <= 0
        BY <2>2 DEF Counts
      <3>2. afters[u[0]] \in 1 .. n
        BY <2>2 DEF Rising
      <3> QED
        BY <3>1, <3>2
    <2> QED
      BY <2>1, <2>2
  <1>2. u[n] = Len(afters)
    <2>1. u[n] \in 0 .. Len(afters)
      BY DEF Counts
    <2>2. Len(afters) > 0 => Len(afters) <= u[n]
      BY DEF Counts, Rising
    <2> QED
      BY <2>1, <2>2
  <1>3. ASSUME NEW k \in 1 .. n PROVE u[k - 1] <= u[k]
    <2>1. u[k - 1] \in 0 .. Len(afters) /\ u[k] \in 0 .. Len(afters)
      BY DEF Counts
    <2>2. ASSUME u[k - 1] > 0 PROVE u[k - 1] <= u[k]
      <3>1. PICK i \in 1 .. Len(afters) : i = u[k - 1]
        BY <2>1, <2>2
      <3>2. afters[i] <= k - 1 /\ afters[i] \in Int
        BY <3>1 DEF Counts, Rising
      <3>3. i <= u[k]
        BY <3>2 DEF Counts
      <3> QED
        BY <3>1, <3>3
    <2> QED
      BY <2>1, <2>2
  <1> QED
    BY <1>1, <1>2, <1>3 DEF Growing

\* As many copies come behind message k as insertions are made after it.
LEMMA CopiesBehind ==
    ASSUME NEW n \in Nat, NEW afters, Len(afters) \in Nat, DOMAIN afters = 1 .. Len(afters),
           Rising(afters, n), NEW u, Counts(u, afters, n), NEW k \in 1 .. n
    PROVE  Cardinality({i \in DOMAIN afters : afters[i] = k}) = u[k] - u[k - 1]
  <1>1. u[k - 1] \in 0 .. Len(afters) /\ u[k] \in 0 .. Len(afters) /\ u[k - 1] <= u[k]
    <2>1. u[k - 1] <= u[k]
      BY CountsGrow DEF Growing
    <2> QED
      BY <2>1 DEF Counts
  <1>2. ASSUME NEW i \in 1 .. Len(afters)
        PROVE  afters[i] = k <=> i \in u[k - 1] + 1 .. u[k]
    <2>1. afters[i] \in Int /\ (i <= u[k] <=> afters[i] <= k)
          /\ (i <= u[k - 1] <=> afters[i] <= k - 1)
      BY DEF Counts, Rising
    <2> QED
      BY <1>1, <2>1
  <1>3. {i \in DOMAIN afters : afters[i] = k} = u[k - 1] + 1 .. u[k]
    <2>1. u[k - 1] + 1 .. u[k] \subseteq 1 .. Len(afters)
      BY <1>1
    <2> QED
      BY <1>2, <2>1, Zenon
  <1>4. Cardinality(u[k - 1] + 1 .. u[k]) =
            IF u[k - 1] + 1 > u[k] THEN 0 ELSE u[k] - (u[k - 1] + 1) + 1
    <2>1. PICK a \in Int, b \in Int : a = u[k - 1] + 1 /\ b = u[k]
      BY <1>1
    <2>2. Cardinality(a .. b) = IF a > b THEN 0 ELSE b - a + 1
      BY FS_Interval
    <2> QED
      BY <2>1, <2>2
  <1>5. (IF u[k - 1] + 1 > u[k] THEN 0 ELSE u[k] - (u[k - 1] + 1) + 1) = u[k] - u[k - 1]
    BY <1>1
  <1> QED
    BY <1>3, <1>4, <1>5, Zenon

\* Among places that rise, an insertion comes behind those before it.
LEMMA PlacedBehind ==
    ASSUME NEW n \in Nat, NEW afters, Len(afters) \in Nat, DOMAIN afters = 1 .. Len(afters),
           Rising(afters, n), NEW i \in 1 .. Len(afters)
    PROVE  Placed(afters, i) = afters[i] + i
  <1> DEFINE before == {j \in DOMAIN afters :
                           afters[j] < afters[i] \/ (afters[j] = afters[i] /\ j < i)}
  <1>1. ASSUME NEW j \in 1 .. Len(afters)
        PROVE  (afters[j] < afters[i] \/ (afters[j] = afters[i] /\ j < i)) <=> j \in 1 .. i - 1
    <2>1. afters[i] \in Int /\ afters[j] \in Int
      BY DEF Rising
    <2>2. j <= i => afters[j] <= afters[i]
      BY DEF Rising
    <2>3. i <= j => afters[i] <= afters[j]
      BY DEF Rising
    <2> QED
      BY <2>1, <2>2, <2>3
  <1>2. before = 1 .. i - 1
    <2>1. 1 .. i - 1 \subseteq 1 .. Len(afters)
      OBVIOUS
    <2> QED
      BY <1>1, <2>1, Zenon
  <1>3. Cardinality(1 .. i - 1) = i - 1
    BY FS_Interval
  <1>4. Placed(afters, i) = afters[i] + 1 + Cardinality(before)
    BY Zenon DEF Placed
  <1>5. afters[i] + 1 + (i - 1) = afters[i] + i
    BY DEF Rising
  <1> QED
    BY <1>2, <1>3, <1>4, <1>5, Zenon

(***************************************************************************)
(* FlattenSeq: element x of the result is cell[x] if the sequences lie in  *)
(* cell one behind the other, the one numbered k up to end[k].             *)
(***************************************************************************)
Laid(seqs, end, cell, S) ==
    /\ end[0] = 0
    /\ \A k \in 1 .. Len(seqs) :
          /\ seqs[k] \in Seq(S) /\ end[k - 1] \in Nat /\ end[k] = end[k - 1] + Len(seqs[k])
          /\ \A j \in 1 .. Len(seqs[k]) : cell[end[k - 1] + j] = seqs[k][j]

UpTo(cell, e) == [x \in 1 .. e |-> cell[x]]

Filled(cell, e, S) == \A x \in 1 .. e : cell[x] \in S

Shows(s, cell, e, S) == s \in Seq(S) /\ Len(s) = e /\ \A x \in 1 .. e : s[x] = cell[x]

LEMMA FunctionIsSeq ==
    ASSUME NEW S, NEW n \in Nat, NEW s \in [1 .. n -> S]
    PROVE  s \in Seq(S) /\ Len(s) = n
  <1>1. s \in Seq(S)
    BY SeqDef, ZenonT(30)
  <1>2. Len(s) \in Nat /\ DOMAIN s = 1 .. Len(s) /\ DOMAIN s = 1 .. n
    BY <1>1, Lengths
  <1>3. PICK l : l = Len(s)
    OBVIOUS
  <1>4. l \in Nat /\ 1 .. l = 1 .. n
    BY <1>2, <1>3, Zenon
  <1>5. l = n
    BY <1>4
  <1> QED
    BY <1>1, <1>3, <1>5, Zenon

LEMMA UpToIs ==
    ASSUME NEW S, NEW cell, NEW e \in Nat, Filled(cell, e, S)
    PROVE  Shows(UpTo(cell, e), cell, e, S)
  <1>1. UpTo(cell, e) \in [1 .. e -> S]
    BY DEF UpTo, Filled
  <1>2. UpTo(cell, e) \in Seq(S) /\ Len(UpTo(cell, e)) = e
    BY <1>1, FunctionIsSeq
  <1>6. \A x \in 1 .. e : UpTo(cell, e)[x] = cell[x]
    BY DEF UpTo
  <1> QED
    BY <1>2, <1>6 DEF Shows

LEMMA LaidTyped ==
    ASSUME NEW S, NEW seqs, Len(seqs) \in Nat, NEW end, NEW cell, Laid(seqs, end, cell, S)
    PROVE  \A k \in 1 .. Len(seqs) :
              end[k] \in Nat /\ end[k - 1] <= end[k] /\ \A x \in 1 .. end[k] : cell[x] \in S
  <1> DEFINE T == {k \in Nat : k \in 1 .. Len(seqs) =>
                      /\ end[k] \in Nat /\ end[k - 1] <= end[k]
                      /\ \A x \in 1 .. end[k] : cell[x] \in S}
  <1>1. ASSUME NEW k \in 1 .. Len(seqs)
        PROVE  /\ Len(seqs[k]) \in Nat /\ end[k - 1] \in Nat /\ end[k] = end[k - 1] + Len(seqs[k])
               /\ end[k] \in Nat /\ end[k - 1] <= end[k]
               /\ \A x \in end[k - 1] + 1 .. end[k] : cell[x] \in S
    <2>1. seqs[k] \in Seq(S) /\ end[k - 1] \in Nat /\ end[k] = end[k - 1] + Len(seqs[k])
          /\ \A j \in 1 .. Len(seqs[k]) : cell[end[k - 1] + j] = seqs[k][j]
      BY DEF Laid
    <2>2. Len(seqs[k]) \in Nat
      BY <2>1, Lengths
    <2>3. ASSUME NEW x \in end[k - 1] + 1 .. end[k] PROVE cell[x] \in S
      <3>1. PICK j \in 1 .. Len(seqs[k]) : x = end[k - 1] + j
        <4>1. x - end[k - 1] \in 1 .. Len(seqs[k]) /\ x = end[k - 1] + (x - end[k - 1])
          BY <2>1, <2>2
        <4> QED
          BY <4>1
      <3>2. seqs[k][j] \in S
        BY <2>1, ElementOfSeq
      <3> QED
        BY <2>1, <3>1, <3>2
    <2> QED
      BY <2>1, <2>2, <2>3
  <1>2. 1 \in T
    BY <1>1 DEF Laid
  <1>3. ASSUME NEW k \in 1 .. Len(seqs) - 1, k \in T PROVE k + 1 \in T
    <2>1. k \in 1 .. Len(seqs) /\ k + 1 \in 1 .. Len(seqs) /\ (k + 1) - 1 = k
      OBVIOUS
    <2>2. end[k] \in Nat /\ \A x \in 1 .. end[k] : cell[x] \in S
      BY <1>3, <2>1
    <2>3. end[k + 1] \in Nat /\ end[k] <= end[k + 1] /\ \A x \in end[k] + 1 .. end[k + 1] : cell[x] \in S
      BY <1>1, <2>1
    <2>4. \A x \in 1 .. end[k + 1] : cell[x] \in S
      BY <2>2, <2>3
    <2> QED
      BY <2>1, <2>3, <2>4
  <1>4. 1 .. Len(seqs) \subseteq T
    <2> HIDE DEF T
    <2> QED
      BY <1>2, <1>3, UpToInduction
  <1> QED
    BY <1>4

LEMMA Flattened ==
    ASSUME NEW S, NEW seqs, Len(seqs) \in Nat \ {0}, NEW end, NEW cell, Laid(seqs, end, cell, S)
    PROVE  FlattenSeq(seqs) = UpTo(cell, end[Len(seqs)])
  <1> DEFINE n == Len(seqs)
             flat(f) == [i \in 1 .. n |-> IF i = 1 THEN seqs[i] ELSE f[i - 1] \o seqs[i]]
             g == [i \in 1 .. n |-> UpTo(cell, end[i])]
  <1>1. ASSUME NEW k \in 1 .. n
        PROVE  /\ UpTo(cell, end[k]) \in Seq(S) /\ Len(UpTo(cell, end[k])) = end[k]
               /\ \A x \in 1 .. end[k] : UpTo(cell, end[k])[x] = cell[x]
    <2>1. end[k] \in Nat /\ \A x \in 1 .. end[k] : cell[x] \in S
      BY LaidTyped
    <2>2. Filled(cell, end[k], S)
      BY <2>1 DEF Filled
    <2>3. Shows(UpTo(cell, end[k]), cell, end[k], S)
      BY <2>1, <2>2, UpToIs
    <2> QED
      BY <2>3 DEF Shows
  <1>2. ASSUME NEW k \in 1 .. n
        PROVE  /\ seqs[k] \in Seq(S) /\ Len(seqs[k]) \in Nat /\ end[k - 1] \in Nat
               /\ end[k] = end[k - 1] + Len(seqs[k])
               /\ \A j \in 1 .. Len(seqs[k]) : cell[end[k - 1] + j] = seqs[k][j]
    BY Lengths DEF Laid
  <1>3. g[1] = seqs[1]
    <2>1. 1 \in 1 .. n /\ g[1] = UpTo(cell, end[1])
      OBVIOUS
    <2>2. end[0] = 0 /\ end[1] = Len(seqs[1]) /\ Len(seqs[1]) \in Nat
          /\ \A j \in 1 .. Len(seqs[1]) : cell[j] = seqs[1][j]
      BY <1>2 DEF Laid
    <2>3. PICK s, t : s = seqs[1] /\ t = UpTo(cell, end[1])
      OBVIOUS
    <2>4. s \in Seq(S) /\ t \in Seq(S) /\ Len(s) = Len(t) /\ \A i \in 1 .. Len(s) : s[i] = t[i]
      BY <1>1, <1>2, <2>1, <2>2, <2>3
    <2>5. s = t
      BY <2>4, SeqEqual
    <2> QED
      BY <2>1, <2>3, <2>5
  <1>4. ASSUME NEW k \in 2 .. n PROVE g[k] = g[k - 1] \o seqs[k]
    <2>1. k \in 1 .. n /\ k - 1 \in 1 .. n /\ g[k] = UpTo(cell, end[k])
          /\ g[k - 1] = UpTo(cell, end[k - 1])
      OBVIOUS
    <2>2. PICK s, r, t : s = seqs[k] /\ r = UpTo(cell, end[k - 1]) /\ t = UpTo(cell, end[k])
      OBVIOUS
    <2>3. s \in Seq(S) /\ r \in Seq(S) /\ t \in Seq(S)
      BY <1>1, <1>2, <2>1, <2>2
    <2>4. PICK e, d : e = end[k - 1] /\ d = Len(s)
      OBVIOUS
    <2>5. /\ e \in Nat /\ d \in Nat /\ end[k] = e + d /\ Len(r) = e /\ Len(t) = e + d
          /\ \A x \in 1 .. e : r[x] = cell[x]
          /\ \A x \in 1 .. e + d : t[x] = cell[x]
          /\ \A j \in 1 .. d : cell[e + j] = s[j]
      BY <1>1, <1>2, <2>1, <2>2, <2>4
    <2>6. /\ r \o s \in Seq(S) /\ Len(r \o s) = e + d
          /\ \A i \in 1 .. e + d : (r \o s)[i] = IF i <= e THEN r[i] ELSE s[i - e]
      <3>1. /\ r \o s \in Seq(S) /\ Len(r \o s) = Len(r) + Len(s)
            /\ \A i \in 1 .. Len(r) + Len(s) :
                  (r \o s)[i] = IF i <= Len(r) THEN r[i] ELSE s[i - Len(r)]
        BY <2>3, ConcatProperties, Zenon
      <3>2. Len(r) = e /\ Len(s) = d
        BY <2>4, <2>5
      <3> QED
        BY <3>1, <3>2, Zenon
    <2>7. PICK w : w = r \o s
      OBVIOUS
    <2>8. ASSUME NEW i \in 1 .. e + d PROVE t[i] = w[i]
      <3>0. t[i] = cell[i] /\ w[i] = IF i <= e THEN r[i] ELSE s[i - e]
        BY <2>5, <2>6, <2>7, Zenon
      <3>1. CASE i <= e
        <4>1. i \in 1 .. e
          BY <2>5, <3>1
        <4> QED
          BY <2>5, <3>0, <3>1, <4>1, Zenon
      <3>2. CASE i > e
        <4>1. i - e \in 1 .. d /\ e + (i - e) = i
          BY <2>5, <3>2
        <4>2. cell[i] = s[i - e]
          BY <2>5, <4>1
        <4>3. ~ (i <= e)
          BY <2>5, <3>2
        <4> QED
          BY <3>0, <4>2, <4>3, Zenon
      <3> QED
        BY <2>5, <3>1, <3>2
    <2>9. t = w
      <3>1. w \in Seq(S) /\ Len(w) = Len(t) /\ \A i \in 1 .. Len(t) : t[i] = w[i]
        BY <2>5, <2>6, <2>7, <2>8
      <3> QED
        BY <2>3, <3>1, SeqEqual
    <2> QED
      BY <2>1, <2>2, <2>7, <2>9
  <1>5. g = flat(g)
    <2>1. ASSUME NEW i \in 1 .. n
          PROVE  g[i] = IF i = 1 THEN seqs[i] ELSE g[i - 1] \o seqs[i]
      <3>1. i = 1 \/ i \in 2 .. n
        OBVIOUS
      <3> QED
        BY <1>3, <1>4, <3>1
    <2>2. g = [i \in 1 .. n |-> g[i]]
      OBVIOUS
    <2> HIDE DEF g
    <2> QED
      BY <2>1, <2>2
  <1>6. ASSUME NEW f, f = flat(f) PROVE f[n] = g[n]
    <2>1. \A i \in 1 .. n : f[i] = IF i = 1 THEN seqs[i] ELSE f[i - 1] \o seqs[i]
      <3>1. PICK ff : ff = flat(f)
        OBVIOUS
      <3>2. \A i \in 1 .. n : ff[i] = IF i = 1 THEN seqs[i] ELSE f[i - 1] \o seqs[i]
        BY <3>1
      <3> QED
        BY <1>6, <3>1, <3>2
    <2>2. \A i \in 1 .. n : g[i] = IF i = 1 THEN seqs[i] ELSE g[i - 1] \o seqs[i]
      <3>1. PICK ff : ff = flat(g)
        OBVIOUS
      <3>2. \A i \in 1 .. n : ff[i] = IF i = 1 THEN seqs[i] ELSE g[i - 1] \o seqs[i]
        <4> HIDE DEF g
        <4> QED
          BY <3>1
      <3>3. g = ff
        BY <1>5, <3>1, Zenon
      <3> HIDE DEF g
      <3> QED
        BY <3>2, <3>3
    <2>3. f[1] = g[1]
      <3> HIDE DEF g
      <3> QED
        BY <2>1, <2>2
    <2>4. ASSUME NEW k \in 1 .. n - 1, f[k] = g[k] PROVE f[k + 1] = g[k + 1]
      <3>1. k + 1 \in 1 .. n /\ k + 1 # 1 /\ (k + 1) - 1 = k
        OBVIOUS
      <3> HIDE DEF g
      <3> QED
        BY <2>1, <2>2, <2>4, <3>1
    <2>5. \A k \in 1 .. n : f[k] = g[k]
      <3> DEFINE T == {k \in Nat : k \in 1 .. n => f[k] = g[k]}
      <3>1. n \in Nat
        OBVIOUS
      <3> HIDE DEF g, n
      <3>2. 1 \in T
        BY <2>3
      <3>3. \A k \in 1 .. n - 1 : k \in T => k + 1 \in T
        <4>1. ASSUME NEW k \in 1 .. n - 1, k \in T PROVE k + 1 \in T
          <5>1. k + 1 \in Nat /\ k \in 1 .. n
            BY <3>1
          <5> QED
            BY <2>4, <4>1, <5>1
        <4> QED
          BY <4>1
      <3>4. 1 .. n \subseteq T
        <4> HIDE DEF T
        <4> QED
          BY <3>1, <3>2, <3>3, UpToInduction
      <3> QED
        BY <3>4
    <2> QED
      BY <2>5
  <1>7. FlattenSeq(seqs) = (CHOOSE f : f = flat(f))[n]
    <2>1. n # 0
      OBVIOUS
    <2> QED
      BY <2>1, Zenon DEF FlattenSeq
  <1>8. PICK f : f = CHOOSE ff : ff = flat(ff)
    BY Zenon
  <1>9. f = flat(f)
    <2> HIDE DEF flat, g
    <2> QED
      BY <1>5, <1>8, Zenon
  <1>10. f[n] = g[n]
    BY <1>6, <1>9, Zenon
  <1>11. g[n] = UpTo(cell, end[n])
    OBVIOUS
  <1> QED
    BY <1>7, <1>8, <1>10, <1>11, Zenon

\* Where message k is.
Home(u, k) == k + u[k - 1]

LEMMA HomesRise ==
    ASSUME NEW n \in Nat, NEW afters, Len(afters) \in Nat, Rising(afters, n),
           NEW u, Counts(u, afters, n), NEW k \in 1 .. n
    PROVE  /\ Home(u, k) \in k .. n + Len(afters)
           /\ \A l \in 1 .. k - 1 : Home(u, l) < Home(u, k)
           /\ \A i \in 1 .. Len(afters) :
                 IF k <= afters[i] THEN Home(u, k) < afters[i] + i ELSE Home(u, k) > afters[i] + i
  <1> DEFINE T == {j \in Nat : j \in 1 .. n => \A l \in 1 .. j - 1 : u[l - 1] <= u[j - 1]}
  <1>1. \A j \in 0 .. n : u[j] \in 0 .. Len(afters)
    BY DEF Counts
  <1>2. \A j \in 1 .. n : u[j - 1] <= u[j]
    BY CountsGrow DEF Growing
  <1>3. 1 \in T
    OBVIOUS
  <1>4. ASSUME NEW j \in 1 .. n - 1, j \in T PROVE j + 1 \in T
    <2>1. ASSUME NEW l \in 1 .. j PROVE u[l - 1] <= u[j]
      <3>1. u[l - 1] <= u[j - 1]
        <4>1. CASE l = j
          BY <1>1, <4>1
        <4>2. CASE l # j
          BY <1>4, <4>2
        <4> QED
          BY <4>1, <4>2
      <3>2. u[j - 1] <= u[j]
        BY <1>2
      <3>3. u[l - 1] \in Int /\ u[j - 1] \in Int /\ u[j] \in Int
        BY <1>1
      <3> QED
        BY <3>1, <3>2, <3>3
    <2> QED
      BY <2>1
  <1>5. 1 .. n \subseteq T
    <2> HIDE DEF T
    <2> QED
      BY <1>3, <1>4, UpToInduction
  <1>6. \A l \in 1 .. k - 1 : u[l - 1] <= u[k - 1]
    BY <1>5
  <1>7. \A l \in 1 .. k - 1 : Home(u, l) < Home(u, k)
    BY <1>1, <1>6 DEF Home
  <1>8. Home(u, k) \in k .. n + Len(afters)
    <2>1. u[k - 1] \in 0 .. Len(afters)
      BY <1>1
    <2> QED
      BY <2>1 DEF Home
  <1>9. ASSUME NEW i \in 1 .. Len(afters)
        PROVE  IF k <= afters[i] THEN Home(u, k) < afters[i] + i ELSE Home(u, k) > afters[i] + i
    <2>1. afters[i] \in 1 .. n
      BY DEF Rising
    <2>2. i <= u[k - 1] <=> afters[i] <= k - 1
      BY DEF Counts
    <2>3. u[k - 1] \in Int
      BY <1>1
    <2> QED
      BY <2>1, <2>2, <2>3 DEF Home
  <1> QED
    BY <1>7, <1>8, <1>9

AtHomeOrSlot(x, u, afters, n) ==
    \/ \E k \in 1 .. n : x = Home(u, k)
    \/ \E i \in 1 .. Len(afters) : x = afters[i] + i

LEMMA HomeOrSlot ==
    ASSUME NEW n \in Nat \ {0}, NEW afters, Len(afters) \in Nat, Rising(afters, n),
           NEW u, Counts(u, afters, n), NEW x \in 1 .. n + Len(afters)
    PROVE  AtHomeOrSlot(x, u, afters, n)
  <1> DEFINE S == {k \in 1 .. n : Home(u, k) <= x}
  <1>1. \A j \in 0 .. n : u[j] \in 0 .. Len(afters)
    BY DEF Counts
  <1>2. u[0] = 0 /\ u[n] = Len(afters)
    BY CountsGrow DEF Growing
  <1>3. S \in SUBSET (1 .. n) /\ 1 \in S
    BY <1>2 DEF Home
  <1>4. PICK k : IsGreatest(k, S)
    <2> HIDE DEF S
    <2> QED
      BY <1>3, GreatestExists
  <1>5. k \in 1 .. n /\ Home(u, k) <= x /\ \A l \in S : k >= l
    BY <1>4 DEF IsGreatest
  <1>6. x <= k + u[k]
    <2>1. CASE k = n
      BY <1>2, <2>1
    <2>2. CASE k # n
      <3>1. k + 1 \in 1 .. n /\ k + 1 \notin S
        BY <1>5, <2>2
      <3>2. ~ (Home(u, k + 1) <= x)
        BY <3>1
      <3>3. Home(u, k + 1) = k + 1 + u[k] /\ u[k] \in Int /\ x \in Int /\ k \in Int
        <4>1. k \in 0 .. n /\ (k + 1) - 1 = k
          BY <1>5
        <4> QED
          BY <1>1, <4>1 DEF Home
      <3> QED
        BY <3>2, <3>3
    <2> QED
      BY <2>1, <2>2
  <1>7. CASE x = Home(u, k)
    BY <1>5, <1>7 DEF AtHomeOrSlot
  <1>8. CASE x # Home(u, k)
    <2>1. u[k - 1] \in 0 .. Len(afters) /\ u[k] \in 0 .. Len(afters)
      BY <1>1, <1>5
    <2>2. PICK i \in Int : i = x - k
      BY <1>5
    <2>3. i \in 1 .. Len(afters) /\ i <= u[k] /\ ~ (i <= u[k - 1])
      <3>1. k \in Int /\ x \in Int /\ k + u[k - 1] <= x /\ x # k + u[k - 1] /\ x <= k + u[k]
        BY <1>5, <1>6, <1>8 DEF Home
      <3>2. PICK a, b, m : a = u[k] /\ b = u[k - 1] /\ m = Len(afters)
        OBVIOUS
      <3>3. m \in Nat /\ a \in 0 .. m /\ b \in 0 .. m
        BY <2>1, <3>2
      <3>4. i + k = x /\ k + b <= x /\ x # k + b /\ x <= k + a
        BY <2>2, <3>1, <3>2
      <3>5. b < i /\ i <= a
        BY <3>1, <3>3, <3>4
      <3>6. i \in 1 .. m /\ i <= a /\ ~ (i <= b)
        BY <3>3, <3>5
      <3> QED
        BY <3>2, <3>6
    <2>4. afters[i] <= k /\ ~ (afters[i] <= k - 1) /\ afters[i] \in Int
      <3>1. k \in 0 .. n /\ k - 1 \in 0 .. n
        BY <1>5
      <3> QED
        BY <2>3, <3>1 DEF Counts, Rising
    <2>5. x = afters[i] + i
      BY <1>5, <2>2, <2>4
    <2> QED
      BY <2>3, <2>5 DEF AtHomeOrSlot
  <1> QED
    BY <1>7, <1>8

\* One message with its copies.
Copied(b, x, y, d, S) ==
    b \in Seq(S) /\ Len(b) = d + 1 /\ b[1] = x /\ \A j \in 2 .. d + 1 : b[j] = y

LEMMA Block ==
    ASSUME NEW S, NEW x \in S, NEW y \in S, NEW d \in Nat,
           NEW b, b = <<x>> \o [j \in 1 .. d |-> y]
    PROVE  Copied(b, x, y, d, S)
  <1> DEFINE s == <<x>>
             t == [j \in 1 .. d |-> y]
  <1>1. t \in [1 .. d -> S]
    OBVIOUS
  <1>2. t \in Seq(S) /\ Len(t) = d /\ \A j \in 1 .. d : t[j] = y
    <2>1. t \in Seq(S) /\ Len(t) = d
      <3> HIDE DEF t
      <3> QED
        BY <1>1, FunctionIsSeq
    <2>2. \A j \in 1 .. d : t[j] = y
      OBVIOUS
    <2> QED
      BY <2>1, <2>2
  <1>3. s \in Seq(S) /\ Len(s) = 1 /\ s[1] = x
    OBVIOUS
  <1> HIDE DEF s, t
  <1>4. /\ s \o t \in Seq(S) /\ Len(s \o t) = Len(s) + Len(t)
        /\ \A i \in 1 .. Len(s) + Len(t) :
              (s \o t)[i] = IF i <= Len(s) THEN s[i] ELSE t[i - Len(s)]
    BY <1>2, <1>3, ConcatProperties, Zenon
  <1>5. b = s \o t
    BY DEF s, t
  <1>6. /\ b \in Seq(S) /\ Len(b) = 1 + d
        /\ \A i \in 1 .. 1 + d : b[i] = IF i <= 1 THEN s[i] ELSE t[i - 1]
    BY <1>2, <1>3, <1>4, <1>5, Zenon
  <1>7. b[1] = x
    BY <1>3, <1>6
  <1>8. ASSUME NEW j \in 2 .. d + 1 PROVE b[j] = y
    <2>1. j \in 1 .. 1 + d /\ ~ (j <= 1) /\ j - 1 \in 1 .. d
      OBVIOUS
    <2> QED
      BY <1>2, <1>6, <2>1
  <1> QED
    BY <1>6, <1>7, <1>8 DEF Copied

(***************************************************************************)
(* The list that is built: the messages in their order, and copies of m at *)
(* the places of the insertions.                                           *)
(***************************************************************************)
Built(list, ms, m, afters, u) ==
    /\ list \in Seq(Message) /\ Len(list) = Len(ms) + Len(afters)
    /\ \A k \in 1 .. Len(ms) : list[Home(u, k)] = ms[k]
    /\ \A i \in 1 .. Len(afters) : list[afters[i] + i] = m

LEMMA BuiltList ==
    ASSUME NEW ms \in Seq(Message), ms # << >>, NEW m \in Message,
           NEW afters, Len(afters) \in Nat, DOMAIN afters = 1 .. Len(afters),
           Rising(afters, Len(ms)), NEW u, Counts(u, afters, Len(ms))
    PROVE  Built(build_injected_messages(ms, m, afters), ms, m, afters, u)
  <1> DEFINE n == Len(ms)
             d(k) == Cardinality({i \in DOMAIN afters : afters[i] = k})
             seqs == [k \in DOMAIN ms |-> <<ms[k]>> \o [j \in 1 .. d(k) |-> m]]
             N == n + Len(afters)
             atHome(x) == {k \in 1 .. n : x = Home(u, k)}
             cell == [x \in 1 .. N |-> IF atHome(x) # {} THEN ms[CHOOSE k \in atHome(x) : TRUE]
                                       ELSE m]
             end == [k \in 0 .. n |-> k + u[k]]
  <1>0. n \in Nat \ {0} /\ DOMAIN ms = 1 .. n /\ \A k \in 1 .. n : ms[k] \in Message
    BY Lengths, ElementOfSeq
  <1>1. /\ \A k \in 0 .. n : u[k] \in 0 .. Len(afters)
        /\ u[0] = 0 /\ u[n] = Len(afters)
        /\ \A k \in 1 .. n : u[k - 1] <= u[k]
    <2>1. Growing(u, n, Len(afters))
      BY <1>0, CountsGrow
    <2> QED
      BY <2>1, Zenon DEF Counts, Growing
  <1>2. ASSUME NEW k \in 1 .. n
        PROVE  /\ seqs[k] \in Seq(Message) /\ Len(seqs[k]) = u[k] - u[k - 1] + 1
               /\ seqs[k][1] = ms[k]
               /\ \A j \in 2 .. u[k] - u[k - 1] + 1 : seqs[k][j] = m
    <2>1. d(k) = u[k] - u[k - 1]
      BY <1>0, CopiesBehind
    <2>2. PICK b, e : b = seqs[k] /\ e = d(k)
      OBVIOUS
    <2>3. e \in Nat /\ e = u[k] - u[k - 1]
      BY <1>1, <2>1, <2>2
    <2>4. b = <<ms[k]>> \o [j \in 1 .. e |-> m]
      BY <1>0, <2>2, Zenon
    <2>5. /\ b \in Seq(Message) /\ Len(b) = e + 1 /\ b[1] = ms[k]
          /\ \A j \in 2 .. e + 1 : b[j] = m
      <3>1. ms[k] \in Message
        BY <1>0
      <3> HIDE DEF d, seqs
      <3> QED
        <4>1. Copied(b, ms[k], m, e, Message)
          BY <2>3, <2>4, <3>1, Block
        <4> QED
          BY <4>1, Zenon DEF Copied
    <2> QED
      BY <2>2, <2>3, <2>5
  <1>3. ASSUME NEW k \in 1 .. n
        PROVE  Home(u, k) \in 1 .. N /\ cell[Home(u, k)] = ms[k]
    <2>1. Home(u, k) \in 1 .. N
      BY <1>0, HomesRise
    <2>2. ASSUME NEW l \in atHome(Home(u, k)) PROVE l = k
      <3>1. l \in 1 .. n /\ Home(u, l) = Home(u, k)
        BY <2>2
      <3>2. l < k => Home(u, l) < Home(u, k)
        BY <1>0, <3>1, HomesRise
      <3>3. k < l => Home(u, k) < Home(u, l)
        BY <1>0, <3>1, HomesRise
      <3> QED
        BY <2>1, <3>1, <3>2, <3>3
    <2>3. PICK l : l = CHOOSE j \in atHome(Home(u, k)) : TRUE
      BY Zenon
    <2>4. k \in atHome(Home(u, k))
      OBVIOUS
    <2>5. l \in atHome(Home(u, k))
      <3> HIDE DEF atHome
      <3> QED
        BY <2>3, <2>4, Zenon
    <2>6. cell[Home(u, k)] = ms[l]
      <3> HIDE DEF atHome
      <3> QED
        BY <2>1, <2>3, <2>4, Zenon
    <2> QED
      BY <2>1, <2>2, <2>5, <2>6, Zenon
  <1>4. ASSUME NEW i \in 1 .. Len(afters)
        PROVE  afters[i] + i \in 1 .. N /\ cell[afters[i] + i] = m
    <2>1. afters[i] \in 1 .. n
      BY DEF Rising
    <2>2. afters[i] + i \in 1 .. N
      BY <1>0, <2>1
    <2>3. atHome(afters[i] + i) = {}
      <3>1. ASSUME NEW k \in 1 .. n, afters[i] + i = Home(u, k) PROVE FALSE
        <4>1. Home(u, k) \in Int
              /\ IF k <= afters[i] THEN Home(u, k) < afters[i] + i ELSE Home(u, k) > afters[i] + i
          BY <1>0, HomesRise
        <4> QED
          BY <2>1, <3>1, <4>1
      <3> QED
        BY <3>1
    <2>4. PICK x : x = afters[i] + i
      OBVIOUS
    <2>5. cell[x] = m
      BY <2>2, <2>3, <2>4, Zenon
    <2> QED
      BY <2>2, <2>4, <2>5
  <1>5. Len(seqs) = n
    <2>1. seqs \in [1 .. n -> Seq(Message)]
      <3>1. seqs = [k \in 1 .. n |-> seqs[k]]
        BY <1>0
      <3> HIDE DEF seqs
      <3> QED
        BY <1>2, <3>1
    <2>2. n \in Nat
      BY <1>0
    <2> HIDE DEF seqs, n
    <2> QED
      BY <2>1, <2>2, FunctionIsSeq
  <1>6. \A k \in 0 .. n : end[k] = k + u[k]
    OBVIOUS
  <1>7. ASSUME NEW k \in 1 .. n
        PROVE  /\ seqs[k] \in Seq(Message) /\ end[k - 1] \in Nat
               /\ end[k] = end[k - 1] + Len(seqs[k])
               /\ \A j \in 1 .. Len(seqs[k]) : cell[end[k - 1] + j] = seqs[k][j]
    <2>1. PICK a, b : a = u[k - 1] /\ b = u[k]
      OBVIOUS
    <2>2. a \in 0 .. Len(afters) /\ b \in 0 .. Len(afters) /\ a <= b
      BY <1>0, <1>1, <2>1
    <2>3. end[k - 1] = k - 1 + a /\ end[k] = k + b /\ Home(u, k) = k + a
      BY <1>0, <1>6, <2>1 DEF Home
    <2>4. PICK s : s = seqs[k]
      OBVIOUS
    <2>5. s \in Seq(Message) /\ Len(s) = b - a + 1 /\ s[1] = ms[k]
          /\ \A j \in 2 .. b - a + 1 : s[j] = m
      BY <1>2, <2>1, <2>4
    <2>6. ASSUME NEW j \in 1 .. b - a + 1 PROVE cell[k - 1 + a + j] = s[j]
      <3>1. CASE j = 1
        <4>1. k - 1 + a + j = Home(u, k)
          BY <1>0, <2>2, <2>3, <3>1
        <4> QED
          BY <1>3, <2>5, <3>1, <4>1, Zenon
      <3>2. CASE j # 1
        <4>1. PICK i \in Int : i = a + j - 1
          BY <2>2
        <4>2. i \in 1 .. Len(afters) /\ i <= b /\ ~ (i <= a) /\ j \in 2 .. b - a + 1
          BY <2>2, <3>2, <4>1
        <4>3. afters[i] = k
          <5>1. afters[i] \in Int /\ (i <= u[k] <=> afters[i] <= k)
                /\ (i <= u[k - 1] <=> afters[i] <= k - 1)
            <6>1. k \in 0 .. n /\ k - 1 \in 0 .. n
              BY <1>0
            <6>2. afters[i] \in 1 .. n
              BY <4>2, Zenon DEF Rising
            <6>3. \A l \in 0 .. n : i <= u[l] <=> afters[i] <= l
              BY <4>2, Zenon DEF Counts
            <6> QED
              BY <1>0, <6>1, <6>2, <6>3
          <5> QED
            BY <1>0, <2>1, <4>2, <5>1
        <4>4. k - 1 + a + j = afters[i] + i
          BY <1>0, <2>2, <4>1, <4>3
        <4>5. cell[afters[i] + i] = m
          BY <1>4, <4>2
        <4> QED
          BY <2>5, <4>2, <4>4, <4>5, Zenon
      <3> QED
        BY <3>1, <3>2
    <2> HIDE DEF cell, end, seqs
    <2>7. end[k - 1] \in Nat /\ end[k] = end[k - 1] + Len(s)
      BY <1>0, <2>2, <2>3, <2>5
    <2> QED
      BY <2>3, <2>4, <2>5, <2>6, <2>7
  <1>8. Laid(seqs, end, cell, Message)
    <2>1. end[0] = 0
      BY <1>0, <1>1, <1>6
    <2> HIDE DEF cell, end, seqs
    <2> QED
      BY <1>5, <1>7, <2>1 DEF Laid
  <1>9. build_injected_messages(ms, m, afters) = FlattenSeq(seqs)
    BY Zenon DEF build_injected_messages
  <1>10. FlattenSeq(seqs) = UpTo(cell, N)
    <2>1. end[n] = N
      <3>1. n \in 0 .. n
        BY <1>0
      <3> HIDE DEF end
      <3> QED
        BY <1>1, <1>6, <3>1
    <2> HIDE DEF cell, end, seqs
    <2>2. Len(seqs) \in Nat \ {0}
      BY <1>0, <1>5
    <2>3. FlattenSeq(seqs) = UpTo(cell, end[Len(seqs)])
      BY <1>8, <2>2, Flattened
    <2> QED
      BY <1>5, <2>1, <2>3, Zenon
  <1>11. Filled(cell, N, Message)
    <2>1. ASSUME NEW x \in 1 .. N PROVE cell[x] \in Message
      <3>1. CASE \E k \in 1 .. n : x = Home(u, k)
        BY <1>0, <1>3, <3>1
      <3>2. CASE \E i \in 1 .. Len(afters) : x = afters[i] + i
        <4> HIDE DEF cell
        <4> QED
          BY <1>4, <3>2
      <3> QED
        BY <1>0, <3>1, <3>2, HomeOrSlot DEF AtHomeOrSlot
    <2> QED
      BY <2>1 DEF Filled
  <1>12. Shows(UpTo(cell, N), cell, N, Message)
    <2>1. N \in Nat
      BY <1>0
    <2> HIDE DEF cell, N
    <2> QED
      BY <1>11, <2>1, UpToIs
  <1>13. PICK list : list = UpTo(cell, N)
    OBVIOUS
  <1>14. /\ list \in Seq(Message) /\ Len(list) = N
         /\ \A x \in 1 .. N : list[x] = cell[x]
    <2> HIDE DEF cell, N
    <2> QED
      BY <1>12, <1>13 DEF Shows
  <1>15. Built(list, ms, m, afters, u)
    <2> HIDE DEF cell
    <2> QED
      BY <1>3, <1>4, <1>14 DEF Built
  <1> QED
    BY <1>9, <1>10, <1>13, <1>15, Zenon

-----------------------------------------------------------------------------
(***************************************************************************)
(* A plan before its delays are set: retries follow, insertions are where  *)
(* they are recorded, and in the order of the list unless the plan is      *)
(* hybrid.                                                                 *)
(***************************************************************************)
Insertion == [kind : {"retry", "keepalive"}, base : Nat, source : Nat, after : Nat, slot : Nat]

PlanType == [messages : Seq(Message), insertions : Seq(Insertion), delays : Seq(Nat),
             hybrid : BOOLEAN, cross : BOOLEAN, retry_class : Class]

PlanOf(list, ins, delays, hybrid, cross, class) ==
    [messages |-> list, insertions |-> ins, delays |-> delays, hybrid |-> hybrid,
     cross |-> cross, retry_class |-> class]

IsRetry(x, base, source, after, slot) ==
    /\ x \in Insertion
    /\ x.kind = "retry" /\ x.base = base /\ x.source = source /\ x.after = after
    /\ x.slot = slot

Follows(list) ==
    \A k \in DOMAIN list : list[k].kind = "retry" =>
        /\ \E j \in 1 .. k - 1 : list[j] = [list[k] EXCEPT !.kind = "seed"]
        /\ \A r \in DOMAIN list : list[r].kind = "retry" => list[r].of = list[k].of

\* An insertion inside a list of n messages.
Inside(x, n) ==
    /\ x.base \in 1 .. n
    /\ x.source \in 1 .. x.base /\ x.after \in 1 .. x.base
    /\ x.slot > x.after /\ x.slot <= n

Recorded(p) ==
    /\ p.insertions # << >> => Len(p.messages) > 1
    /\ \A i \in 1 .. Len(p.insertions) : Inside(p.insertions[i], Len(p.messages))
    /\ p.cross <=> \E i \in 1 .. Len(p.insertions) :
                       p.insertions[i].kind = "retry"
                       /\ p.insertions[i].after > p.insertions[i].source

InPlace(p) ==
    /\ \A i \in 1 .. Len(p.insertions) :
          p.messages[p.insertions[i].slot].kind = p.insertions[i].kind
    /\ \A k \in 1 .. Len(p.messages) : p.messages[k].kind # "seed" =>
          \E i \in 1 .. Len(p.insertions) : p.insertions[i].slot = k
    /\ \A i \in 1 .. Len(p.insertions) : \A j \in 1 .. i - 1 :
          p.insertions[j].slot < p.insertions[i].slot

Unsent(p) ==
    /\ p \in PlanType /\ p.messages # << >> /\ p.delays = << >>
    /\ Len(p.insertions) <= BIZONE_MAX_INSERTIONS
    /\ Follows(p.messages) /\ Recorded(p) /\ (~p.hybrid => InPlace(p))

\* Before a keepalive is inserted.
Pure(p) == Unsent(p) /\ ~p.hybrid /\ Len(p.insertions) < BIZONE_MAX_INSERTIONS

Seeds(ms) == ms \in Seq(Message) /\ ms # << >> /\ \A k \in 1 .. Len(ms) : ms[k].kind = "seed"

LEMMA PlanIsParts ==
    ASSUME NEW p \in PlanType
    PROVE  p = PlanOf(p.messages, p.insertions, p.delays, p.hybrid, p.cross, p.retry_class)
  BY DEF PlanType, PlanOf

LEMMA OtherClass ==
    ASSUME NEW a, NEW b, NEW c, NEW d, NEW e, NEW f, NEW p, p = PlanOf(a, b, c, d, e, f), NEW x
    PROVE  [p EXCEPT !.retry_class = x] = PlanOf(a, b, c, d, e, x)
  BY DEF PlanOf

LEMMA OtherMessages ==
    ASSUME NEW a, NEW b, NEW c, NEW d, NEW e, NEW f, NEW p, p = PlanOf(a, b, c, d, e, f), NEW x
    PROVE  [p EXCEPT !.messages = x] = PlanOf(x, b, c, d, e, f)
  BY DEF PlanOf

LEMMA NoPlanIs ==
    ASSUME NEW ms, Seeds(ms)
    PROVE  Pure(NoPlan(ms))
  <1>0. Len(ms) \in Nat /\ DOMAIN ms = 1 .. Len(ms)
    BY Lengths DEF Seeds
  <1>1. PICK p : p = NoPlan(ms)
    OBVIOUS
  <1>2. /\ p.messages = ms /\ p.insertions = << >> /\ p.delays = << >> /\ p.hybrid = FALSE
        /\ p.cross = FALSE /\ p.retry_class = NoClass
    BY <1>1 DEF NoPlan
  <1>3. p \in PlanType
    <2>1. << >> \in Seq(Insertion) /\ << >> \in Seq(Nat)
      OBVIOUS
    <2>2. NoClass \in Class
      BY DEF Class
    <2>3. ms \in Seq(Message)
      BY DEF Seeds
    <2> QED
      BY <1>1, <2>1, <2>2, <2>3 DEF NoPlan, PlanType
  <1>4. Len(p.insertions) = 0
    BY <1>2
  <1>5. Follows(p.messages)
    BY <1>0, <1>2 DEF Follows, Seeds
  <1>6. Recorded(p)
    BY <1>2, <1>4 DEF Recorded
  <1>7. InPlace(p)
    BY <1>0, <1>2, <1>4 DEF InPlace, Seeds
  <1>8. p.messages # << >>
    BY <1>2 DEF Seeds
  <1>9. Unsent(p)
    BY <1>2, <1>3, <1>4, <1>5, <1>6, <1>7, <1>8 DEF Unsent, BIZONE_MAX_INSERTIONS
  <1> QED
    BY <1>1, <1>2, <1>4, <1>9 DEF Pure, BIZONE_MAX_INSERTIONS

\* A copy of a message of the seed, and back.
LEMMA CopyAndBack ==
    ASSUME NEW r \in Message, r.kind = "seed", NEW m, m = [r EXCEPT !.kind = "retry"]
    PROVE  /\ m \in Message /\ m.kind = "retry" /\ m.of = r.of
           /\ [m EXCEPT !.kind = "seed"] = r
  <1>1. m \in Message
    BY DEF Message
  <1>2. m.kind = "retry" /\ m.of = r.of
    BY DEF Message
  <1>3. [m EXCEPT !.kind = "seed"] = r
    BY DEF Message
  <1> QED
    BY <1>1, <1>2, <1>3

(***************************************************************************)
(* apply_retry_insertions.                                                 *)
(***************************************************************************)
LEMMA RetryPlan ==
    ASSUME NEW c, NEW h, h.gap \in Int, NEW ms, Seeds(ms)
    PROVE  Pure(apply_retry_insertions(c, h, ms))
  <1> DEFINE n == Len(ms)
             limit == IF "keepalive" \in h.mask THEN BIZONE_MAX_INSERTIONS - 1
                      ELSE BIZONE_MAX_INSERTIONS
             count == Min({limit, retry_chain_count(c, h, n)})
             source == choose_retry_source_slot(c, h, count, ms)
             afters == [i \in 1 .. count |-> RetryAfter(c, h, count, n, source, i - 1)]
             m == [ms[source] EXCEPT !.kind = "retry"]
             list == build_injected_messages(ms, m, afters)
             ins == [i \in 1 .. count |->
                        [kind |-> "retry", base |-> n, source |-> source, after |-> afters[i],
                         slot |-> Placed(afters, i)]]
             cross == \E i \in 1 .. count : afters[i] > source
             p == [NoPlan(ms) EXCEPT !.messages = list, !.insertions = ins, !.cross = cross,
                                     !.retry_class = ms[source].class]
  <1>1. apply_retry_insertions(c, h, ms) = p
    BY Zenon DEF apply_retry_insertions
  <1>2. n \in Nat \ {0} /\ DOMAIN ms = 1 .. n /\ \A k \in 1 .. n : ms[k] \in Message
    BY Lengths, ElementOfSeq DEF Seeds
  <1>3. count \in 1 .. 3
    <2>1. limit \in {3, 4}
      BY DEF BIZONE_MAX_INSERTIONS
    <2>2. retry_chain_count(c, h, n) \in 1 .. 3
      BY <1>2, RetryChain
    <2>3. PICK x, y : x = limit /\ y = retry_chain_count(c, h, n)
      OBVIOUS
    <2>4. Min({x, y}) = IF x <= y THEN x ELSE y
      BY <2>1, <2>2, <2>3, LesserOfTwo
    <2> HIDE DEF limit
    <2> QED
      BY <2>1, <2>2, <2>3, <2>4
  <1> HIDE DEF count
  <1>4. source \in 1 .. n
    BY <1>2, <1>3, SourceIsPlace
  <1> HIDE DEF source
  <1>5. afters \in [1 .. count -> 1 .. n] /\ \A i \in 1 .. count : afters[i] >= source
    <2>1. ASSUME NEW i \in 1 .. count
          PROVE  RetryAfter(c, h, count, n, source, i - 1) \in source .. n
      <3>1. i - 1 \in Nat /\ n \in Nat
        BY <1>2, <1>3
      <3> QED
        BY <1>4, <3>1, AfterSource
    <2> QED
      BY <1>2, <1>3, <1>4, <2>1
  <1>6. Len(afters) = count /\ DOMAIN afters = 1 .. count
    <2>1. count \in Nat
      BY <1>3
    <2> HIDE DEF afters
    <2> QED
      BY <1>5, <2>1, FunctionIsSeq
  <1>7. Rising(afters, n)
    <2>1. ASSUME NEW i \in 1 .. count, NEW j \in 1 .. i PROVE afters[j] <= afters[i]
      <3>1. i - 1 \in Nat /\ n \in Nat /\ j - 1 \in 0 .. i - 1 /\ j \in 1 .. count
        BY <1>2, <1>3
      <3>2. RetryAfter(c, h, count, n, source, j - 1) <= RetryAfter(c, h, count, n, source, i - 1)
        BY <1>4, <3>1, AfterRises
      <3> QED
        BY <3>1, <3>2
    <2> HIDE DEF afters
    <2> QED
      BY <1>5, <1>6, <2>1 DEF Rising
  <1> HIDE DEF afters
  <1>8. /\ ms[source] \in Message /\ ms[source].kind = "seed"
        /\ m \in Message /\ m.kind = "retry" /\ m.of = ms[source].of
        /\ [m EXCEPT !.kind = "seed"] = ms[source]
    <2>1. PICK r : r = ms[source]
      OBVIOUS
    <2>2. r \in Message /\ r.kind = "seed"
      BY <1>2, <1>4, <2>1 DEF Seeds
    <2>3. PICK mm : mm = [r EXCEPT !.kind = "retry"]
      OBVIOUS
    <2>4. mm \in Message /\ mm.kind = "retry" /\ mm.of = r.of /\ [mm EXCEPT !.kind = "seed"] = r
      BY <2>2, <2>3, CopyAndBack
    <2>5. mm = m
      BY <2>1, <2>3, Zenon
    <2> QED
      BY <2>1, <2>2, <2>4, <2>5, Zenon
  <1> HIDE DEF m
  <1>9. PICK u : Counts(u, afters, n)
    BY <1>2, <1>3, <1>6, <1>7, CountsExist
  <1>10. Built(list, ms, m, afters, u)
    <2>1. Len(afters) \in Nat /\ DOMAIN afters = 1 .. Len(afters)
      BY <1>3, <1>6
    <2> QED
      BY <1>7, <1>8, <1>9, <2>1, BuiltList DEF Seeds
  <1> HIDE DEF list
  <1>11. /\ list \in Seq(Message) /\ Len(list) = n + count /\ DOMAIN list = 1 .. n + count
         /\ \A k \in 1 .. n : list[Home(u, k)] = ms[k]
         /\ \A i \in 1 .. count : list[afters[i] + i] = m
    <2>1. list \in Seq(Message) /\ Len(list) = n + count
      BY <1>6, <1>10 DEF Built
    <2>2. DOMAIN list = 1 .. n + count
      BY <2>1, Lengths
    <2> QED
      BY <1>6, <1>10, <2>1, <2>2 DEF Built
  <1>12. ASSUME NEW i \in 1 .. count
         PROVE  /\ IsRetry(ins[i], n, source, afters[i], afters[i] + i)
                /\ afters[i] \in 1 .. n /\ afters[i] + i \in 1 .. n + count
    <2>1. Placed(afters, i) = afters[i] + i
      BY <1>2, <1>3, <1>6, <1>7, PlacedBehind
    <2>2. afters[i] \in 1 .. n
      BY <1>5
    <2>3. afters[i] + i \in 1 .. n + count
      BY <1>2, <1>3, <2>2
    <2>4. PICK a, b : a = afters[i] /\ b = afters[i] + i
      OBVIOUS
    <2>5. ins[i] = [kind |-> "retry", base |-> n, source |-> source, after |-> a, slot |-> b]
      BY <2>1, <2>4, Zenon
    <2> HIDE DEF ins
    <2>6. PICK x : x = ins[i]
      OBVIOUS
    <2>7. IsRetry(x, n, source, a, b)
      <3>1. n \in Nat /\ source \in Nat /\ a \in Nat /\ b \in Nat
        BY <1>2, <1>4, <2>2, <2>3, <2>4
      <3> QED
        BY <2>5, <2>6, <3>1 DEF IsRetry, Insertion
    <2> QED
      BY <2>2, <2>3, <2>4, <2>6, <2>7, Zenon
  <1>13. ins \in Seq(Insertion) /\ Len(ins) = count
    <2>1. ASSUME NEW i \in 1 .. count PROVE ins[i] \in Insertion
      <3> HIDE DEF ins
      <3> QED
        BY <1>12 DEF IsRetry
    <2>2. ins = [i \in 1 .. count |-> ins[i]]
      OBVIOUS
    <2> HIDE DEF ins
    <2>3. ins \in [1 .. count -> Insertion]
      BY <2>1, <2>2
    <2> QED
      BY <1>3, <2>3, FunctionIsSeq
  <1> HIDE DEF ins
  <1>14. ASSUME NEW k \in 1 .. n + count, list[k].kind # "seed"
         PROVE  \E i \in 1 .. count : k = afters[i] + i
    <2>1. ASSUME NEW l \in 1 .. n PROVE k # Home(u, l)
      BY <1>11, <1>14, <2>1 DEF Seeds
    <2> QED
      BY <1>2, <1>3, <1>6, <1>7, <1>9, <2>1, HomeOrSlot DEF AtHomeOrSlot
  <1>15. Follows(list)
    <2>1. ASSUME NEW k \in 1 .. n + count, list[k].kind = "retry"
          PROVE  /\ list[k] = m
                 /\ \E j \in 1 .. k - 1 : list[j] = [list[k] EXCEPT !.kind = "seed"]
      <3>1. PICK i \in 1 .. count : k = afters[i] + i
        BY <1>14, <2>1
      <3>2. list[k] = m
        BY <1>11, <3>1
      <3>3. Home(u, source) \in 1 .. n + count /\ Home(u, source) < k
        <4>1. Home(u, source) \in source .. n + Len(afters)
              /\ IF source <= afters[i] THEN Home(u, source) < afters[i] + i
                 ELSE Home(u, source) > afters[i] + i
          <5>1. n \in Nat /\ Len(afters) = count /\ Len(afters) \in Nat
            BY <1>2, <1>3, <1>6
          <5>2. /\ Home(u, source) \in source .. n + Len(afters)
                /\ \A o \in 1 .. Len(afters) :
                      IF source <= afters[o] THEN Home(u, source) < afters[o] + o
                      ELSE Home(u, source) > afters[o] + o
            BY <1>4, <1>7, <1>9, <5>1, HomesRise, Zenon
          <5> QED
            BY <5>1, <5>2, Zenon
        <4>2. afters[i] >= source
          BY <1>5
        <4> QED
          BY <1>2, <1>3, <1>4, <1>5, <1>6, <3>1, <4>1, <4>2
      <3>4. list[Home(u, source)] = [m EXCEPT !.kind = "seed"]
        BY <1>4, <1>8, <1>11, Zenon
      <3>5. Home(u, source) \in 1 .. k - 1
        BY <1>2, <1>3, <3>3
      <3> QED
        BY <3>2, <3>4, <3>5, Zenon
    <2>2. \A k, r \in 1 .. n + count :
             list[k].kind = "retry" /\ list[r].kind = "retry" => list[r].of = list[k].of
      BY <2>1
    <2> QED
      BY <1>11, <2>1, <2>2, Zenon DEF Follows
  <1>16. /\ p.messages = list /\ p.insertions = ins /\ p.delays = << >> /\ p.hybrid = FALSE
         /\ p.cross = cross /\ p.retry_class = ms[source].class /\ p \in PlanType
    <2>1. << >> \in Seq(Nat) /\ cross \in BOOLEAN /\ ms[source].class \in Class
      BY <1>8 DEF Message
    <2> HIDE DEF cross
    <2>2. p = PlanOf(list, ins, << >>, FALSE, cross, ms[source].class)
      <3>1. PICK p0 : p0 = NoPlan(ms)
        OBVIOUS
      <3>2. p0 = PlanOf(ms, << >>, << >>, FALSE, FALSE, NoClass)
        BY <3>1 DEF NoPlan, PlanOf
      <3>3. PICK p1 : p1 = [p0 EXCEPT !.messages = list]
        OBVIOUS
      <3>4. p1 = PlanOf(list, << >>, << >>, FALSE, FALSE, NoClass)
        BY <3>2, <3>3 DEF PlanOf
      <3>5. PICK p2 : p2 = [p1 EXCEPT !.insertions = ins]
        OBVIOUS
      <3>6. p2 = PlanOf(list, ins, << >>, FALSE, FALSE, NoClass)
        BY <3>4, <3>5 DEF PlanOf
      <3>7. PICK x, class, no : x = cross /\ class = ms[source].class /\ no = FALSE
        OBVIOUS
      <3>8. PICK p3 : p3 = [p2 EXCEPT !.cross = x]
        OBVIOUS
      <3>9. p3 = PlanOf(list, ins, << >>, no, x, NoClass)
        BY <3>6, <3>7, <3>8 DEF PlanOf
      <3>10. [p3 EXCEPT !.retry_class = class] = PlanOf(list, ins, << >>, no, x, class)
        BY <3>9, OtherClass
      <3> QED
        BY <3>1, <3>3, <3>5, <3>7, <3>8, <3>10, Zenon
    <2> HIDE DEF p
    <2>3. /\ p.messages = list /\ p.insertions = ins /\ p.delays = << >> /\ p.hybrid = FALSE
          /\ p.cross = cross /\ p.retry_class = ms[source].class
      BY <2>2 DEF PlanOf
    <2>4. p \in PlanType
      BY <1>11, <1>13, <2>1, <2>2 DEF PlanType, PlanOf
    <2> QED
      BY <2>3, <2>4
  <1> HIDE DEF p
  <1>17. Recorded(p)
    <2>1. Len(p.messages) > 1
      BY <1>2, <1>3, <1>11, <1>16
    <2>2. ASSUME NEW i \in 1 .. Len(p.insertions)
          PROVE  Inside(p.insertions[i], Len(p.messages))
      <3>1. i \in 1 .. count /\ p.insertions[i] = ins[i] /\ Len(p.messages) = n + count
        BY <1>11, <1>13, <1>16, <2>2
      <3>2. PICK x : x = ins[i]
        OBVIOUS
      <3>3. x.base = n /\ x.source = source /\ x.after = afters[i] /\ x.slot = afters[i] + i
        BY <1>12, <3>1, <3>2 DEF IsRetry
      <3>4. Inside(x, n + count)
        BY <1>2, <1>3, <1>4, <1>5, <1>12, <3>1, <3>3 DEF Inside
      <3> QED
        BY <3>1, <3>2, <3>4
    <2>3. p.cross <=> \E i \in 1 .. Len(p.insertions) :
                          p.insertions[i].kind = "retry"
                          /\ p.insertions[i].after > p.insertions[i].source
      <3>1. \A i \in 1 .. count : /\ ins[i].kind = "retry" /\ ins[i].after = afters[i]
                                  /\ ins[i].source = source
        BY <1>12 DEF IsRetry
      <3>2. cross <=> \E i \in 1 .. count : ins[i].kind = "retry" /\ ins[i].after > ins[i].source
        BY <3>1, Zenon
      <3> QED
        BY <1>13, <1>16, <3>2, Zenon
    <2> QED
      BY <2>1, <2>2, <2>3 DEF Recorded
  <1>18. InPlace(p)
    <2>1. \A i \in 1 .. count : list[ins[i].slot].kind = ins[i].kind
      <3>1. \A i \in 1 .. count : ins[i].slot = afters[i] + i /\ ins[i].kind = "retry"
        BY <1>12 DEF IsRetry
      <3> QED
        BY <1>8, <1>11, <3>1
    <2>2. \A k \in 1 .. n + count : list[k].kind # "seed" =>
             \E i \in 1 .. count : ins[i].slot = k
      <3>1. \A i \in 1 .. count : ins[i].slot = afters[i] + i
        BY <1>12 DEF IsRetry
      <3> QED
        BY <1>14, <3>1
    <2>3. ASSUME NEW i \in 1 .. count, NEW j \in 1 .. i - 1 PROVE ins[j].slot < ins[i].slot
      <3>1. j \in 1 .. count
        BY <1>3
      <3>2. ins[j].slot = afters[j] + j /\ ins[i].slot = afters[i] + i
        BY <1>12, <3>1 DEF IsRetry
      <3>3. afters[j] <= afters[i] /\ afters[j] \in Int /\ afters[i] \in Int
        <4>1. j \in 1 .. i
          BY <1>3
        <4> QED
          BY <1>5, <1>6, <1>7, <3>1, <4>1 DEF Rising
      <3> QED
        BY <1>3, <3>2, <3>3
    <2> QED
      BY <1>11, <1>13, <1>16, <2>1, <2>2, <2>3, Zenon DEF InPlace
  <1>19. p.messages # << >>
    BY <1>2, <1>3, <1>11, <1>16
  <1>20. Unsent(p)
    BY <1>3, <1>13, <1>15, <1>16, <1>17, <1>18, <1>19 DEF Unsent, BIZONE_MAX_INSERTIONS
  <1>21. Pure(p)
    BY <1>3, <1>13, <1>16, <1>20 DEF Pure, BIZONE_MAX_INSERTIONS
  <1> QED
    BY <1>1, <1>21, Zenon

(***************************************************************************)
(* apply_keepalive_insertion, of a plan with retries or without.           *)
(***************************************************************************)
LEMMA KeepalivePlan ==
    ASSUME NEW c, NEW h, NEW p, Pure(p)
    PROVE  Unsent(apply_keepalive_insertion(c, h, p))
  <1> DEFINE ms == p.messages
             n == Len(ms)
             slot == choose_keepalive_slot(c, h, ms)
             behind == choose_keepalive_insert_after_slot(h, ms)
             retried == p.insertions # << >>
             after == IF slot = 0 \/ retried THEN behind ELSE Max({slot, Min({n, n \div 2 + 1})})
             copy == IF slot = 0 THEN [class |-> NoClass, of |-> 0, kind |-> "keepalive"]
                     ELSE [ms[slot] EXCEPT !.kind = "keepalive"]
             afters == <<after>>
             list == build_injected_messages(ms, copy, afters)
             source == IF slot = 0 THEN after ELSE slot
             new == [kind |-> "keepalive", base |-> n, source |-> source, after |-> after,
                     slot |-> after + 1]
             ins == Append(p.insertions, new)
             q == [p EXCEPT !.messages = list, !.insertions = Append(@, new), !.hybrid = retried]
  <1>1. apply_keepalive_insertion(c, h, p) = IF slot = 0 /\ ~Synthesizes(c, ms) THEN p ELSE q
    BY Zenon DEF apply_keepalive_insertion
  <1>2. /\ p \in PlanType /\ ms # << >> /\ p.delays = << >> /\ p.hybrid = FALSE
        /\ Len(p.insertions) < 4
        /\ Follows(ms) /\ Recorded(p) /\ InPlace(p)
    BY DEF Pure, Unsent, PlanType, BIZONE_MAX_INSERTIONS
  <1>3. /\ ms \in Seq(Message) /\ p.insertions \in Seq(Insertion) /\ p.cross \in BOOLEAN
        /\ p.retry_class \in Class
    BY <1>2 DEF PlanType
  <1>4. n \in Nat \ {0} /\ DOMAIN ms = 1 .. n /\ \A k \in 1 .. n : ms[k] \in Message
    BY <1>2, <1>3, Lengths, ElementOfSeq
  <1>5. slot \in 0 .. n /\ behind \in 1 .. n
    BY <1>4, KeepaliveIsPlace
  <1> HIDE DEF slot, behind
  <1>6. after \in 1 .. n
    <2>1. PICK x : x = Min({n, n \div 2 + 1})
      OBVIOUS
    <2>2. x \in 1 .. n
      <3>1. PICK k : k = n
        OBVIOUS
      <3>2. k \div 2 + 1 \in 1 .. k + 1
        <4>1. k \in Nat
          BY <1>4, <3>1
        <4> QED
          BY <4>1
      <3>3. PICK d \in Int : d = k \div 2 + 1
        BY <3>2
      <3>4. x = Min({k, d})
        BY <2>1, <3>1, <3>3, Zenon
      <3>5. Min({k, d}) = IF k <= d THEN k ELSE d
        BY <1>4, <3>1, LesserOfTwo
      <3>6. k \in Nat \ {0}
        BY <1>4, <3>1
      <3>7. x \in 1 .. k
        BY <3>2, <3>3, <3>4, <3>5, <3>6
      <3> QED
        BY <3>1, <3>7, Zenon
    <2>3. Max({slot, x}) = IF slot >= x THEN slot ELSE x
      BY <1>5, <2>2, GreaterOfTwo
    <2>4. Max({slot, x}) \in 1 .. n
      BY <1>4, <1>5, <2>2, <2>3
    <2> QED
      BY <1>5, <2>1, <2>4, Zenon
  <1> HIDE DEF after
  <1>7. copy \in Message /\ copy.kind = "keepalive"
    <2>1. CASE slot = 0
      <3>1. NoClass \in Class
        BY DEF Class
      <3>2. PICK r : r = [class |-> NoClass, of |-> 0, kind |-> "keepalive"]
        OBVIOUS
      <3>3. r \in Message /\ r.kind = "keepalive"
        BY <3>1, <3>2 DEF Message
      <3> QED
        BY <2>1, <3>2, <3>3, Zenon
    <2>2. CASE slot # 0
      <3>1. PICK r : r = ms[slot]
        OBVIOUS
      <3>2. r \in Message
        BY <1>4, <1>5, <2>2, <3>1
      <3>3. PICK m : m = [r EXCEPT !.kind = "keepalive"]
        OBVIOUS
      <3>4. m \in Message /\ m.kind = "keepalive"
        BY <3>2, <3>3 DEF Message
      <3> QED
        BY <2>2, <3>1, <3>3, <3>4, Zenon
    <2> QED
      BY <2>1, <2>2
  <1> HIDE DEF copy
  <1>8. Len(afters) = 1 /\ DOMAIN afters = 1 .. 1 /\ afters[1] = after /\ Rising(afters, n)
    <2>1. Len(afters) = 1 /\ DOMAIN afters = 1 .. 1 /\ afters[1] = after
      OBVIOUS
    <2> HIDE DEF afters
    <2> QED
      BY <1>6, <2>1 DEF Rising
  <1> HIDE DEF afters
  <1>9. PICK u : Counts(u, afters, n)
    BY <1>4, <1>8, CountsExist
  <1>10. Built(list, ms, copy, afters, u)
    <2>1. Len(afters) \in Nat /\ DOMAIN afters = 1 .. Len(afters)
      BY <1>8
    <2> QED
      BY <1>2, <1>3, <1>7, <1>8, <1>9, <2>1, BuiltList
  <1> HIDE DEF list
  <1>11. /\ list \in Seq(Message) /\ Len(list) = n + 1 /\ DOMAIN list = 1 .. n + 1
         /\ \A k \in 1 .. n : list[Home(u, k)] = ms[k]
         /\ list[after + 1] = copy
    <2>1. list \in Seq(Message) /\ Len(list) = n + 1
      BY <1>8, <1>10 DEF Built
    <2>2. DOMAIN list = 1 .. n + 1
      BY <2>1, Lengths
    <2> QED
      BY <1>8, <1>10, <2>1, <2>2 DEF Built
  <1>12. ASSUME NEW k \in 1 .. n + 1, k # after + 1
         PROVE  \E l \in 1 .. n : k = Home(u, l)
    <2>1. \/ \E l \in 1 .. n : k = Home(u, l)
          \/ \E i \in 1 .. Len(afters) : k = afters[i] + i
      <3>1. n \in Nat \ {0} /\ Len(afters) \in Nat /\ k \in 1 .. n + Len(afters)
        BY <1>4, <1>8
      <3>2. AtHomeOrSlot(k, u, afters, n)
        BY <1>8, <1>9, <3>1, HomeOrSlot
      <3> QED
        BY <3>2 DEF AtHomeOrSlot
    <2> QED
      BY <1>8, <1>12, <2>1
  <1>13. ASSUME NEW k \in 1 .. n
         PROVE  Home(u, k) \in 1 .. n + 1 /\ \A l \in 1 .. k - 1 : Home(u, l) < Home(u, k)
    <2>1. /\ Home(u, k) \in k .. n + Len(afters)
          /\ \A l \in 1 .. k - 1 : Home(u, l) < Home(u, k)
      BY <1>4, <1>8, <1>9, HomesRise
    <2> QED
      BY <1>4, <1>8, <2>1
  <1>14. Follows(list)
    <2>1. ASSUME NEW k \in 1 .. n + 1, list[k].kind = "retry"
          PROVE  /\ \E j \in 1 .. k - 1 : list[j] = [list[k] EXCEPT !.kind = "seed"]
                 /\ \E l \in 1 .. n : k = Home(u, l) /\ ms[l].kind = "retry" /\ list[k] = ms[l]
      <3>1. k # after + 1
        BY <1>7, <1>11, <2>1
      <3>2. PICK l \in 1 .. n : k = Home(u, l)
        BY <1>12, <3>1
      <3>3. list[k] = ms[l] /\ ms[l].kind = "retry"
        BY <1>11, <2>1, <3>2
      <3>4. PICK j \in 1 .. l - 1 : ms[j] = [ms[l] EXCEPT !.kind = "seed"]
        BY <1>2, <1>4, <3>3, Zenon DEF Follows
      <3>5. j \in 1 .. n /\ Home(u, j) < k
        BY <1>4, <1>13, <3>2
      <3>6. Home(u, j) \in 1 .. k - 1
        BY <1>4, <1>13, <3>5
      <3>7. list[Home(u, j)] = [list[k] EXCEPT !.kind = "seed"]
        BY <1>11, <3>3, <3>4, <3>5, Zenon
      <3> QED
        BY <3>2, <3>3, <3>6, <3>7, Zenon
    <2>2. ASSUME NEW k \in 1 .. n + 1, NEW r \in 1 .. n + 1,
                 list[k].kind = "retry", list[r].kind = "retry"
          PROVE  list[r].of = list[k].of
      <3>1. PICK l \in 1 .. n : ms[l].kind = "retry" /\ list[k] = ms[l]
        BY <2>1, <2>2
      <3>2. PICK o \in 1 .. n : ms[o].kind = "retry" /\ list[r] = ms[o]
        BY <2>1, <2>2
      <3>3. ms[o].of = ms[l].of
        BY <1>2, <1>4, <3>1, <3>2, Zenon DEF Follows
      <3> QED
        BY <3>1, <3>2, <3>3
    <2> QED
      BY <1>11, <2>1, <2>2, Zenon DEF Follows
  <1>15. /\ new \in Insertion /\ new.kind = "keepalive" /\ new.slot = after + 1
         /\ Inside(new, n + 1)
    <2>1. source \in 1 .. n
      BY <1>5, <1>6
    <2>2. PICK s : s = source
      OBVIOUS
    <2>3. PICK x : x = [kind |-> "keepalive", base |-> n, source |-> s, after |-> after,
                        slot |-> after + 1]
      OBVIOUS
    <2>4. x \in Insertion /\ x.kind = "keepalive" /\ x.slot = after + 1
      BY <1>4, <1>6, <2>1, <2>2, <2>3 DEF Insertion
    <2>5. x.base = n /\ x.source = s /\ x.after = after
      BY <2>3
    <2>6. Inside(x, n + 1)
      BY <1>4, <1>6, <2>1, <2>2, <2>4, <2>5 DEF Inside
    <2>7. x = new
      BY <2>2, <2>3, Zenon
    <2> QED
      BY <2>4, <2>6, <2>7, Zenon
  <1> HIDE DEF new
  <1>16. /\ ins \in Seq(Insertion) /\ Len(ins) = Len(p.insertions) + 1
         /\ \A i \in 1 .. Len(p.insertions) : ins[i] = p.insertions[i]
         /\ ins[Len(p.insertions) + 1] = new
         /\ Len(p.insertions) \in Nat
    <2>1. Len(p.insertions) \in Nat
      BY <1>3, Lengths
    <2> QED
      BY <1>3, <1>15, <2>1, AppendProperties
  <1>17. q = PlanOf(list, ins, << >>, retried, p.cross, p.retry_class)
    <2>1. PICK cross, class, old, more, built, no :
              /\ no = FALSE /\ cross = p.cross /\ class = p.retry_class /\ old = p.insertions
              /\ more = Append(p.insertions, new) /\ built = list
      OBVIOUS
    <2>2. p = PlanOf(ms, old, << >>, no, cross, class)
      BY <1>2, <2>1, PlanIsParts
    <2>3. PICK p1 : p1 = [p EXCEPT !.messages = built]
      OBVIOUS
    <2>4. p1 = PlanOf(built, old, << >>, no, cross, class)
      BY <2>2, <2>3, OtherMessages
    <2>5. PICK p2 : p2 = [p1 EXCEPT !.insertions = more]
      OBVIOUS
    <2>6. p2 = PlanOf(built, more, << >>, no, cross, class)
      BY <2>4, <2>5 DEF PlanOf
    <2>7. PICK r : r = retried
      OBVIOUS
    <2>8. [p2 EXCEPT !.hybrid = r] = PlanOf(built, more, << >>, r, cross, class)
      BY <2>6 DEF PlanOf
    <2>9. q = [p2 EXCEPT !.hybrid = r]
      BY <2>1, <2>3, <2>5, <2>7, Zenon
    <2> QED
      BY <2>1, <2>7, <2>8, <2>9, Zenon
  <1>18. PICK r : r = retried
    OBVIOUS
  <1> HIDE DEF q, ins
  <1>19. /\ q.messages = list /\ q.insertions = ins /\ q.delays = << >> /\ q.hybrid = r
         /\ q.cross = p.cross /\ q.retry_class = p.retry_class /\ q \in PlanType
    <2>1. r \in BOOLEAN /\ << >> \in Seq(Nat)
      BY <1>18
    <2> QED
      BY <1>3, <1>11, <1>16, <1>17, <1>18, <2>1 DEF PlanOf, PlanType
  <1>20. Recorded(q)
    <2>1. ASSUME NEW i \in 1 .. Len(ins) PROVE Inside(ins[i], n + 1)
      <3>1. CASE i \in 1 .. Len(p.insertions)
        <4>1. Inside(p.insertions[i], n)
          BY <1>2, <3>1, Zenon DEF Recorded
        <4>2. PICK x : x = ins[i]
          OBVIOUS
        <4>3. Inside(x, n)
          BY <1>16, <3>1, <4>1, <4>2, Zenon
        <4>4. x \in Insertion
          BY <1>16, <4>2, ElementOfSeq
        <4>5. Inside(x, n + 1)
          BY <1>4, <4>3, <4>4 DEF Inside, Insertion
        <4> QED
          BY <4>2, <4>5
      <3>2. CASE i = Len(p.insertions) + 1
        BY <1>15, <1>16, <3>2, Zenon
      <3> QED
        BY <1>16, <3>1, <3>2
    <2>2. (\E i \in 1 .. Len(ins) : ins[i].kind = "retry" /\ ins[i].after > ins[i].source) <=>
          (\E i \in 1 .. Len(p.insertions) :
              p.insertions[i].kind = "retry" /\ p.insertions[i].after > p.insertions[i].source)
      <3>1. ASSUME NEW i \in 1 .. Len(ins), ins[i].kind = "retry"
            PROVE  i \in 1 .. Len(p.insertions) /\ ins[i] = p.insertions[i]
        <4>1. i # Len(p.insertions) + 1
          BY <1>15, <1>16, <3>1
        <4> QED
          BY <1>16, <4>1
      <3>2. ASSUME NEW i \in 1 .. Len(p.insertions)
            PROVE  i \in 1 .. Len(ins) /\ ins[i] = p.insertions[i]
        BY <1>16
      <3> QED
        BY <3>1, <3>2, Zenon
    <2>3. Len(list) > 1
      BY <1>4, <1>11
    <2>4. p.cross <=> \E i \in 1 .. Len(p.insertions) :
              p.insertions[i].kind = "retry" /\ p.insertions[i].after > p.insertions[i].source
      BY <1>2 DEF Recorded
    <2> QED
      BY <1>11, <1>19, <2>1, <2>2, <2>3, <2>4, Zenon DEF Recorded
  <1>21. ASSUME ~q.hybrid PROVE InPlace(q)
    <2>1. Len(p.insertions) = 0
      BY <1>18, <1>19, <1>21, <1>3, Lengths
    <2>2. \A k \in 1 .. n : ms[k].kind = "seed"
      BY <1>2, <2>1 DEF InPlace
    <2>3. Len(ins) = 1 /\ ins[1] = new
      BY <1>16, <2>1
    <2>4. list[ins[1].slot].kind = ins[1].kind
      BY <1>7, <1>11, <1>15, <2>3
    <2>5. ASSUME NEW k \in 1 .. n + 1, list[k].kind # "seed" PROVE ins[1].slot = k
      <3>1. CASE k = after + 1
        BY <1>15, <2>3, <3>1
      <3>2. CASE k # after + 1
        BY <1>11, <1>12, <2>2, <2>5, <3>2
      <3> QED
        BY <3>1, <3>2
    <2> QED
      BY <1>11, <1>19, <2>3, <2>4, <2>5 DEF InPlace
  <1>22. Unsent(q)
    <2>1. q.messages # << >>
      BY <1>4, <1>11, <1>19
    <2>2. Len(q.insertions) <= BIZONE_MAX_INSERTIONS
      BY <1>2, <1>16, <1>19 DEF BIZONE_MAX_INSERTIONS
    <2> QED
      BY <1>14, <1>19, <1>20, <1>21, <2>1, <2>2 DEF Unsent
  <1> QED
    BY <1>1, <1>22, Zenon DEF Pure

-----------------------------------------------------------------------------
(***************************************************************************)
(* Delays: each is positive and within the timeout, and timers grow.       *)
(***************************************************************************)
Waits(c) == c.exec_tmout \in Nat \ 0 .. 4 /\ c.poll_wait_msecs \in Nat

Fits(c, d) ==
    d \in Nat /\ d <= c.exec_tmout /\ (c.exec_tmout > 250 => d < c.exec_tmout)

LEMMA ClampFits ==
    ASSUME NEW c, Waits(c), NEW requested \in Int, NEW fallback \in Nat
    PROVE  Fits(c, clamp_delay_ms(c, requested, fallback))
           /\ clamp_delay_ms(c, requested, fallback) > 0
  <1>1. PICK e \in Nat \ 0 .. 4 : e = c.exec_tmout
    BY DEF Waits
  <1>2. PICK half \in Nat : half = e \div 2 /\ half < e
    <2>1. e \div 2 \in Nat /\ e \div 2 < e
      OBVIOUS
    <2> QED
      BY <2>1
  <1>3. PICK cap0 : cap0 = Min({half, 250})
    OBVIOUS
  <1>4. cap0 \in Nat /\ cap0 < e /\ cap0 <= 250
    <2>1. Min({half, 250}) = IF half <= 250 THEN half ELSE 250
      BY LesserOfTwo
    <2> QED
      BY <1>2, <1>3, <2>1
  <1>5. PICK cap : cap = Max({4, cap0})
    OBVIOUS
  <1>6. cap \in Nat /\ cap >= 4 /\ cap < e
    <2>1. Max({4, cap0}) = IF 4 >= cap0 THEN 4 ELSE cap0
      BY <1>4, GreaterOfTwo
    <2> QED
      BY <1>1, <1>4, <1>5, <2>1
  <1>7. PICK low : low = Min({fallback, cap})
    OBVIOUS
  <1>8. low \in Nat /\ low <= cap
    <2>1. Min({fallback, cap}) = IF fallback <= cap THEN fallback ELSE cap
      BY <1>6, LesserOfTwo
    <2> QED
      BY <1>6, <1>7, <2>1
  <1>9. Max({1, low}) \in 1 .. cap
    <2>1. Max({1, low}) = IF 1 >= low THEN 1 ELSE low
      BY <1>8, GreaterOfTwo
    <2> QED
      BY <1>6, <1>8, <2>1
  <1>10. ASSUME requested # 0
         PROVE  Min({cap, IF requested < 0 THEN -requested ELSE requested}) \in 1 .. cap
    <2>1. PICK a \in Int : a = (IF requested < 0 THEN -requested ELSE requested) /\ a >= 1
      BY <1>10
    <2>2. Min({cap, a}) = IF cap <= a THEN cap ELSE a
      BY <1>6, LesserOfTwo
    <2>3. Min({cap, a}) \in 1 .. cap
      BY <1>6, <2>1, <2>2
    <2> QED
      BY <2>1, <2>3, Zenon
  <1>11. clamp_delay_ms(c, requested, fallback) =
            IF requested = 0 THEN Max({1, low})
            ELSE Min({cap, IF requested < 0 THEN -requested ELSE requested})
    BY <1>1, <1>2, <1>3, <1>5, <1>7, Zenon DEF clamp_delay_ms
  <1>12. PICK d : d = clamp_delay_ms(c, requested, fallback)
    OBVIOUS
  <1>13. d \in 1 .. cap
    BY <1>9, <1>10, <1>11, <1>12, Zenon
  <1> QED
    BY <1>1, <1>6, <1>12, <1>13 DEF Fits

LEMMA BackoffIs ==
    ASSUME NEW c, Waits(c), NEW first \in {500, 1000}, NEW i \in 0 .. 3
    PROVE  /\ Fits(c, backoff(c, first, i)) /\ backoff(c, first, i) > 0
           /\ \A j \in 0 .. i : backoff(c, first, j) <= backoff(c, first, i)
  <1> DEFINE most == IF c.exec_tmout > 250 THEN c.exec_tmout - 250 ELSE c.exec_tmout
  <1>1. PICK e \in Nat \ 0 .. 4 : e = c.exec_tmout
    BY DEF Waits
  <1>2. most \in Nat /\ most > 0
    BY <1>1
  <1>3. ASSUME NEW j \in 0 .. 3
        PROVE  /\ Doubled(first, j) \in Nat /\ Doubled(first, j) > 0
               /\ \A k \in 0 .. j : Doubled(first, k) <= Doubled(first, j)
    <2>1. /\ Doubled(first, 0) = first * 1 /\ Doubled(first, 1) = first * 2
          /\ Doubled(first, 2) = first * 4 /\ Doubled(first, 3) = first * 8
      BY DEF Doubled
    <2>2. j \in {0, 1, 2, 3}
      OBVIOUS
    <2>3. first \in Nat /\ first > 0
      OBVIOUS
    <2>4. ASSUME NEW k \in 0 .. j PROVE k \in {0, 1, 2, 3} /\ k <= j
      OBVIOUS
    <2> QED
      BY <2>1, <2>2, <2>3, <2>4
  <1>4. ASSUME NEW j \in 0 .. 3
        PROVE  backoff(c, first, j) = IF Doubled(first, j) <= most THEN Doubled(first, j) ELSE most
    <2>1. PICK d, m : d = Doubled(first, j) /\ m = most
      OBVIOUS
    <2>2. d \in Int /\ m \in Int
      BY <1>2, <1>3, <2>1
    <2>3. Min({d, m}) = IF d <= m THEN d ELSE m
      BY <2>2, LesserOfTwo
    <2>4. backoff(c, first, j) = Min({Doubled(first, j), most})
      BY DEF backoff
    <2> HIDE DEF most
    <2>5. backoff(c, first, j) = IF d <= m THEN d ELSE m
      BY <2>1, <2>3, <2>4
    <2> QED
      BY <2>1, <2>5
  <1>5. PICK m : m = most
    OBVIOUS
  <1>6. m \in Nat /\ m > 0 /\ m <= e /\ (e > 250 => m < e)
    BY <1>1, <1>5
  <1> HIDE DEF most
  <1>7. \A j \in 0 .. i : j \in 0 .. 3
    OBVIOUS
  <1>8. \A j \in 0 .. i : backoff(c, first, j) <= backoff(c, first, i)
    <2>1. ASSUME NEW j \in 0 .. i PROVE backoff(c, first, j) <= backoff(c, first, i)
      <3>1. PICK a, b : a = Doubled(first, j) /\ b = Doubled(first, i)
        OBVIOUS
      <3>2. a \in Nat /\ b \in Nat /\ a <= b
        BY <1>3, <1>7, <3>1
      <3>3. /\ backoff(c, first, j) = IF a <= m THEN a ELSE m
            /\ backoff(c, first, i) = IF b <= m THEN b ELSE m
        BY <1>4, <1>5, <1>7, <3>1
      <3> QED
        BY <1>6, <3>2, <3>3
    <2> QED
      BY <2>1
  <1>9. Fits(c, backoff(c, first, i)) /\ backoff(c, first, i) > 0
    <2>1. PICK b : b = Doubled(first, i)
      OBVIOUS
    <2>2. b \in Nat /\ b > 0
      BY <1>3, <2>1
    <2>3. PICK d : d = backoff(c, first, i)
      OBVIOUS
    <2>4. d = IF b <= m THEN b ELSE m
      BY <1>4, <1>5, <2>1, <2>3
    <2> QED
      BY <1>1, <1>6, <2>2, <2>3, <2>4 DEF Fits
  <1> QED
    BY <1>8, <1>9

\* How a retransmission timer starts; 0 where there is none.
TimerStart(c, p) ==
    IF c.protocol = "dtls12" THEN 1000
    ELSE IF c.protocol = "sip" /\ p.retry_class = "invite" THEN 500 ELSE 0

LEMMA StepFits ==
    ASSUME NEW c, Waits(c), NEW h, h.gap \in Int, NEW p, NEW i \in 0 .. 3
    PROVE  /\ Fits(c, step_delay_ms(c, h, p, i)) /\ step_delay_ms(c, h, p, i) > 0
           /\ (p.insertions[i + 1].kind = "retry" /\ TimerStart(c, p) # 0) =>
                 step_delay_ms(c, h, p, i) = backoff(c, TimerStart(c, p), i)
  <1> DEFINE wait == IF c.poll_wait_msecs = 0 THEN 4 ELSE c.poll_wait_msecs
             delay == clamp_delay_ms(c, h.gap, wait)
             scaled == IF h.gap > 0 THEN delay * (i + 1) ELSE i + 1
             later == clamp_delay_ms(c, scaled, delay)
             retry == p.insertions[i + 1].kind = "retry"
  <1>1. wait \in Nat
    BY DEF Waits
  <1> HIDE DEF wait
  <1>2. Fits(c, delay) /\ delay > 0
    BY <1>1, ClampFits
  <1> HIDE DEF delay
  <1>3. delay \in Nat
    BY <1>2 DEF Fits
  <1>4. scaled \in Int
    <2>1. i \in {0, 1, 2, 3}
      OBVIOUS
    <2>2. delay * (i + 1) \in Int
      BY <1>3, <2>1
    <2> QED
      BY <2>2
  <1> HIDE DEF scaled
  <1>5. Fits(c, later) /\ later > 0
    BY <1>3, <1>4, ClampFits
  <1> HIDE DEF later
  <1>6. step_delay_ms(c, h, p, i) =
            IF retry /\ c.protocol = "dtls12" THEN backoff(c, 1000, i)
            ELSE IF retry /\ c.protocol = "sip" /\ p.retry_class = "invite" THEN backoff(c, 500, i)
            ELSE IF i = 0 THEN delay ELSE later
    BY Zenon DEF step_delay_ms, later, scaled, delay, wait
  <1>7. /\ Fits(c, backoff(c, 1000, i)) /\ backoff(c, 1000, i) > 0
        /\ Fits(c, backoff(c, 500, i)) /\ backoff(c, 500, i) > 0
    BY BackoffIs
  <1>8. Fits(c, step_delay_ms(c, h, p, i)) /\ step_delay_ms(c, h, p, i) > 0
    BY <1>2, <1>5, <1>6, <1>7
  <1>9. ASSUME retry, TimerStart(c, p) # 0
        PROVE  step_delay_ms(c, h, p, i) = backoff(c, TimerStart(c, p), i)
    BY <1>6, <1>9 DEF TimerStart
  <1> QED
    BY <1>8, <1>9

(***************************************************************************)
(* A plan as it is followed.                                               *)
(***************************************************************************)
Audited(p) ==
    /\ Recorded(p)
    /\ p.insertions # << >> => Len(p.delays) = Len(p.messages)
    /\ \A i \in 1 .. Len(p.insertions) : p.delays[p.insertions[i].slot] > 0

Told(p) ==
    ~p.hybrid =>
        /\ InPlace(p)
        /\ p.insertions # << >> =>
              \A k \in 1 .. Len(p.messages) : p.delays[k] > 0 => p.messages[k].kind # "seed"

BacksOff(c, p) ==
    \A k \in DOMAIN p.delays :
        /\ Fits(c, p.delays[k])
        /\ (~p.hybrid /\ p.messages[k].kind = "retry" /\ TimerStart(c, p) # 0) =>
              \A j \in 1 .. k - 1 : p.messages[j].kind = "retry" => p.delays[j] <= p.delays[k]

Ready(c, p) ==
    /\ p.messages \in Seq(Message) /\ p.insertions \in Seq(Insertion) /\ p.retry_class \in Class
    /\ Follows(p.messages) /\ Audited(p) /\ Told(p) /\ BacksOff(c, p)

\* The plan with delays.
LEMMA WithThese ==
    ASSUME NEW p \in PlanType, NEW d, NEW q, q = [p EXCEPT !.delays = d]
    PROVE  /\ q.messages = p.messages /\ q.insertions = p.insertions /\ q.hybrid = p.hybrid
           /\ q.cross = p.cross /\ q.retry_class = p.retry_class /\ q.delays = d
  BY DEF PlanType

LEMMA SameRecord ==
    ASSUME NEW p, NEW q, q.messages = p.messages, q.insertions = p.insertions,
           q.cross = p.cross
    PROVE  /\ Recorded(p) => Recorded(q)
           /\ InPlace(p) => InPlace(q)
  BY Zenon DEF Recorded, InPlace

\* Insertions and their delays.
LEMMA DelaysOfInsertions ==
    ASSUME NEW c, Waits(c), NEW h, h.gap \in Int, NEW p, Unsent(p), p.insertions # << >>,
           NEW q \in WithDelays(c, h, p)
    PROVE  Ready(c, q)
  <1> DEFINE n == Len(p.messages)
             most == Len(p.insertions)
             at(k) == {i \in DOMAIN p.insertions : p.insertions[i].slot = k}
             d == [k \in 1 .. n |-> IF at(k) = {} THEN 0 ELSE step_delay_ms(c, h, p, Max(at(k)) - 1)]
  <1>1. q = [p EXCEPT !.delays = d]
    BY Zenon DEF WithDelays
  <1>2. /\ p \in PlanType /\ p.messages \in Seq(Message) /\ p.insertions \in Seq(Insertion)
        /\ p.retry_class \in Class
        /\ most <= 4 /\ Follows(p.messages) /\ Recorded(p) /\ (~p.hybrid => InPlace(p))
    BY DEF Unsent, PlanType, BIZONE_MAX_INSERTIONS
  <1>3. /\ q.messages = p.messages /\ q.insertions = p.insertions /\ q.hybrid = p.hybrid
        /\ q.cross = p.cross /\ q.retry_class = p.retry_class /\ q.delays = d
    <2>1. PICK dd : dd = d
      OBVIOUS
    <2>2. q = [p EXCEPT !.delays = dd]
      BY <1>1, <2>1, Zenon
    <2> HIDE DEF d
    <2>3. /\ q.messages = p.messages /\ q.insertions = p.insertions /\ q.hybrid = p.hybrid
          /\ q.cross = p.cross /\ q.retry_class = p.retry_class /\ q.delays = dd
      BY <1>2, <2>2, WithThese
    <2> QED
      BY <2>1, <2>3, Zenon
  <1>4. n \in Nat /\ most \in Nat /\ DOMAIN p.insertions = 1 .. most
    BY <1>2, Lengths
  <1>5. ASSUME NEW k, at(k) # {}
        PROVE  /\ Max(at(k)) \in 1 .. most /\ p.insertions[Max(at(k))].slot = k
               /\ Max(at(k)) - 1 \in 0 .. 3
    <2>1. at(k) \in SUBSET (1 .. most)
      BY <1>4
    <2>2. IsGreatest(Max(at(k)), at(k))
      <3> HIDE DEF at
      <3> QED
        BY <1>4, <1>5, <2>1, MostExists
    <2>3. PICK x : x = Max(at(k))
      OBVIOUS
    <2>4. x \in at(k)
      BY <2>2, <2>3, Zenon DEF IsGreatest
    <2>5. x \in 1 .. most /\ p.insertions[x].slot = k
      BY <1>4, <2>4
    <2>6. x - 1 \in 0 .. 3
      BY <1>2, <1>4, <2>5
    <2> QED
      BY <2>3, <2>5, <2>6, Zenon
  <1>6. ASSUME NEW k \in 1 .. n
        PROVE  d[k] = IF at(k) = {} THEN 0 ELSE step_delay_ms(c, h, p, Max(at(k)) - 1)
    OBVIOUS
  <1>7. DOMAIN d = 1 .. n
    OBVIOUS
  <1> HIDE DEF d
  <1>8. ASSUME NEW k \in 1 .. n
        PROVE  Fits(c, d[k]) /\ (at(k) # {} <=> d[k] > 0)
    <2>1. CASE at(k) = {}
      <3>1. d[k] = 0
        BY <1>6, <2>1
      <3> QED
        BY <2>1, <3>1 DEF Fits, Waits
    <2>2. CASE at(k) # {}
      <3>1. PICK i \in 0 .. 3 : i = Max(at(k)) - 1
        BY <1>5, <2>2
      <3>2. d[k] = step_delay_ms(c, h, p, i)
        BY <1>6, <2>2, <3>1, Zenon
      <3>3. Fits(c, d[k]) /\ d[k] > 0
        BY <3>2, StepFits
      <3> QED
        BY <2>2, <3>3
    <2> QED
      BY <2>1, <2>2
  <1>9. ASSUME NEW i \in 1 .. most
        PROVE  /\ p.insertions[i].slot \in 1 .. n /\ i \in at(p.insertions[i].slot)
               /\ p.insertions[i].kind \in {"retry", "keepalive"}
    <2>1. Inside(p.insertions[i], n)
      BY <1>2 DEF Recorded
    <2>2. PICK x : x = p.insertions[i]
      OBVIOUS
    <2>3. x \in Insertion
      BY <1>2, <2>2, ElementOfSeq
    <2>4. x.slot \in 1 .. n /\ x.kind \in {"retry", "keepalive"}
      <3>1. Inside(x, n)
        BY <2>1, <2>2
      <3> QED
        BY <1>4, <2>3, <3>1 DEF Inside, Insertion
    <2> QED
      BY <1>4, <2>2, <2>4
  <1>10. Audited(q)
    <2>1. Recorded(q)
      BY <1>2, <1>3, SameRecord
    <2>2. Len(d) = n
      <3>1. d \in [1 .. n -> Nat]
        <4>1. \A k \in 1 .. n : d[k] \in Nat
          BY <1>8 DEF Fits
        <4>2. d = [k \in 1 .. n |-> d[k]]
          BY DEF d
        <4> QED
          BY <4>1, <4>2
      <3> QED
        BY <1>4, <3>1, FunctionIsSeq
    <2>3. \A i \in 1 .. most : d[p.insertions[i].slot] > 0
      <3>1. ASSUME NEW i \in 1 .. most PROVE d[p.insertions[i].slot] > 0
        <4>1. PICK k \in 1 .. n : k = p.insertions[i].slot /\ i \in at(k)
          BY <1>9
        <4>2. at(k) # {}
          BY <4>1, Zenon
        <4>3. d[k] > 0
          BY <1>8, <4>2
        <4> QED
          BY <4>1, <4>3
      <3> QED
        BY <3>1
    <2> QED
      BY <1>3, <2>1, <2>2, <2>3, Zenon DEF Audited
  <1>11. Told(q)
    <2> SUFFICES ASSUME ~q.hybrid
                 PROVE  /\ InPlace(q)
                        /\ \A k \in 1 .. n : d[k] > 0 => p.messages[k].kind # "seed"
      BY <1>3, Zenon DEF Told
    <2>1. InPlace(p)
      BY <1>2, <1>3
    <2>2. InPlace(q)
      BY <1>3, <2>1, SameRecord
    <2>3. ASSUME NEW k \in 1 .. n, d[k] > 0 PROVE p.messages[k].kind # "seed"
      <3>1. at(k) # {}
        BY <1>8, <2>3
      <3>2. PICK i \in 1 .. most : p.insertions[i].slot = k
        BY <1>5, <3>1
      <3>3. p.messages[k].kind = p.insertions[i].kind
        BY <2>1, <3>2, Zenon DEF InPlace
      <3> QED
        BY <1>9, <3>2, <3>3
    <2> QED
      BY <2>2, <2>3
  <1>12. ASSUME ~p.hybrid, TimerStart(c, p) # 0,
                NEW k \in 1 .. n, p.messages[k].kind = "retry"
         PROVE  \E i \in 1 .. most : /\ p.insertions[i].slot = k /\ i - 1 \in 0 .. 3
                                     /\ d[k] = backoff(c, TimerStart(c, p), i - 1)
    <2>1. InPlace(p)
      BY <1>2, <1>12
    <2>2. PICK l \in 1 .. most : p.insertions[l].slot = k
      BY <1>12, <2>1 DEF InPlace
    <2>3. at(k) # {}
      BY <1>9, <2>2
    <2>4. PICK i \in 1 .. most : i = Max(at(k))
      BY <1>5, <2>3
    <2>5. p.insertions[i].slot = k /\ i - 1 \in 0 .. 3
      BY <1>5, <2>3, <2>4
    <2>6. p.insertions[i].kind = "retry"
      BY <1>12, <2>1, <2>5, Zenon DEF InPlace
    <2>7. d[k] = step_delay_ms(c, h, p, i - 1)
      BY <1>6, <2>3, <2>4, Zenon
    <2>8. d[k] = backoff(c, TimerStart(c, p), i - 1)
      <3>1. PICK m \in 0 .. 3 : m = i - 1 /\ m + 1 = i
        BY <2>5
      <3>2. p.insertions[m + 1].kind = "retry"
        BY <2>6, <3>1
      <3>3. step_delay_ms(c, h, p, m) = backoff(c, TimerStart(c, p), m)
        BY <1>12, <3>2, StepFits
      <3> QED
        BY <2>7, <3>1, <3>3, Zenon
    <2> QED
      BY <2>5, <2>8
  <1>13. BacksOff(c, q)
    <2>1. ASSUME ~p.hybrid, TimerStart(c, p) # 0,
                 NEW k \in 1 .. n, p.messages[k].kind = "retry",
                 NEW j \in 1 .. k - 1, p.messages[j].kind = "retry"
          PROVE  d[j] <= d[k]
      <3>1. j \in 1 .. n
        BY <1>4
      <3>2. PICK i \in 1 .. most : /\ p.insertions[i].slot = k /\ i - 1 \in 0 .. 3
                                   /\ d[k] = backoff(c, TimerStart(c, p), i - 1)
        BY <1>12, <2>1
      <3>3. PICK l \in 1 .. most : /\ p.insertions[l].slot = j /\ l - 1 \in 0 .. 3
                                   /\ d[j] = backoff(c, TimerStart(c, p), l - 1)
        BY <1>12, <2>1, <3>1
      <3>4. ~ (i < l)
        <4>1. ASSUME i < l PROVE FALSE
          <5>1. i \in 1 .. l - 1
            BY <1>4, <4>1
          <5>2. InPlace(p)
            BY <1>2, <2>1
          <5>3. p.insertions[i].slot < p.insertions[l].slot
            BY <5>1, <5>2, Zenon DEF InPlace
          <5>4. k < j
            BY <3>2, <3>3, <5>3
          <5> QED
            BY <1>4, <3>1, <5>4
        <4> QED
          BY <4>1
      <3>5. l - 1 \in 0 .. i - 1
        BY <1>4, <3>2, <3>3, <3>4
      <3>6. PICK a, b : a = i - 1 /\ b = l - 1
        OBVIOUS
      <3>7. TimerStart(c, p) \in {500, 1000}
        BY <2>1 DEF TimerStart
      <3>8. backoff(c, TimerStart(c, p), b) <= backoff(c, TimerStart(c, p), a)
        <4>1. PICK first \in {500, 1000} : first = TimerStart(c, p)
          BY <3>7
        <4>2. a \in 0 .. 3 /\ b \in 0 .. a
          BY <3>2, <3>5, <3>6
        <4>3. backoff(c, first, b) <= backoff(c, first, a)
          BY <4>2, BackoffIs
        <4> QED
          BY <4>1, <4>3
      <3> QED
        BY <3>2, <3>3, <3>6, <3>8, Zenon
    <2>2. TimerStart(c, q) = TimerStart(c, p)
      BY <1>3 DEF TimerStart
    <2> QED
      BY <1>3, <1>7, <1>8, <2>1, <2>2, Zenon DEF BacksOff
  <1>14. Follows(q.messages)
    BY <1>2, <1>3
  <1> QED
    BY <1>2, <1>3, <1>10, <1>11, <1>13, <1>14 DEF Ready

\* No insertion: at most one wait.

LEMMA DelayOfWait ==
    ASSUME NEW c, NEW p, Unsent(p), ~p.hybrid, p.insertions = << >>, NEW q,
           q.messages = p.messages, q.insertions = << >>, q.hybrid = p.hybrid, q.cross = p.cross,
           q.retry_class = p.retry_class, DOMAIN q.delays \subseteq 1 .. Len(p.messages),
           \A k \in DOMAIN q.delays : Fits(c, q.delays[k])
    PROVE  Ready(c, q)
  <1>1. /\ p.messages \in Seq(Message) /\ Follows(p.messages) /\ Recorded(p) /\ InPlace(p)
        /\ << >> \in Seq(Insertion) /\ Len(p.insertions) = 0 /\ Len(q.insertions) = 0
        /\ p.retry_class \in Class
    BY DEF Unsent, PlanType
  <1>2. Recorded(q) /\ InPlace(q)
    BY <1>1, SameRecord
  <1>3. Audited(q)
    BY <1>1, <1>2 DEF Audited
  <1>4. Told(q)
    BY <1>2 DEF Told
  <1>5. ASSUME NEW k \in 1 .. Len(p.messages) PROVE p.messages[k].kind # "retry"
    <2>1. ASSUME p.messages[k].kind # "seed" PROVE FALSE
      BY <1>1, <2>1 DEF InPlace
    <2> QED
      BY <2>1
  <1>6. BacksOff(c, q)
    BY <1>5, Zenon DEF BacksOff
  <1> QED
    BY <1>1, <1>3, <1>4, <1>6, Zenon DEF Ready

LEMMA DelayedPlan ==
    ASSUME NEW c, Waits(c), NEW h, h.gap \in Int, NEW p, Unsent(p),
           p.insertions = << >> => ~p.hybrid, NEW q \in WithDelays(c, h, p)
    PROVE  Ready(c, q)
  <1>1. CASE p.insertions # << >>
    BY <1>1, DelaysOfInsertions
  <1>2. CASE p.insertions = << >>
    <2> DEFINE n == Len(p.messages)
               none == [k \in 1 .. n |-> 0]
               wait == clamp_delay_ms(c, h.gap, IF c.poll_wait_msecs = 0 THEN 4
                                                ELSE c.poll_wait_msecs)
    <2>1. p \in PlanType /\ p.delays = << >>
      BY DEF Unsent
    <2>2. \/ q = p
          \/ \E slot \in WaitSlots(c, h, p.messages) :
                q = [p EXCEPT !.delays = [none EXCEPT ![slot] = wait]]
      BY <1>2, Zenon DEF WithDelays
    <2>3. CASE q = p
      <3>1. DOMAIN q.delays = {}
        BY <2>1, <2>3
      <3> QED
        BY <1>2, <2>3, <3>1, DelayOfWait
    <2>4. CASE \E slot \in WaitSlots(c, h, p.messages) :
                  q = [p EXCEPT !.delays = [none EXCEPT ![slot] = wait]]
      <3>1. PICK slot : q = [p EXCEPT !.delays = [none EXCEPT ![slot] = wait]]
        BY <2>4, Zenon
      <3>2. PICK w : w = wait
        OBVIOUS
      <3>3. Fits(c, w)
        <4>1. (IF c.poll_wait_msecs = 0 THEN 4 ELSE c.poll_wait_msecs) \in Nat
          BY DEF Waits
        <4>2. Fits(c, wait)
          BY <4>1, ClampFits
        <4> QED
          BY <3>2, <4>2, Zenon
      <3>4. Fits(c, 0)
        BY DEF Fits, Waits
      <3>5. PICK d : d = [none EXCEPT ![slot] = w]
        OBVIOUS
      <3>6. DOMAIN d = 1 .. n /\ \A k \in 1 .. n : d[k] = 0 \/ d[k] = w
        BY <3>5
      <3>7. q = [p EXCEPT !.delays = d]
        BY <3>1, <3>2, <3>5, Zenon
      <3>8. /\ q.messages = p.messages /\ q.insertions = p.insertions /\ q.hybrid = p.hybrid
            /\ q.cross = p.cross /\ q.retry_class = p.retry_class /\ q.delays = d
        BY <2>1, <3>7, WithThese
      <3>9. /\ DOMAIN q.delays \subseteq 1 .. n
            /\ \A k \in DOMAIN q.delays : Fits(c, q.delays[k])
        BY <3>3, <3>4, <3>6, <3>8, Zenon
      <3> QED
        BY <1>2, <3>8, <3>9, DelayOfWait
    <2> QED
      BY <2>2, <2>3, <2>4
  <1> QED
    BY <1>1, <1>2

(***************************************************************************)
(* prepare_timing_plan.                                                    *)
(***************************************************************************)
HintType == [gap : Int, mask : SUBSET {"retry", "keepalive", "silence"},
             preferred : Class, retry : Class, keepalive : Class]

LEMMA KeepaliveOfNone ==
    ASSUME NEW c, NEW h, NEW p, Pure(p), apply_keepalive_insertion(c, h, p).insertions = << >>
    PROVE  ~apply_keepalive_insertion(c, h, p).hybrid
  <1> DEFINE ms == p.messages
             slot == choose_keepalive_slot(c, h, ms)
             behind == choose_keepalive_insert_after_slot(h, ms)
             retried == p.insertions # << >>
             after == IF slot = 0 \/ retried THEN behind
                      ELSE Max({slot, Min({Len(ms), Len(ms) \div 2 + 1})})
             copy == IF slot = 0 THEN [class |-> NoClass, of |-> 0, kind |-> "keepalive"]
                     ELSE [ms[slot] EXCEPT !.kind = "keepalive"]
             list == build_injected_messages(ms, copy, <<after>>)
             new == [kind |-> "keepalive", base |-> Len(ms),
                     source |-> IF slot = 0 THEN after ELSE slot,
                     after |-> after, slot |-> after + 1]
             q == [p EXCEPT !.messages = list, !.insertions = Append(@, new), !.hybrid = retried]
  <1>1. apply_keepalive_insertion(c, h, p) = IF slot = 0 /\ ~Synthesizes(c, ms) THEN p ELSE q
    BY Zenon DEF apply_keepalive_insertion
  <1>2. p \in PlanType /\ p.insertions \in Seq(Insertion) /\ ~p.hybrid
    BY DEF Pure, Unsent, PlanType
  <1>3. PICK more, built, again : /\ more = Append(p.insertions, new) /\ built = list
                                  /\ again = retried
    OBVIOUS
  <1>4. q = [p EXCEPT !.messages = built, !.insertions = more, !.hybrid = again]
    BY <1>3, Zenon
  <1>5. q.insertions = more
    <2>1. PICK p1 : p1 = [p EXCEPT !.messages = built]
      OBVIOUS
    <2>2. PICK p2 : p2 = [p1 EXCEPT !.insertions = more]
      OBVIOUS
    <2>3. q = [p2 EXCEPT !.hybrid = again]
      BY <1>4, <2>1, <2>2, Zenon
    <2> HIDE DEF q
    <2>4. p2.insertions = more
      BY <1>2, <2>1, <2>2 DEF PlanType
    <2> QED
      BY <2>3, <2>4
  <1>6. more # << >>
    <2>1. PICK x : x = new
      OBVIOUS
    <2>2. more = Append(p.insertions, x)
      BY <1>3, <2>1, Zenon
    <2> QED
      BY <1>2, <2>2
  <1> HIDE DEF q, slot
  <1> QED
    BY <1>1, <1>2, <1>5, <1>6, Zenon

LEMMA PreparedPlan ==
    ASSUME NEW c, Waits(c), NEW hints \in HintType, NEW ms, Seeds(ms),
           NEW q \in prepare_timing_plan(c, hints, ms)
    PROVE  Ready(c, q)
  <1> DEFINE h == [hints EXCEPT !.mask = effective_hint_mask(c, hints)]
             retried == IF "retry" \in h.mask THEN apply_retry_insertions(c, h, ms) ELSE NoPlan(ms)
             h2 == [h EXCEPT !.retry = IF @ = NoClass THEN retried.retry_class ELSE @]
             whole == IF "keepalive" \in h.mask THEN apply_keepalive_insertion(c, h2, retried)
                      ELSE retried
  <1>1. q \in IF hints.gap = 0 /\ hints.mask = {} THEN {NoPlan(ms)} ELSE WithDelays(c, h2, whole)
    BY Zenon DEF prepare_timing_plan
  <1>2. h.gap \in Int
    <2>1. PICK mask : mask = effective_hint_mask(c, hints)
      OBVIOUS
    <2>2. PICK k : k = [hints EXCEPT !.mask = mask]
      OBVIOUS
    <2>3. k.gap \in Int
      BY <2>2 DEF HintType
    <2> QED
      BY <2>1, <2>2, <2>3, Zenon
  <1>3. h2.gap \in Int
    <2>1. PICK k : k = h
      OBVIOUS
    <2>2. PICK class : class = IF h.retry = NoClass THEN retried.retry_class ELSE h.retry
      OBVIOUS
    <2>3. PICK k2 : k2 = [k EXCEPT !.retry = class]
      OBVIOUS
    <2>4. k2.gap = k.gap
      BY <2>3
    <2>5. h2 = k2
      BY <2>1, <2>2, <2>3, Zenon
    <2> QED
      BY <1>2, <2>1, <2>4, <2>5, Zenon
  <1> HIDE DEF h, h2
  <1>4. Pure(NoPlan(ms)) /\ Pure(apply_retry_insertions(c, h, ms))
    BY <1>2, NoPlanIs, RetryPlan
  <1>5. Pure(retried)
    BY <1>4
  <1> HIDE DEF retried
  <1>6. Unsent(whole) /\ (whole.insertions = << >> => ~whole.hybrid)
    <2>1. CASE "keepalive" \in h.mask
      BY <1>5, <2>1, KeepalivePlan, KeepaliveOfNone, Zenon
    <2>2. CASE ~("keepalive" \in h.mask)
      BY <1>5, <2>2, Zenon DEF Pure
    <2> QED
      BY <2>1, <2>2
  <1> HIDE DEF whole
  <1>7. CASE q \in WithDelays(c, h2, whole)
    BY <1>3, <1>6, <1>7, DelayedPlan
  <1>8. CASE q = NoPlan(ms)
    <2>1. Unsent(q) /\ ~q.hybrid
      BY <1>4, <1>8, Zenon DEF Pure
    <2>2. q.insertions = << >> /\ q.delays = << >>
      BY <1>8 DEF NoPlan
    <2>3. DOMAIN q.delays = {}
      BY <2>2
    <2> QED
      BY <2>1, <2>2, <2>3, DelayOfWait
  <1> QED
    BY <1>1, <1>7, <1>8

(***************************************************************************)
(* The plan of every execution.                                            *)
(***************************************************************************)
PlanReady ==
    /\ campaign \in Campaigns /\ entry \in campaign.entries /\ stage \in HintType
    /\ plan = NoPlan(<< >>) \/ Ready(campaign, plan)

LEMMA CampaignIs ==
    ASSUME NEW c \in Campaigns
    PROVE  /\ Waits(c) /\ c.entries \subseteq Hint /\ c.feedbacks \subseteq Hint
           /\ c.seeds \subseteq Seq(STRING) \ {<< >>}
  BY DeliveryAssumption DEF Waits

LEMMA HintIs == Hint \subseteq HintType
  BY DEF Hint, HintType, Class

LEMMA OtherRetry ==
    ASSUME NEW s \in HintType, NEW x \in Class
    PROVE  [s EXCEPT !.retry = x] \in HintType
  BY DEF HintType

LEMMA EffectiveIs ==
    ASSUME NEW s \in HintType, NEW e \in HintType
    PROVE  Effective(s, e) \in HintType
  <1>1. PICK gap : gap = IF s.gap # 0 THEN s.gap ELSE e.gap
    OBVIOUS
  <1>2. PICK mask : mask = s.mask \cup e.mask
    OBVIOUS
  <1>3. gap \in Int /\ mask \in SUBSET {"retry", "keepalive", "silence"}
    BY <1>1, <1>2 DEF HintType
  <1>4. PICK s1 : s1 = [s EXCEPT !.gap = gap]
    OBVIOUS
  <1>5. s1 \in HintType /\ s1.mask = s.mask
    BY <1>3, <1>4 DEF HintType
  <1>6. PICK s2 : s2 = [s1 EXCEPT !.mask = mask]
    OBVIOUS
  <1>7. s2 \in HintType
    BY <1>3, <1>5, <1>6 DEF HintType
  <1>8. Effective(s, e) = [s EXCEPT !.gap = gap, !.mask = mask]
    BY <1>1, <1>2, Zenon DEF Effective
  <1>9. Effective(s, e) = s2
    BY <1>4, <1>6, <1>8, Zenon
  <1> QED
    BY <1>7, <1>9

LEMMA SeedsOf ==
    ASSUME NEW classes \in Seq(STRING) \ {<< >>}
    PROVE  Seeds(Seed(classes))
  <1> DEFINE n == Len(classes)
  <1>1. n \in Nat \ {0} /\ DOMAIN classes = 1 .. n /\ \A i \in 1 .. n : classes[i] \in STRING
    BY Lengths, ElementOfSeq
  <1>2. PICK ms : ms = Seed(classes)
    OBVIOUS
  <1>3. ms = [i \in 1 .. n |-> [class |-> classes[i], of |-> i, kind |-> "seed"]]
    BY <1>1, <1>2 DEF Seed
  <1>4. ASSUME NEW i \in 1 .. n PROVE ms[i] \in Message /\ ms[i].kind = "seed"
    <2>1. PICK m : m = [class |-> classes[i], of |-> i, kind |-> "seed"]
      OBVIOUS
    <2>2. m \in Message /\ m.kind = "seed"
      BY <1>1, <2>1 DEF Message, Class
    <2> QED
      BY <1>3, <2>1, <2>2
  <1>5. DOMAIN ms = 1 .. n
    BY <1>3
  <1>6. ms \in Seq(Message) /\ Len(ms) = n
    <2>1. n \in Nat /\ ms = [i \in 1 .. n |-> ms[i]]
      BY <1>1, <1>3
    <2> QED
      BY <1>4, <2>1, FunctionIsSeq
  <1>7. ms # << >>
    BY <1>1, <1>6
  <1> QED
    BY <1>2, <1>4, <1>6, <1>7 DEF Seeds

LEMMA PlanReadyHolds == Spec => []PlanReady
  <1>1. Init => PlanReady
    BY CampaignIs, HintIs DEF Init, PlanReady
  <1>2. PlanReady /\ [Next]_vars => PlanReady'
    <2> SUFFICES ASSUME PlanReady, [Next]_vars PROVE PlanReady'
      OBVIOUS
    <2>0. /\ campaign \in Campaigns /\ entry \in campaign.entries /\ stage \in HintType
          /\ plan = NoPlan(<< >>) \/ Ready(campaign, plan)
      BY DEF PlanReady
    <2>1. CASE Plan
      <3>1. PICK classes \in campaign.seeds :
               plan' \in prepare_timing_plan(campaign, Effective(stage, entry), Seed(classes))
        BY <2>1, Zenon DEF Plan
      <3>2. Effective(stage, entry) \in HintType
        <4>1. entry \in HintType
          BY <2>0, CampaignIs, HintIs
        <4> QED
          BY <2>0, <4>1, EffectiveIs
      <3>3. Seeds(Seed(classes))
        <4>1. classes \in Seq(STRING) \ {<< >>}
          BY <2>0, <3>1, CampaignIs
        <4> QED
          BY <4>1, SeedsOf
      <3>4. Ready(campaign, plan')
        <4>1. Waits(campaign)
          BY <2>0, CampaignIs
        <4> QED
          BY <3>1, <3>2, <3>3, <4>1, PreparedPlan
      <3>5. stage' \in HintType
        <4>1. PICK x : x = IF stage.retry = NoClass THEN plan'.retry_class ELSE stage.retry
          OBVIOUS
        <4>2. x \in Class
          <5>1. plan'.retry_class \in Class
            BY <3>4, Zenon DEF Ready
          <5>2. stage.retry \in Class
            BY <2>0 DEF HintType
          <5> QED
            BY <4>1, <5>1, <5>2, Zenon
        <4>3. stage' = [stage EXCEPT !.retry = x]
          BY <2>1, <4>1, Zenon DEF Plan
        <4> QED
          BY <2>0, <4>2, <4>3, OtherRetry
      <3>6. campaign' = campaign /\ entry' = entry
        BY <2>1, Zenon DEF Plan
      <3> QED
        BY <2>0, <3>4, <3>5, <3>6, Zenon DEF PlanReady
    <2>2. CASE Monitor
      <3>1. campaign' = campaign /\ entry' = entry /\ plan' = plan
        BY <2>2, Zenon DEF Monitor
      <3>2. stage' = stage \/ stage' \in campaign.feedbacks
        BY <2>2, Zenon DEF Monitor
      <3>3. stage' \in HintType
        BY <2>0, <3>2, CampaignIs, HintIs
      <3> QED
        BY <2>0, <3>1, <3>3, Zenon DEF PlanReady
    <2>3. CASE Again
      <3>1. /\ campaign' = campaign /\ entry' = entry /\ stage' = stage
            /\ plan' = NoPlan(<< >>)
        BY <2>3, Zenon DEF Again
      <3> QED
        BY <2>0, <3>1, Zenon DEF PlanReady
    <2>4. ASSUME UNCHANGED <<campaign, entry, stage, plan>> PROVE PlanReady'
      BY <2>0, <2>4, Zenon DEF PlanReady
    <2>5. ASSUME NEW connected \in BOOLEAN, Connect(connected) PROVE PlanReady'
      BY <2>4, <2>5, Zenon DEF Connect
    <2>6. ASSUME NEW got \in 0 .. 1, NEW failed \in BOOLEAN, Greeting(got, failed)
          PROVE  PlanReady'
      BY <2>4, <2>6, Zenon DEF Greeting
    <2>7. ASSUME NEW got \in 0 .. 1, NEW failed \in BOOLEAN, Receive(got, failed)
          PROVE  PlanReady'
      BY <2>4, <2>7, Zenon DEF Receive
    <2>8. ASSUME NEW whole \in BOOLEAN, Send(whole) PROVE PlanReady'
      BY <2>4, <2>8, Zenon DEF Send
    <2>9. ASSUME NEW got \in 0 .. 1, Handle(got) PROVE PlanReady'
      BY <2>4, <2>9, Zenon DEF Handle
    <2>10. CASE Keep
      BY <2>4, <2>10, Zenon DEF Keep
    <2>11. CASE UNCHANGED vars
      BY <2>4, <2>11, Zenon DEF vars
    <2> QED
      BY <2>1, <2>2, <2>3, <2>5, <2>6, <2>7, <2>8, <2>9, <2>10, <2>11, Zenon DEF Next
  <1> QED
    BY <1>1, <1>2, PTL DEF Spec

\* Between two executions there is no plan.
LEMMA NoMessages ==
    ASSUME plan = NoPlan(<< >>)
    PROVE  /\ DOMAIN messages = {} /\ insertions = << >> /\ DOMAIN insertions = {}
           /\ plan.cross = FALSE /\ DOMAIN plan.delays = {} /\ plan.hybrid = FALSE
  BY DEF messages, insertions, NoPlan

LEMMA PlanDomains ==
    ASSUME Ready(campaign, plan)
    PROVE  /\ DOMAIN messages = 1 .. Len(messages) /\ Len(messages) \in Nat
           /\ DOMAIN insertions = 1 .. Len(insertions) /\ Len(insertions) \in Nat
           /\ (insertions = << >> <=> Len(insertions) = 0)
           /\ \A i \in DOMAIN insertions : insertions[i] \in Insertion
           /\ \A k \in DOMAIN messages : messages[k] \in Message
  <1>1. messages \in Seq(Message) /\ insertions \in Seq(Insertion)
    BY Zenon DEF Ready, messages, insertions
  <1> QED
    BY <1>1, Lengths, ElementOfSeq

\* In every plan a retry is a copy of a message sent before, and all are of the same
\* (apply_retry_insertions, insert_message_after).
THEOREM RetriesComeAfter == Spec => []RetriesFollow
  <1>1. PlanReady => RetriesFollow
    <2>1. ASSUME plan = NoPlan(<< >>) PROVE RetriesFollow
      BY <2>1, NoMessages, Zenon DEF RetriesFollow
    <2>2. ASSUME Ready(campaign, plan) PROVE RetriesFollow
      <3>1. Follows(messages)
        BY <2>2, Zenon DEF Ready, messages
      <3> QED
        BY <3>1, Zenon DEF Follows, RetriesFollow
    <2> QED
      BY <2>1, <2>2 DEF PlanReady
  <1> QED
    BY <1>1, PlanReadyHolds, PTL

\* Every plan passes what the smoke test demands of one: each insertion is recorded
\* inside the list it was made in, behind its message and with a delay, and
\* cross_request_resend is set exactly if a retry is behind a later request.
THEOREM PlanPassesTheAudit == Spec => []AuditHolds
  <1>1. PlanReady => AuditHolds
    <2>1. ASSUME plan = NoPlan(<< >>) PROVE AuditHolds
      BY <2>1, NoMessages, Zenon DEF AuditHolds
    <2>2. ASSUME Ready(campaign, plan) PROVE AuditHolds
      <3>1. Audited(plan) /\ Recorded(plan)
        BY <2>2, Zenon DEF Ready, Audited
      <3>2. DOMAIN insertions = 1 .. Len(insertions)
        BY <2>2, PlanDomains
      <3>3. insertions # << >> => Len(messages) > 1 /\ Len(plan.delays) = Len(messages)
        BY <3>1, Zenon DEF Audited, Recorded, messages, insertions
      <3>4. ASSUME NEW i \in DOMAIN insertions
            PROVE  /\ insertions[i].base \in 1 .. Len(messages)
                   /\ insertions[i].source \in 1 .. insertions[i].base
                   /\ insertions[i].after \in 1 .. insertions[i].base
                   /\ insertions[i].slot > insertions[i].after
                   /\ insertions[i].slot <= Len(messages)
                   /\ plan.delays[insertions[i].slot] > 0
        <4>1. i \in 1 .. Len(plan.insertions)
          BY <3>2 DEF insertions
        <4>2. Inside(plan.insertions[i], Len(plan.messages))
          BY <3>1, <4>1, Zenon DEF Recorded
        <4>3. plan.delays[plan.insertions[i].slot] > 0
          BY <3>1, <4>1, Zenon DEF Audited
        <4> QED
          BY <4>2, <4>3, Zenon DEF Inside, messages, insertions
      <3>5. plan.cross <=> \E i \in DOMAIN insertions :
                insertions[i].kind = "retry" /\ insertions[i].after > insertions[i].source
        BY <3>1, <3>2, Zenon DEF Recorded, insertions
      <3> QED
        BY <3>3, <3>4, <3>5, Zenon DEF AuditHolds
    <2> QED
      BY <2>1, <2>2 DEF PlanReady
  <1> QED
    BY <1>1, PlanReadyHolds, PTL

\* In a plan with retries or a keepalive but not both, the record tells exactly where the
\* insertions are and what they are, and only they are delayed.
THEOREM RecordTellsTheList == Spec => []SlotsTellPure
  <1>1. PlanReady => SlotsTellPure
    <2>1. ASSUME plan = NoPlan(<< >>) PROVE SlotsTellPure
      <3>1. Injected = {} /\ {insertions[i].slot : i \in DOMAIN insertions} = {}
        BY <2>1, NoMessages DEF Injected
      <3> QED
        BY <2>1, <3>1, NoMessages, Zenon DEF SlotsTellPure, SlotsTellInsertions
    <2>2. ASSUME Ready(campaign, plan), ~plan.hybrid PROVE SlotsTellInsertions
      <3>1. InPlace(plan) /\ Recorded(plan)
        BY <2>2, Zenon DEF Ready, Audited, Told
      <3>2. /\ DOMAIN messages = 1 .. Len(messages) /\ DOMAIN insertions = 1 .. Len(insertions)
            /\ \A i \in DOMAIN insertions : insertions[i] \in Insertion
        BY <2>2, PlanDomains
      <3>3. ASSUME NEW i \in DOMAIN insertions
            PROVE  /\ insertions[i].slot \in Injected
                   /\ messages[insertions[i].slot].kind = insertions[i].kind
        <4>1. messages[insertions[i].slot].kind = insertions[i].kind
          BY <3>1, <3>2, <3>3, Zenon DEF InPlace, messages, insertions
        <4>2. PICK n \in Insertion : n = insertions[i]
          BY <3>2
        <4>3. n.kind # "seed"
          BY DEF Insertion
        <4>4. n.slot \in 1 .. Len(messages)
          <5>1. Inside(n, Len(messages))
            BY <3>1, <3>2, <3>3, <4>2, Zenon DEF Recorded, messages, insertions
          <5>2. n.slot \in Nat /\ Len(messages) \in Nat
            BY <2>2, PlanDomains DEF Insertion
          <5> QED
            BY <5>1, <5>2 DEF Inside
        <4> QED
          BY <3>2, <4>1, <4>2, <4>3, <4>4 DEF Injected
      <3>4. ASSUME NEW k \in Injected
            PROVE  \E i \in DOMAIN insertions : insertions[i].slot = k
        <4>1. k \in 1 .. Len(messages) /\ messages[k].kind # "seed"
          BY <3>2 DEF Injected
        <4> QED
          BY <3>1, <3>2, <4>1, Zenon DEF InPlace, messages, insertions
      <3>5. {insertions[i].slot : i \in DOMAIN insertions} = Injected
        BY <3>3, <3>4
      <3>6. ASSUME insertions # << >>, NEW k \in DOMAIN messages, plan.delays[k] > 0
            PROVE  k \in Injected
        <4>1. messages[k].kind # "seed"
          BY <2>2, <3>2, <3>6, Zenon DEF Ready, Told, messages, insertions
        <4> QED
          BY <3>6, <4>1 DEF Injected
      <3> QED
        BY <3>3, <3>5, <3>6, Zenon DEF SlotsTellInsertions
    <2> QED
      BY <2>1, <2>2 DEF PlanReady, SlotsTellPure
  <1> QED
    BY <1>1, PlanReadyHolds, PTL

\* A wait is never longer than the time an execution has, and shorter unless that is
\* short; retransmission timers of DTLS and of a SIP INVITE never shrink
\* (dtls12_retry_delay_ms, sip_invite_retry_delay_ms, clamp_delay_ms).
THEOREM TimersBackOff == Spec => []DelaysBackOff
  <1>1. PlanReady => DelaysBackOff
    <2>1. ASSUME plan = NoPlan(<< >>) PROVE DelaysBackOff
      BY <2>1, NoMessages, Zenon DEF DelaysBackOff
    <2>2. ASSUME Ready(campaign, plan) PROVE DelaysBackOff
      <3>1. BacksOff(campaign, plan)
        BY <2>2, Zenon DEF Ready
      <3>2. Timed => TimerStart(campaign, plan) # 0
        BY DEF Timed, TimerStart
      <3> QED
        BY <3>1, <3>2, Zenon DEF BacksOff, Fits, DelaysBackOff, messages
    <2> QED
      BY <2>1, <2>2 DEF PlanReady
  <1> QED
    BY <1>1, PlanReadyHolds, PTL
=============================================================================
