----------------------------- MODULE MeshProofs -----------------------------
(* TLAPS proofs about Mesh, for every mesh, every set of jobs and every    *)
(* limit.                                                                  *)
EXTENDS Mesh, FiniteSetTheorems, SequenceTheorems, TLAPS

\* A job is on its way only from its owner to another node that it is tried on,
\* before that node has it; a result comes from a node that ran the job.
MessageExact(n, p, m) ==
  /\ m.kind = "JOB" => /\ Owner[m.job] = n /\ n # p /\ p \in tried[m.job]
                       /\ m.job \notin work[p] /\ ran[p][m.job] = 0
                       /\ ~(at[m.job] = "selected" /\ target[m.job] = p)
  /\ m.kind = "RESULT" => ran[n][m.job] > 0

\* A job is on its way once.
SentOnce(s) == \A i, k \in 1..Len(s) : s[i].kind = "JOB" /\ s[i] = s[k] => i = k

WireExact ==
  \A n, p \in Nodes : /\ \A i \in 1..Len(wire[n][p]) : MessageExact(n, p, wire[n][p][i])
                      /\ SentOnce(wire[n][p])

\* A node has or ran only jobs that were tried on it, each once.
WorkExact ==
  \A n \in Nodes, j \in Jobs :
    /\ j \in work[n] => n \in tried[j] /\ ran[n][j] = 0
    /\ ran[n][j] > 0 => n \in tried[j]
    /\ ran[n][j] <= 1
    /\ reply[n][j] = "RESULT" => ran[n][j] > 0

\* What the stage of a submission says of its attempt.
AttemptExact ==
  \A j \in Jobs :
    /\ at[j] \in {"selected", "sent", "local", "answered", "failed", "done"} => target[j] \in tried[j]
    /\ at[j] = "local" => target[j] = Owner[j]
    /\ at[j] \in {"selected", "sent"} => target[j] # Owner[j]
    /\ at[j] = "selected" => j \notin work[target[j]] /\ ran[target[j]][j] = 0
    /\ at[j] \in {"answered", "done"} => ran[target[j]][j] > 0
    /\ at[j] = "sent" /\ ~old[j] => end[Owner[j]][target[j]] # "down"
    /\ Cardinality(tried[j]) <= Attempts(Owner[j])

\* Reservations, with or without a session.
PlacesExact ==
  \A n, p \in Nodes : n # p => reserved[n][p] = Cardinality(Attempting(n, p))

IInv == TypeOK /\ WireExact /\ WorkExact /\ AttemptExact /\ PlacesExact /\ RequestAccounted

-----------------------------------------------------------------------------
(* The wire.                                                               *)

\* What is left of a sequence that lost entries at its ends.
Kept(t, s) == \E d \in Nat : \A i \in 1..Len(t) : i + d \in 1..Len(s) /\ t[i] = s[i + d]

LEMMA KeptSame == ASSUME NEW s \in Seq(Messages) PROVE Kept(s, s)
<1>1. \A i \in 1..Len(s) : i + 0 \in 1..Len(s) /\ s[i] = s[i + 0]
  OBVIOUS
<1> QED BY <1>1 DEF Kept

LEMMA KeptEmpty == ASSUME NEW s \in Seq(Messages) PROVE Kept(<<>>, s)
<1>1. \A i \in 1..Len(<<>>) : i + 0 \in 1..Len(s) /\ <<>>[i] = s[i + 0]
  OBVIOUS
<1> QED BY <1>1 DEF Kept

LEMMA KeptTail ==
  ASSUME NEW s \in Seq(Messages), s # <<>>
  PROVE  Tail(s) \in Seq(Messages) /\ Kept(Tail(s), s) /\ Head(s) = s[1] /\ 1 \in 1..Len(s)
<1>1. Tail(s) \in Seq(Messages) /\ Len(Tail(s)) = Len(s) - 1 /\ Len(s) \in Nat \ {0} /\ Head(s) = s[1]
      /\ \A i \in 1..Len(Tail(s)) : Tail(s)[i] = s[i + 1]
  BY HeadTailProperties, EmptySeq
<1>2. \A i \in 1..Len(Tail(s)) : i + 1 \in 1..Len(s) /\ Tail(s)[i] = s[i + 1]
  BY <1>1
<1>3. Kept(Tail(s), s)
  BY <1>2, 1 \in Nat DEF Kept
<1> QED BY <1>1, <1>3

LEMMA KeptPrefix ==
  ASSUME NEW s \in Seq(Messages), NEW k \in Nat, k < Len(s)
  PROVE  SubSeq(s, 1, k) \in Seq(Messages) /\ Kept(SubSeq(s, 1, k), s)
<1>1. Len(s) \in Nat /\ \A i \in 1..k : s[i] \in Messages
  BY LenProperties, ElementOfSeq
<1>2. /\ SubSeq(s, 1, k) \in Seq(Messages)
      /\ Len(SubSeq(s, 1, k)) = IF 1 <= k THEN k - 1 + 1 ELSE 0
      /\ \A i \in 1..(k - 1 + 1) : SubSeq(s, 1, k)[i] = s[1 + i - 1]
  BY <1>1, SubSeqProperties, SMT
<1>3. \A i \in 1..Len(SubSeq(s, 1, k)) : i + 0 \in 1..Len(s) /\ SubSeq(s, 1, k)[i] = s[i + 0]
  BY <1>1, <1>2
<1> QED BY <1>2, <1>3 DEF Kept

\* A job stays on its way once when messages are lost or taken.
LEMMA KeptOnce ==
  ASSUME NEW s \in Seq(Messages), NEW t \in Seq(Messages), Kept(t, s), SentOnce(s)
  PROVE  SentOnce(t)
<1>1. PICK d \in Nat : \A i \in 1..Len(t) : i + d \in 1..Len(s) /\ t[i] = s[i + d]
  BY DEF Kept
<1> SUFFICES ASSUME NEW i \in 1..Len(t), NEW k \in 1..Len(t), t[i].kind = "JOB", t[i] = t[k]
             PROVE  i = k
  BY DEF SentOnce
<1>2. i + d = k + d
  BY <1>1 DEF SentOnce
<1> QED BY <1>1, <1>2

Wires == [Nodes -> [Nodes -> Seq(Messages)]]

LEMMA CutKept ==
  ASSUME TypeOK, NEW n \in Nodes, NEW p \in Nodes, NEW kept \in 0..Cardinality(Jobs)
  PROVE  /\ CutAt(n, p, kept) \in [Nodes -> [Nodes -> Seq(Messages)]]
         /\ \A a, b \in Nodes : /\ Kept(CutAt(n, p, kept)[a][b], wire[a][b])
                                /\ ~(a = n /\ b = p) => CutAt(n, p, kept)[a][b] = wire[a][b]
<1> DEFINE cut == IF end[n][p] = "up" /\ kept < Len(wire[n][p])
                  THEN SubSeq(wire[n][p], 1, kept) ELSE wire[n][p]
<1>1. kept \in Nat
  BY FS_CardinalityType, MeshAssumption
<1>2. wire \in [Nodes -> [Nodes -> Seq(Messages)]] /\ \A a, b \in Nodes : wire[a][b] \in Seq(Messages)
  BY DEF TypeOK
<1>3. cut \in Seq(Messages) /\ Kept(cut, wire[n][p])
  BY <1>1, <1>2, KeptPrefix, KeptSame
<1>4. CutAt(n, p, kept) = [wire EXCEPT ![n][p] = cut]
  BY DEF CutAt
<1> HIDE DEF cut
<1>5. CutAt(n, p, kept) \in [Nodes -> [Nodes -> Seq(Messages)]]
  BY <1>2, <1>3, <1>4
<1>6. \A a, b \in Nodes : CutAt(n, p, kept)[a][b] = IF a = n /\ b = p THEN cut ELSE wire[a][b]
  BY <1>2, <1>4
<1>7. ASSUME NEW a \in Nodes, NEW b \in Nodes
      PROVE  Kept(CutAt(n, p, kept)[a][b], wire[a][b])
  <2>1. CASE a = n /\ b = p
    BY <1>3, <1>6, <2>1
  <2>2. CASE ~(a = n /\ b = p)
    BY <1>2, <1>6, <2>2, KeptSame
  <2> QED BY <2>1, <2>2
<1> QED BY <1>5, <1>6, <1>7

LEMMA SendWire ==
  ASSUME TypeOK, NEW n \in Nodes, NEW p \in Nodes, NEW m \in Messages, Send(n, p, m)
  PROVE  /\ wire' \in [Nodes -> [Nodes -> Seq(Messages)]]
         /\ \A a, b \in Nodes : wire'[a][b] = IF a = n /\ b = p /\ end[p][n] # "down"
                                              THEN Append(wire[a][b], m) ELSE wire[a][b]
<1>1. wire[n][p] \in Seq(Messages)
  BY DEF TypeOK
<1>2. Append(wire[n][p], m) \in Seq(Messages)
  BY <1>1, AppendProperties
<1> QED BY <1>2 DEF Send, TypeOK

LEMMA TakenWire ==
  ASSUME TypeOK, NEW n \in Nodes, NEW p \in Nodes, NEW kinds, Take(n, p, kinds), Taken(n, p)
  PROVE  /\ wire' \in [Nodes -> [Nodes -> Seq(Messages)]]
         /\ \A a, b \in Nodes : wire'[a][b] = IF a = p /\ b = n THEN Tail(wire[a][b]) ELSE wire[a][b]
         /\ \A a, b \in Nodes : Kept(wire'[a][b], wire[a][b])
         /\ Head(wire[p][n]) \in Messages /\ Head(wire[p][n]) = wire[p][n][1] /\ 1 \in 1..Len(wire[p][n])
<1>1. \A a, b \in Nodes : wire[a][b] \in Seq(Messages)
  BY DEF TypeOK
<1>2. /\ Tail(wire[p][n]) \in Seq(Messages) /\ Kept(Tail(wire[p][n]), wire[p][n])
      /\ Head(wire[p][n]) = wire[p][n][1] /\ 1 \in 1..Len(wire[p][n])
  BY <1>1, KeptTail DEF Take
<1>3. Head(wire[p][n]) \in Messages
  BY <1>1, <1>2, ElementOfSeq
<1>4. wire' \in [Nodes -> [Nodes -> Seq(Messages)]]
  BY <1>2 DEF Taken, TypeOK
<1>5. \A a, b \in Nodes : wire'[a][b] = IF a = p /\ b = n THEN Tail(wire[a][b]) ELSE wire[a][b]
  BY DEF Taken, TypeOK
<1>6. ASSUME NEW a \in Nodes, NEW b \in Nodes
      PROVE  Kept(wire'[a][b], wire[a][b])
  <2>1. CASE a = p /\ b = n
    BY <1>2, <1>5, <2>1
  <2>2. CASE ~(a = p /\ b = n)
    BY <1>1, <1>5, <2>2, KeptSame
  <2> QED BY <2>1, <2>2
<1> QED BY <1>2, <1>3, <1>4, <1>5, <1>6

LEMMA RefuseWire ==
  ASSUME TypeOK, NEW n \in Nodes, NEW p \in Nodes, n # p, RefuseJob(n, p)
  PROVE  LET m == [kind |-> "BUSY", job |-> Head(wire[p][n]).job]
         IN  /\ wire' \in [Nodes -> [Nodes -> Seq(Messages)]]
             /\ m \in Messages
             /\ \A a, b \in Nodes :
                  wire'[a][b] = IF a = p /\ b = n THEN Tail(wire[a][b])
                                ELSE IF a = n /\ b = p /\ end[p][n] # "down" THEN Append(wire[a][b], m)
                                ELSE wire[a][b]
<1> DEFINE m == [kind |-> "BUSY", job |-> Head(wire[p][n]).job]
<1>1. \A a, b \in Nodes : wire[a][b] \in Seq(Messages)
  BY DEF TypeOK
<1>2. Tail(wire[p][n]) \in Seq(Messages) /\ Head(wire[p][n]) = wire[p][n][1] /\ 1 \in 1..Len(wire[p][n])
  BY <1>1, KeptTail DEF Take, RefuseJob
<1>3. Head(wire[p][n]) \in Messages
  BY <1>1, <1>2, ElementOfSeq
<1>4. m \in Messages
  BY <1>3 DEF Messages
<1>5. Append(wire[n][p], m) \in Seq(Messages)
  BY <1>1, <1>4, AppendProperties
<1>6. wire' = [wire EXCEPT ![p][n] = Tail(@), ![n][p] = IF end[p][n] = "down" THEN @ ELSE Append(@, m)]
  BY DEF RefuseJob
<1> HIDE DEF m
<1>7. /\ wire' \in [Nodes -> [Nodes -> Seq(Messages)]]
      /\ \A a, b \in Nodes :
           wire'[a][b] = IF a = p /\ b = n THEN Tail(wire[a][b])
                         ELSE IF a = n /\ b = p /\ end[p][n] # "down" THEN Append(wire[a][b], m)
                         ELSE wire[a][b]
  <2> DEFINE w == [wire EXCEPT ![p][n] = Tail(@)]
             x == IF end[p][n] = "down" THEN wire[n][p] ELSE Append(wire[n][p], m)
  <2>1. wire \in Wires
    BY DEF TypeOK, Wires
  <2>2. w = [wire EXCEPT ![p][n] = Tail(wire[p][n])]
    BY <2>1 DEF Wires
  <2>3. wire' = [w EXCEPT ![n][p] = IF end[p][n] = "down" THEN @ ELSE Append(@, m)]
    BY <1>6
  <2> HIDE DEF w
  <2>4. w \in Wires
    BY <1>2, <2>1, <2>2 DEF Wires
  <2>5. \A a, b \in Nodes : w[a][b] = IF a = p /\ b = n THEN Tail(wire[p][n]) ELSE wire[a][b]
    BY <2>1, <2>2 DEF Wires
  <2>6. x \in Seq(Messages) /\ wire' = [w EXCEPT ![n][p] = x]
    <3>1. x \in Seq(Messages)
      BY <1>1, <1>5
    <3>2. w[n][p] = wire[n][p]
      BY <2>5
    <3> QED BY <2>3, <3>1, <3>2
  <2> HIDE DEF x
  <2>7. wire' \in Wires
    BY <2>4, <2>6 DEF Wires
  <2>9. \A a, b \in Nodes : wire'[a][b] = IF a = n /\ b = p THEN x ELSE w[a][b]
    BY <2>4, <2>6 DEF Wires
  <2>8. ASSUME NEW a \in Nodes, NEW b \in Nodes
        PROVE  wire'[a][b] = IF a = p /\ b = n THEN Tail(wire[a][b])
                             ELSE IF a = n /\ b = p /\ end[p][n] # "down" THEN Append(wire[a][b], m)
                             ELSE wire[a][b]
    <3>1. wire'[a][b] = IF a = n /\ b = p THEN x
                        ELSE IF a = p /\ b = n THEN Tail(wire[p][n]) ELSE wire[a][b]
      BY <2>5, <2>9
    <3> QED BY <3>1 DEF x
  <2> QED BY <2>7, <2>8 DEF Wires
<1> QED BY <1>4, <1>7 DEF m

-----------------------------------------------------------------------------
(* What a step must respect to keep each part of the invariant.            *)

\* One direction of a connection, where messages are lost or taken.
LEMMA WirePair ==
  ASSUME TypeOK, TypeOK', WireExact, NEW a \in Nodes, NEW b \in Nodes,
         Kept(wire'[a][b], wire[a][b]),
         \A m \in Messages : MessageExact(a, b, m) => MessageExact(a, b, m)'
  PROVE  /\ \A i \in 1..Len(wire[a][b])' : MessageExact(a, b, wire[a][b][i])'
         /\ SentOnce(wire[a][b])'
<1>1. wire[a][b] \in Seq(Messages) /\ wire'[a][b] \in Seq(Messages)
  BY DEF TypeOK
<1>2. SentOnce(wire'[a][b])
  BY <1>1, KeptOnce DEF WireExact
<1>3. ASSUME NEW i \in 1..Len(wire'[a][b])
      PROVE  MessageExact(a, b, wire[a][b][i])'
  <2>1. PICK d \in Nat : i + d \in 1..Len(wire[a][b]) /\ wire'[a][b][i] = wire[a][b][i + d]
    BY DEF Kept
  <2>2. PICK m \in Messages : m = wire[a][b][i + d] /\ MessageExact(a, b, m)
    BY <1>1, <2>1, ElementOfSeq DEF WireExact
  <2>3. MessageExact(a, b, m)' /\ wire'[a][b][i] = m
    BY <2>1, <2>2
  <2> QED BY <2>3 DEF MessageExact
<1> QED BY <1>2, <1>3 DEF SentOnce

LEMMA WireStep ==
  ASSUME TypeOK, TypeOK', WireExact,
         \A a, b \in Nodes : Kept(wire'[a][b], wire[a][b]),
         \A a, b \in Nodes, m \in Messages : MessageExact(a, b, m) => MessageExact(a, b, m)'
  PROVE  WireExact'
BY WirePair DEF WireExact

\* The same where a message is appended to one direction of a connection; a job
\* only where it could not be on its way before.
LEMMA WireAppend ==
  ASSUME TypeOK, TypeOK', WireExact, NEW n \in Nodes, NEW p \in Nodes, NEW e \in Messages,
         wire'[n][p] = Append(wire[n][p], e) \/ Kept(wire'[n][p], wire[n][p]),
         \A a, b \in Nodes : ~(a = n /\ b = p) => Kept(wire'[a][b], wire[a][b]),
         \A a, b \in Nodes, m \in Messages : MessageExact(a, b, m) => MessageExact(a, b, m)',
         MessageExact(n, p, e)',
         e.kind = "JOB" => ~MessageExact(n, p, e)
  PROVE  WireExact'
<1>1. CASE Kept(wire'[n][p], wire[n][p])
  BY <1>1, WireStep
<1>2. CASE wire'[n][p] = Append(wire[n][p], e)
  <2>1. ASSUME NEW a \in Nodes, NEW b \in Nodes, ~(a = n /\ b = p)
        PROVE  /\ \A i \in 1..Len(wire[a][b])' : MessageExact(a, b, wire[a][b][i])'
               /\ SentOnce(wire[a][b])'
    BY <2>1, WirePair
  <2>2. wire[n][p] \in Seq(Messages)
    BY DEF TypeOK
  <2>3. /\ Len(wire'[n][p]) = Len(wire[n][p]) + 1 /\ Len(wire[n][p]) \in Nat
        /\ \A i \in 1..Len(wire[n][p]) : wire'[n][p][i] = wire[n][p][i]
        /\ wire'[n][p][Len(wire[n][p]) + 1] = e
    BY <1>2, <2>2, AppendProperties, LenProperties
  <2>4. ASSUME NEW i \in 1..Len(wire[n][p])
        PROVE  wire[n][p][i] \in Messages /\ MessageExact(n, p, wire[n][p][i])
    BY <2>2, ElementOfSeq DEF WireExact
  <2>5. ASSUME NEW i \in 1..Len(wire'[n][p])
        PROVE  MessageExact(n, p, wire[n][p][i])'
    <3>1. CASE i \in 1..Len(wire[n][p])
      <4>1. PICK m \in Messages : m = wire[n][p][i] /\ MessageExact(n, p, m)
        BY <2>4, <3>1
      <4>2. MessageExact(n, p, m)' /\ wire'[n][p][i] = m
        BY <2>3, <3>1, <4>1
      <4> QED BY <4>2 DEF MessageExact
    <3>2. CASE i = Len(wire[n][p]) + 1
      <4>1. wire'[n][p][i] = e
        BY <2>3, <3>2
      <4> QED BY <4>1 DEF MessageExact
    <3> QED BY <2>3, <3>1, <3>2
  <2>6. ASSUME NEW i \in 1..Len(wire'[n][p]), NEW k \in 1..Len(wire'[n][p]),
               wire'[n][p][i].kind = "JOB", wire'[n][p][i] = wire'[n][p][k]
        PROVE  i = k
    <3>1. CASE i \in 1..Len(wire[n][p]) /\ k \in 1..Len(wire[n][p])
      BY <2>3, <2>6, <3>1 DEF WireExact, SentOnce
    <3>2. CASE i = Len(wire[n][p]) + 1 /\ k # i
      BY <2>3, <2>4, <2>6, <3>2
    <3>3. CASE k = Len(wire[n][p]) + 1 /\ k # i
      BY <2>3, <2>4, <2>6, <3>3
    <3> QED BY <2>3, <3>1, <3>2, <3>3
  <2>7. SentOnce(wire[n][p])'
    BY <2>6 DEF SentOnce
  <2> QED BY <2>1, <2>5, <2>7 DEF WireExact
<1> QED BY <1>1, <1>2

\* A pending request of n at p is on its way, being answered, or answered.
Held(n, p, j) == \/ OnWire(wire[n][p], j, {"JOB"})
                 \/ reply[p][j] # "none"
                 \/ OnWire(wire[p][n], j, {"RESULT", "BUSY", "ERROR"})

LEMMA AccountStep ==
  ASSUME RequestAccounted,
         \A n, p \in Nodes : (end[n][p] = "up" /\ end[p][n] = "up")' =>
           /\ end[n][p] = "up" /\ end[p][n] = "up"
           /\ \A j \in Jobs : j \in Pending(n, p)' =>
                j \in Pending(n, p) /\ (Held(n, p, j) => Held(n, p, j)')
  PROVE  RequestAccounted'
BY DEF RequestAccounted, Held, Pending

LEMMA PlacesStep ==
  ASSUME PlacesExact,
         \A n, p \in Nodes : n # p =>
           \/ reserved'[n][p] = reserved[n][p] /\ Attempting(n, p)' = Attempting(n, p)
           \/ reserved'[n][p] = 0 /\ Attempting(n, p)' = {}
  PROVE  PlacesExact'
<1>1. Cardinality({}) = 0
  BY FS_EmptySet
<1> QED BY <1>1 DEF PlacesExact

-----------------------------------------------------------------------------
(* Every step keeps the invariant.  The sessions first.                    *)

LEMMA BothWays ==
  ASSUME NEW S, NEW f \in [Nodes -> [Nodes -> S]], NEW n \in Nodes, NEW p \in Nodes, n # p,
         NEW x \in S, NEW y \in S, NEW g, g = [f EXCEPT ![n][p] = x, ![p][n] = y]
  PROVE  /\ g \in [Nodes -> [Nodes -> S]]
         /\ \A a, b \in Nodes : g[a][b] = IF a = n /\ b = p THEN x
                                          ELSE IF a = p /\ b = n THEN y ELSE f[a][b]
<1> DEFINE fn == [f[n] EXCEPT ![p] = x]
           fp == [f[p] EXCEPT ![n] = y]
<1>1. fn \in [Nodes -> S] /\ fp \in [Nodes -> S]
  OBVIOUS
<1>2. \A b \in Nodes : fn[b] = (IF b = p THEN x ELSE f[n][b]) /\ fp[b] = IF b = n THEN y ELSE f[p][b]
  OBVIOUS
<1>3. g = [[f EXCEPT ![n] = fn] EXCEPT ![p] = fp]
  OBVIOUS
<1> HIDE DEF fn, fp
<1>4. \A a \in Nodes : g[a] = IF a = n THEN fn ELSE IF a = p THEN fp ELSE f[a]
  BY <1>3
<1>5. g \in [Nodes -> [Nodes -> S]]
  BY <1>1, <1>3
<1> QED BY <1>2, <1>4, <1>5

LEMMA ConnectInv ==
  ASSUME IInv, NEW n \in Nodes, NEW p \in Nodes, Connect(n, p)
  PROVE  IInv'
<1> USE DEF IInv
<1> DEFINE pair(a, b) == (a = n /\ b = p) \/ (a = p /\ b = n)
           Ends == {"down", "up", "closing"}
<1>1. n # p
  BY MeshAssumption DEF Connect
<1>2. UNCHANGED <<queued, capacity, reserved, work, reply, at, target, tried, old, ran>>
  BY DEF Connect, attempt
<1>3. /\ end' \in [Nodes -> [Nodes -> Ends]]
      /\ \A a, b \in Nodes : end'[a][b] = IF pair(a, b) THEN "up" ELSE end[a][b]
  <2>1. end' = [end EXCEPT ![n][p] = "up", ![p][n] = "up"]
    BY DEF Connect
  <2>2. "up" \in Ends /\ end \in [Nodes -> [Nodes -> Ends]]
    BY DEF TypeOK
  <2> HIDE DEF Ends
  <2> QED BY <1>1, <2>1, <2>2, BothWays
<1>4. /\ wire' \in [Nodes -> [Nodes -> Seq(Messages)]]
      /\ \A a, b \in Nodes : wire'[a][b] = IF pair(a, b) THEN <<>> ELSE wire[a][b]
  <2>1. wire' = [wire EXCEPT ![n][p] = <<>>, ![p][n] = <<>>]
    BY DEF Connect
  <2>2. <<>> \in Seq(Messages) /\ wire \in [Nodes -> [Nodes -> Seq(Messages)]]
    BY EmptySeq DEF TypeOK
  <2> QED BY <1>1, <2>1, <2>2, BothWays
<1>5. TypeOK'
  <2>1. opened' \in 0..MaxSessions
    BY MeshAssumption DEF Connect, TypeOK
  <2> QED BY <1>2, <1>3, <1>4, <2>1 DEF TypeOK
<1>6. WireExact'
  <2>1. \A a, b \in Nodes, m \in Messages : MessageExact(a, b, m) => MessageExact(a, b, m)'
    BY <1>2 DEF MessageExact
  <2>2. \A a, b \in Nodes : wire[a][b] \in Seq(Messages)
    BY DEF TypeOK
  <2>3. \A a, b \in Nodes : Kept(wire'[a][b], wire[a][b])
    BY <1>4, <2>2, KeptSame, KeptEmpty
  <2> QED BY <1>5, <2>1, <2>3, WireStep
<1>7. WorkExact'
  BY <1>2 DEF WorkExact
<1>8. AttemptExact'
  <2>1. \A j \in Jobs : Owner[j] \in Nodes /\ (at[j] = "sent" => target[j] \in Nodes)
    BY MeshAssumption DEF AttemptExact, TypeOK
  <2> QED BY <1>2, <1>3, <2>1 DEF AttemptExact, Attempts
<1>9. PlacesExact'
  BY <1>2, PlacesStep DEF Attempting
<1>10. RequestAccounted'
  <2>1. Pending(n, p) = {} /\ Pending(p, n) = {}
    BY DEF Connect, Pending, AttemptExact
  <2>2. \A a, b \in Nodes : Pending(a, b)' = Pending(a, b)
    BY <1>2 DEF Pending
  <2> SUFFICES ASSUME NEW a \in Nodes, NEW b \in Nodes, end'[a][b] = "up", end'[b][a] = "up",
                      NEW j \in Pending(a, b)
               PROVE  Held(a, b, j)'
    BY <2>2 DEF RequestAccounted, Held
  <2>3. ~pair(a, b) /\ end[a][b] = "up" /\ end[b][a] = "up"
    BY <1>3, <2>1
  <2>4. Held(a, b, j)
    BY <2>3 DEF RequestAccounted, Held
  <2> QED BY <1>2, <1>4, <2>3, <2>4 DEF Held
<1> QED BY <1>5, <1>6, <1>7, <1>8, <1>9, <1>10

\* Failed requests are neither pending nor selected, and keep their places.
LEMMA FailPendingExact ==
  ASSUME TypeOK, NEW n \in Nodes, NEW p \in Nodes, FailPending(n, p), target' = target,
         \A j \in Jobs : old[j] => old'[j]
  PROVE  /\ at' \in [Jobs -> Stages]
         /\ \A j \in Jobs : at'[j] = at[j] \/ (at[j] = "sent" /\ at'[j] = "failed")
         /\ \A a, b \in Nodes : Pending(a, b)' \subseteq Pending(a, b)
         /\ Pending(n, p)' = {}
<1>1. at' \in [Jobs -> Stages] /\ \A j \in Jobs : at'[j] = at[j] \/ (at[j] = "sent" /\ at'[j] = "failed")
  BY DEF FailPending, TypeOK, Stages
<1>2. \A a, b \in Nodes : Pending(a, b)' \subseteq Pending(a, b)
  BY <1>1 DEF Pending, TypeOK
<1>3. \A j \in Jobs : ~(at'[j] = "sent" /\ Owner[j] = n /\ target[j] = p /\ ~old[j])
  BY DEF FailPending
<1>4. Pending(n, p)' = {}
  BY <1>3 DEF Pending
<1> QED BY <1>1, <1>2, <1>4

LEMMA DisconnectInv ==
  ASSUME IInv, NEW n \in Nodes, NEW p \in Nodes, Disconnect(n, p)
  PROVE  IInv'
<1> USE DEF IInv
<1>1. PICK kept \in 0..Cardinality(Jobs) : wire' = CutAt(n, p, kept)
  BY DEF Disconnect
<1>2. /\ wire' \in [Nodes -> [Nodes -> Seq(Messages)]]
      /\ \A a, b \in Nodes : /\ Kept(wire'[a][b], wire[a][b])
                             /\ ~(a = n /\ b = p) => wire'[a][b] = wire[a][b]
  <2> DEFINE cut == CutAt(n, p, kept)
  <2>1. /\ cut \in [Nodes -> [Nodes -> Seq(Messages)]]
        /\ \A a, b \in Nodes : Kept(cut[a][b], wire[a][b]) /\ (~(a = n /\ b = p) => cut[a][b] = wire[a][b])
    BY CutKept
  <2> HIDE DEF cut
  <2> QED BY <1>1, <2>1 DEF cut
<1>3. UNCHANGED <<queued, capacity, reserved, work, reply, target, tried, old, ran, opened>>
  BY DEF Disconnect
<1>4. /\ at' \in [Jobs -> Stages]
      /\ \A j \in Jobs : at'[j] = at[j] \/ (at[j] = "sent" /\ at'[j] = "failed")
      /\ \A a, b \in Nodes : Pending(a, b)' \subseteq Pending(a, b)
  BY <1>3, FailPendingExact DEF Disconnect
<1>5. TypeOK'
  BY <1>2, <1>3, <1>4 DEF Disconnect, TypeOK
<1>6. WireExact'
  <2>1. \A a, b \in Nodes, m \in Messages : MessageExact(a, b, m) => MessageExact(a, b, m)'
    BY <1>3, <1>4 DEF MessageExact, Messages
  <2> QED BY <1>2, <1>5, <2>1, WireStep
<1>7. WorkExact'
  BY <1>3 DEF WorkExact
<1>8. \A a, b \in Nodes : end'[a][b] = IF a = n /\ b = p THEN "closing" ELSE end[a][b]
  BY DEF Disconnect, TypeOK
<1>9. AttemptExact'
  <2>1. \A j \in Jobs : Owner[j] \in Nodes /\ (at[j] = "sent" => target[j] \in Nodes)
    BY MeshAssumption DEF AttemptExact, TypeOK
  <2> QED BY <1>3, <1>4, <1>8, <2>1 DEF AttemptExact, Attempts
<1>10. PlacesExact'
  <2>1. \A a, b \in Nodes : Attempting(a, b)' = Attempting(a, b)
    BY <1>3, <1>4 DEF Attempting
  <2> QED BY <1>3, <2>1, PlacesStep
<1>11. RequestAccounted'
  <2>1. ASSUME NEW a \in Nodes, NEW b \in Nodes, end'[a][b] = "up", end'[b][a] = "up"
        PROVE  /\ end[a][b] = "up" /\ end[b][a] = "up"
               /\ wire'[a][b] = wire[a][b] /\ wire'[b][a] = wire[b][a]
    BY <1>2, <1>8, <2>1
  <2> QED BY <1>3, <1>4, <2>1, AccountStep DEF Held
<1> QED BY <1>5, <1>6, <1>7, <1>9, <1>10, <1>11

LEMMA ServeEndInv ==
  ASSUME IInv, NEW n \in Nodes, NEW p \in Nodes, ServeEnd(n, p)
  PROVE  IInv'
<1> USE DEF IInv
<1>1. PICK kept \in 0..Cardinality(Jobs) : wire' = [CutAt(n, p, kept) EXCEPT ![p][n] = <<>>]
  BY DEF ServeEnd
<1>2. /\ wire' \in [Nodes -> [Nodes -> Seq(Messages)]]
      /\ \A a, b \in Nodes :
           /\ Kept(wire'[a][b], wire[a][b])
           /\ ~(a = n /\ b = p) /\ ~(a = p /\ b = n) => wire'[a][b] = wire[a][b]
  <2> DEFINE cut == CutAt(n, p, kept)
  <2>1. /\ cut \in [Nodes -> [Nodes -> Seq(Messages)]]
        /\ \A a, b \in Nodes : Kept(cut[a][b], wire[a][b]) /\ (~(a = n /\ b = p) => cut[a][b] = wire[a][b])
    BY CutKept
  <2>2. wire' = [cut EXCEPT ![p][n] = <<>>]
    BY <1>1
  <2> HIDE DEF cut
  <2>3. wire' \in [Nodes -> [Nodes -> Seq(Messages)]]
    BY <2>1, <2>2, EmptySeq
  <2>4. \A a, b \in Nodes : wire'[a][b] = IF a = p /\ b = n THEN <<>> ELSE cut[a][b]
    BY <2>1, <2>2
  <2>5. Kept(<<>>, wire[p][n])
    BY KeptEmpty DEF TypeOK
  <2>6. ASSUME NEW a \in Nodes, NEW b \in Nodes
        PROVE  /\ Kept(wire'[a][b], wire[a][b])
               /\ ~(a = n /\ b = p) /\ ~(a = p /\ b = n) => wire'[a][b] = wire[a][b]
    <3>1. CASE a = p /\ b = n
      BY <2>4, <2>5, <3>1
    <3>2. CASE ~(a = p /\ b = n)
      <4>1. wire'[a][b] = cut[a][b]
        BY <2>4, <3>2
      <4> QED BY <2>1, <4>1
    <3> QED BY <3>1, <3>2
  <2> QED BY <2>3, <2>6
<1>3. UNCHANGED <<work, target, tried, ran, opened>>
  BY DEF ServeEnd
<1>4. /\ at' \in [Jobs -> Stages]
      /\ \A j \in Jobs : at'[j] = at[j] \/ (at[j] = "sent" /\ at'[j] = "failed")
      /\ \A a, b \in Nodes : Pending(a, b)' \subseteq Pending(a, b)
  <2>1. \A j \in Jobs : old[j] => old'[j]
    BY DEF ServeEnd
  <2> QED BY <1>3, <2>1, FailPendingExact DEF ServeEnd
<1>5. /\ old' \in [Jobs -> BOOLEAN]
      /\ \A j \in Jobs : old'[j] <=> old[j] \/ (Owner[j] = n /\ target[j] = p)
  BY DEF ServeEnd, TypeOK
<1>6. /\ reply' \in [Nodes -> [Jobs -> {"none", "waiting", "RESULT", "ERROR"}]]
      /\ \A a \in Nodes, j \in Jobs : reply'[a][j] = IF a = n /\ Owner[j] = p THEN "none" ELSE reply[a][j]
  BY DEF ServeEnd, TypeOK
<1>7. /\ end' \in [Nodes -> [Nodes -> {"down", "up", "closing"}]]
      /\ \A a, b \in Nodes : end'[a][b] = IF a = n /\ b = p THEN "down" ELSE end[a][b]
  BY DEF ServeEnd, TypeOK
<1>8. /\ queued' \in Pairs /\ capacity' \in Pairs /\ reserved' \in Pairs
      /\ \A a, b \in Nodes : reserved'[a][b] = IF a = n /\ b = p THEN 0 ELSE reserved[a][b]
  BY DEF ServeEnd, TypeOK, Pairs
<1>9. TypeOK'
  BY <1>2, <1>3, <1>4, <1>5, <1>6, <1>7, <1>8 DEF TypeOK
<1>10. WireExact'
  <2>1. \A a, b \in Nodes, m \in Messages : MessageExact(a, b, m) => MessageExact(a, b, m)'
    BY <1>3, <1>4 DEF MessageExact, Messages
  <2> QED BY <1>2, <1>9, <2>1, WireStep
<1>11. WorkExact'
  BY <1>3, <1>6 DEF WorkExact
<1>12. AttemptExact'
  <2>1. \A j \in Jobs : Owner[j] \in Nodes /\ (at[j] = "sent" => target[j] \in Nodes)
    BY MeshAssumption DEF AttemptExact, TypeOK
  <2> QED BY <1>3, <1>4, <1>5, <1>7, <2>1 DEF AttemptExact, Attempts
<1>13. PlacesExact'
  <2>1. \A a, b \in Nodes : ~(a = n /\ b = p) => Attempting(a, b)' = Attempting(a, b)
    BY <1>3, <1>4, <1>5 DEF Attempting
  <2>2. Attempting(n, p)' = {}
    BY <1>3, <1>5 DEF Attempting
  <2> QED BY <1>8, <2>1, <2>2, PlacesStep
<1>14. RequestAccounted'
  <2>1. ASSUME NEW a \in Nodes, NEW b \in Nodes, end'[a][b] = "up", end'[b][a] = "up"
        PROVE  /\ end[a][b] = "up" /\ end[b][a] = "up"
               /\ wire'[a][b] = wire[a][b] /\ wire'[b][a] = wire[b][a]
               /\ \A j \in Jobs : Owner[j] = a => reply'[b][j] = reply[b][j]
    BY <1>2, <1>6, <1>7, <2>1
  <2>2. \A a, b \in Nodes, j \in Jobs : j \in Pending(a, b)' => j \in Pending(a, b) /\ Owner[j] = a
    BY <1>4 DEF Pending
  <2> QED BY <2>1, <2>2, AccountStep DEF Held
<1> QED BY <1>9, <1>10, <1>11, <1>12, <1>13, <1>14

LEMMA CrashInv ==
  ASSUME IInv, NEW n \in Nodes, Crash(n)
  PROVE  IInv'
<1> USE DEF IInv
<1>1. /\ wire' \in [Nodes -> [Nodes -> Seq(Messages)]]
      /\ \A a, b \in Nodes : /\ Kept(wire'[a][b], wire[a][b])
                             /\ n \notin {a, b} => wire'[a][b] = wire[a][b]
  <2>1. \A a, b \in Nodes : wire[a][b] \in Seq(Messages) /\ <<>> \in Seq(Messages)
    BY DEF TypeOK
  <2>2. wire' = [m \in Nodes |-> [p \in Nodes |-> IF n \in {m, p} THEN <<>> ELSE wire[m][p]]]
    BY DEF Crash
  <2> QED BY <2>1, <2>2, KeptSame, KeptEmpty
<1>2. UNCHANGED <<target, tried, old, ran, opened>>
  BY DEF Crash
<1>3. /\ at' \in [Jobs -> Stages]
      /\ \A j \in Jobs : IF Owner[j] = n THEN at'[j] \in {"idle", "done", "error", "lost"} /\ (at'[j] = at[j] \/ at'[j] = "lost")
                                         ELSE at'[j] = at[j]
  BY DEF Crash, TypeOK, Stages
<1>4. /\ reply' \in [Nodes -> [Jobs -> {"none", "waiting", "RESULT", "ERROR"}]]
      /\ \A a \in Nodes, j \in Jobs : reply'[a][j] = IF a = n THEN "none" ELSE reply[a][j]
  BY DEF Crash, TypeOK
<1>5. /\ work' \in [Nodes -> SUBSET Jobs]
      /\ \A a \in Nodes : work'[a] = IF a = n THEN {} ELSE work[a]
  BY DEF Crash, TypeOK
<1>6. /\ end' \in [Nodes -> [Nodes -> {"down", "up", "closing"}]]
      /\ \A a, b \in Nodes : end'[a][b] = IF a = n THEN "down" ELSE end[a][b]
  BY DEF Crash, TypeOK
<1>7. /\ queued' \in Pairs /\ capacity' \in Pairs /\ reserved' \in Pairs
      /\ \A a, b \in Nodes : reserved'[a][b] = IF a = n THEN 0 ELSE reserved[a][b]
  BY DEF Crash, TypeOK, Pairs, Zero
<1>8. TypeOK'
  BY <1>1, <1>2, <1>3, <1>4, <1>5, <1>6, <1>7 DEF TypeOK
<1>9. WireExact'
  <2>1. \A a, b \in Nodes, m \in Messages : MessageExact(a, b, m) => MessageExact(a, b, m)'
    BY <1>2, <1>3, <1>5 DEF MessageExact, Messages
  <2> QED BY <1>1, <1>8, <2>1, WireStep
<1>10. WorkExact'
  BY <1>2, <1>4, <1>5 DEF WorkExact
<1>11. AttemptExact'
  <2>1. \A j \in Jobs : Owner[j] \in Nodes
                        /\ (at[j] \in {"sent", "selected"} => target[j] \in Nodes)
    BY MeshAssumption DEF AttemptExact, TypeOK
  <2> QED BY <1>2, <1>3, <1>5, <1>6, <2>1 DEF AttemptExact, Attempts
<1>12. PlacesExact'
  <2>1. \A a, b \in Nodes : a # n => Attempting(a, b)' = Attempting(a, b)
    BY <1>2, <1>3 DEF Attempting
  <2>2. \A b \in Nodes : Attempting(n, b)' = {}
    BY <1>2, <1>3 DEF Attempting
  <2> QED BY <1>7, <2>1, <2>2, PlacesStep
<1>13. RequestAccounted'
  <2>1. ASSUME NEW a \in Nodes, NEW b \in Nodes, end'[a][b] = "up", end'[b][a] = "up"
        PROVE  /\ end[a][b] = "up" /\ end[b][a] = "up"
               /\ wire'[a][b] = wire[a][b] /\ wire'[b][a] = wire[b][a]
               /\ \A j \in Jobs : reply'[b][j] = reply[b][j]
    BY <1>1, <1>4, <1>6, <2>1
  <2>2. \A a, b \in Nodes, j \in Jobs : j \in Pending(a, b)' => j \in Pending(a, b)
    BY <1>2, <1>3 DEF Pending
  <2> QED BY <2>1, <2>2, AccountStep DEF Held
<1> QED BY <1>8, <1>9, <1>10, <1>11, <1>12, <1>13

LEMMA HeartbeatInv ==
  ASSUME IInv, NEW n \in Nodes, NEW p \in Nodes, Heartbeat(n, p)
  PROVE  IInv'
<1> USE DEF IInv
<1>1. UNCHANGED <<end, wire, reserved, work, reply, at, target, tried, old, ran, opened>>
  BY DEF Heartbeat, attempt
<1>2. TypeOK'
  <2>1. Cardinality(work[n]) \in Nat
    BY FS_Subset, FS_CardinalityType, MeshAssumption DEF TypeOK
  <2>2. queued' \in Pairs /\ capacity' \in Pairs
    BY <2>1, MeshAssumption DEF Heartbeat, TypeOK, Pairs
  <2> QED BY <1>1, <2>2 DEF TypeOK
<1>3. WireExact'
  BY <1>1 DEF WireExact, MessageExact
<1>4. WorkExact' /\ AttemptExact'
  BY <1>1 DEF WorkExact, AttemptExact, Attempts
<1>5. PlacesExact'
  BY <1>1, PlacesStep DEF Attempting
<1>6. RequestAccounted'
  BY <1>1 DEF RequestAccounted, Pending
<1> QED BY <1>2, <1>3, <1>4, <1>5, <1>6

-----------------------------------------------------------------------------
(* submit.                                                                 *)

\* A submission that is given, given up or out of time has no attempt.
LEMMA IdleInv ==
  ASSUME IInv, NEW j \in Jobs, Submit(j) \/ GiveUp(j) \/ RunOut(j)
  PROVE  IInv'
<1> USE DEF IInv
<1>1. UNCHANGED <<end, wire, queued, capacity, reserved, work, reply, target, tried, old, ran, opened>>
  BY DEF Submit, GiveUp, RunOut, session
<1>2. /\ at' \in [Jobs -> Stages] /\ at[j] \in {"idle", "choosing"} /\ at'[j] \in {"choosing", "error"}
      /\ \A k \in Jobs : k # j => at'[k] = at[k]
  BY DEF Submit, GiveUp, RunOut, TypeOK, Stages
<1>3. TypeOK'
  BY <1>1, <1>2 DEF TypeOK
<1>4. WireExact'
  <2>1. \A a, b \in Nodes, m \in Messages : MessageExact(a, b, m) => MessageExact(a, b, m)'
    BY <1>1, <1>2 DEF MessageExact, Messages
  <2>2. \A a, b \in Nodes : Kept(wire'[a][b], wire[a][b])
    BY <1>1, KeptSame DEF TypeOK
  <2> QED BY <1>3, <2>1, <2>2, WireStep
<1>5. WorkExact' /\ AttemptExact'
  BY <1>1, <1>2 DEF WorkExact, AttemptExact, Attempts
<1>6. PlacesExact'
  <2>1. \A a, b \in Nodes : Attempting(a, b)' = Attempting(a, b)
    BY <1>1, <1>2 DEF Attempting
  <2> QED BY <1>1, <2>1, PlacesStep
<1>7. RequestAccounted'
  <2>1. \A a, b \in Nodes, k \in Jobs : k \in Pending(a, b)' => k \in Pending(a, b)
    BY <1>1, <1>2 DEF Pending
  <2> QED BY <1>1, <2>1, AccountStep DEF Held
<1> QED BY <1>3, <1>4, <1>5, <1>6, <1>7

LEMMA AttemptsNat == \A n \in Nodes : Attempts(n) \in Nat
<1> SUFFICES ASSUME NEW n \in Nodes PROVE Attempts(n) \in Nat
  OBVIOUS
<1>1. Cardinality(Peers[n]) \in Nat
  BY FS_Subset, FS_CardinalityType, MeshAssumption
<1> QED BY <1>1, MeshAssumption DEF Attempts

LEMMA AttemptingFinite ==
  \A n, p \in Nodes : IsFiniteSet(Attempting(n, p)) /\ Cardinality(Attempting(n, p)) \in Nat
BY FS_Subset, FS_CardinalityType, MeshAssumption DEF Attempting

LEMMA ChooseInv ==
  ASSUME IInv, NEW j \in Jobs, NEW p \in Nodes, Choose(j, p)
  PROVE  IInv'
<1> USE DEF IInv
<1> DEFINE n == Owner[j]
<1>1. n \in Nodes /\ p \notin tried[j] /\ at[j] = "choosing"
  BY MeshAssumption DEF Choose, Candidates
<1>2. UNCHANGED <<end, wire, queued, capacity, reply, ran, opened>>
  BY DEF Choose
<1>3. /\ tried' \in [Jobs -> SUBSET Nodes] /\ target' \in [Jobs -> Nodes \cup {NoNode}]
      /\ old' \in [Jobs -> BOOLEAN]
      /\ tried'[j] = tried[j] \cup {p} /\ target'[j] = p /\ ~old'[j]
      /\ \A k \in Jobs : k # j => tried'[k] = tried[k] /\ target'[k] = target[k] /\ old'[k] = old[k]
  BY DEF Choose, TypeOK
<1>4. /\ at' \in [Jobs -> Stages] /\ at'[j] = IF p = n THEN "local" ELSE "selected"
      /\ \A k \in Jobs : k # j => at'[k] = at[k]
  BY DEF Choose, TypeOK, Stages
<1>5. /\ work' \in [Nodes -> SUBSET Jobs]
      /\ \A a \in Nodes : work'[a] = IF a = n /\ p = n THEN work[a] \cup {j} ELSE work[a]
  <2>1. work' = IF p = n THEN [work EXCEPT ![p] = @ \cup {j}] ELSE work
    BY DEF Choose
  <2> QED BY <1>1, <2>1 DEF TypeOK
<1>6. /\ reserved' \in Pairs
      /\ \A a, b \in Nodes : reserved'[a][b] = IF a = n /\ b = p /\ p # n
                                               THEN reserved[a][b] + 1 ELSE reserved[a][b]
  <2>1. reserved' = IF p = n THEN reserved ELSE [reserved EXCEPT ![n][p] = @ + 1]
    BY DEF Choose
  <2>2. reserved \in [Nodes -> [Nodes -> Nat]]
    BY DEF TypeOK, Pairs
  <2> HIDE DEF n
  <2>3. reserved[n][p] + 1 \in Nat
    BY <1>1, <2>2
  <2> QED BY <1>1, <2>1, <2>2, <2>3 DEF Pairs
<1>7. TypeOK'
  BY <1>2, <1>3, <1>4, <1>5, <1>6 DEF TypeOK
<1>8. j \notin work[p] /\ ran[p][j] = 0
  BY <1>1 DEF WorkExact, TypeOK
<1>9. WireExact'
  <2>1. \A a, b \in Nodes, m \in Messages : MessageExact(a, b, m) => MessageExact(a, b, m)'
    BY <1>1, <1>2, <1>3, <1>4, <1>5 DEF MessageExact, Messages
  <2>2. \A a, b \in Nodes : Kept(wire'[a][b], wire[a][b])
    BY <1>2, KeptSame DEF TypeOK
  <2> QED BY <1>7, <2>1, <2>2, WireStep
<1>10. WorkExact'
  BY <1>2, <1>3, <1>5, <1>8 DEF WorkExact
<1>11. AttemptExact'
  <2>1. Cardinality(tried'[j]) <= Attempts(n)
    <3>1. IsFiniteSet(tried[j]) /\ Cardinality(tried[j]) \in Nat
      BY FS_Subset, FS_CardinalityType, MeshAssumption DEF TypeOK
    <3>2. Cardinality(tried'[j]) = Cardinality(tried[j]) + 1
      BY <1>1, <1>3, <3>1, FS_AddElement
    <3> QED BY <1>1, <3>1, <3>2, AttemptsNat DEF Choose
  <2> SUFFICES ASSUME NEW k \in Jobs
               PROVE  /\ at'[k] \in {"selected", "sent", "local", "answered", "failed", "done"}
                           => target'[k] \in tried'[k]
                      /\ at'[k] = "local" => target'[k] = Owner[k]
                      /\ at'[k] \in {"selected", "sent"} => target'[k] # Owner[k]
                      /\ at'[k] = "selected" => k \notin work'[target'[k]] /\ ran'[target'[k]][k] = 0
                      /\ at'[k] \in {"answered", "done"} => ran'[target'[k]][k] > 0
                      /\ at'[k] = "sent" /\ ~old'[k] => end'[Owner[k]][target'[k]] # "down"
                      /\ Cardinality(tried'[k]) <= Attempts(Owner[k])
    BY <1>2 DEF AttemptExact, Attempts
  <2>2. CASE k = j
    <3>1. p # n => j \notin work'[p]
      BY <1>5, <1>8
    <3> QED BY <1>1, <1>2, <1>3, <1>4, <1>8, <2>1, <2>2, <3>1
  <2>3. CASE k # j
    <3>1. at'[k] = at[k] /\ target'[k] = target[k] /\ tried'[k] = tried[k] /\ old'[k] = old[k]
      BY <1>3, <1>4, <2>3
    <3>2. at[k] = "selected" => target[k] \in Nodes
      BY DEF AttemptExact, TypeOK
    <3>3. at[k] = "selected" => k \notin work'[target[k]]
      BY <1>5, <2>3, <3>2 DEF AttemptExact
    <3> QED BY <1>2, <3>1, <3>3 DEF AttemptExact
  <2> QED BY <2>2, <2>3
<1>12. PlacesExact'
  <2> SUFFICES ASSUME NEW a \in Nodes, NEW b \in Nodes, a # b
               PROVE  reserved'[a][b] = Cardinality(Attempting(a, b)')
    BY DEF PlacesExact
  <2>1. CASE a = n /\ b = p
    <3>1. Attempting(a, b)' = Attempting(a, b) \cup {j} /\ j \notin Attempting(a, b)
      BY <1>1, <1>3, <1>4, <2>1 DEF Attempting
    <3>2. Cardinality(Attempting(a, b)') = Cardinality(Attempting(a, b)) + 1
      BY <3>1, AttemptingFinite, FS_AddElement
    <3> QED BY <1>6, <2>1, <3>2 DEF PlacesExact
  <2>2. CASE ~(a = n /\ b = p)
    <3>1. Attempting(a, b)' = Attempting(a, b)
      BY <1>1, <1>3, <1>4, <2>2 DEF Attempting
    <3> QED BY <1>6, <2>2, <3>1 DEF PlacesExact
  <2> QED BY <2>1, <2>2
<1>13. RequestAccounted'
  <2>1. \A a, b \in Nodes, k \in Jobs : k \in Pending(a, b)' => k \in Pending(a, b)
    BY <1>3, <1>4 DEF Pending
  <2> QED BY <1>2, <2>1, AccountStep DEF Held
<1> QED BY <1>7, <1>9, <1>10, <1>11, <1>12, <1>13

\* The end of an attempt gives its place back, if it has one.
LEMMA ReleaseInv ==
  ASSUME IInv, NEW j \in Jobs, Retry(j) \/ TimeOut(j) \/ Complete(j)
  PROVE  IInv'
<1> USE DEF IInv
<1> DEFINE n == Owner[j]
           p == target[j]
<1>1. UNCHANGED <<end, wire, queued, capacity, work, reply, target, tried, old, ran, opened>>
  BY DEF Retry, TimeOut, Complete
<1>2. /\ at[j] \in {"selected", "sent", "local", "answered", "failed"}
      /\ at' \in [Jobs -> Stages]
      /\ at'[j] = "choosing" \/ (at'[j] = "done" /\ at[j] = "answered")
      /\ \A k \in Jobs : k # j => at'[k] = at[k]
  BY DEF Retry, TimeOut, Complete, TypeOK, Stages
<1>3. n \in Nodes /\ p \in Nodes /\ (at[j] = "local" => p = n)
  BY <1>2, MeshAssumption DEF AttemptExact, TypeOK
<1>4. reserved' = IF p = n \/ old[j] THEN reserved ELSE [reserved EXCEPT ![n][p] = @ - 1]
  BY DEF Retry, TimeOut, Complete, Release
<1>5. ASSUME NEW a \in Nodes, NEW b \in Nodes, a # b
      PROVE  reserved'[a][b] \in Nat /\ reserved'[a][b] = Cardinality(Attempting(a, b)')
  <2>1. reserved[a][b] \in Nat /\ reserved[a][b] = Cardinality(Attempting(a, b))
    BY <1>5 DEF PlacesExact, TypeOK, Pairs
  <2>2. CASE a = n /\ b = p /\ ~old[j]
    <3>1. j \in Attempting(a, b) /\ Attempting(a, b)' = Attempting(a, b) \ {j}
      BY <1>1, <1>2, <1>3, <1>5, <2>2 DEF Attempting
    <3>2. /\ Cardinality(Attempting(a, b)') = Cardinality(Attempting(a, b)) - 1
          /\ Cardinality(Attempting(a, b)') \in Nat
      BY <3>1, AttemptingFinite, FS_RemoveElement, FS_CardinalityType
    <3>3. reserved'[a][b] = reserved[a][b] - 1
      BY <1>3, <1>4, <1>5, <2>2 DEF TypeOK, Pairs
    <3> QED BY <2>1, <3>2, <3>3
  <2>3. CASE ~(a = n /\ b = p /\ ~old[j])
    <3>1. Attempting(a, b)' = Attempting(a, b)
      BY <1>1, <1>2, <2>3 DEF Attempting
    <3>2. reserved'[a][b] = reserved[a][b]
      BY <1>3, <1>4, <2>3 DEF TypeOK, Pairs
    <3> QED BY <2>1, <3>1, <3>2
  <2> QED BY <2>2, <2>3
<1>6. PlacesExact'
  BY <1>5 DEF PlacesExact
<1>7. TypeOK'
  <2>1. reserved' \in Pairs
    <3>1. CASE p = n \/ old[j]
      BY <1>4, <3>1 DEF TypeOK
    <3>2. CASE ~(p = n \/ old[j])
      <4>1. reserved' = [reserved EXCEPT ![n][p] = @ - 1] /\ reserved'[n][p] \in Nat
        BY <1>3, <1>4, <1>5, <3>2
      <4>2. reserved[n][p] - 1 \in Nat
        BY <1>3, <4>1 DEF TypeOK, Pairs
      <4> HIDE DEF n, p
      <4> QED BY <1>3, <4>1, <4>2 DEF TypeOK, Pairs
    <3> QED BY <3>1, <3>2
  <2> QED BY <1>1, <1>2, <2>1 DEF TypeOK
<1>8. WireExact'
  <2>1. \A a, b \in Nodes, m \in Messages : MessageExact(a, b, m) => MessageExact(a, b, m)'
    BY <1>1, <1>2 DEF MessageExact, Messages
  <2>2. \A a, b \in Nodes : Kept(wire'[a][b], wire[a][b])
    BY <1>1, KeptSame DEF TypeOK
  <2> QED BY <1>7, <2>1, <2>2, WireStep
<1>9. WorkExact' /\ AttemptExact'
  BY <1>1, <1>2 DEF WorkExact, AttemptExact, Attempts
<1>10. RequestAccounted'
  <2>1. \A a, b \in Nodes, k \in Jobs : k \in Pending(a, b)' => k \in Pending(a, b)
    BY <1>1, <1>2 DEF Pending
  <2> QED BY <1>1, <2>1, AccountStep DEF Held
<1> QED BY <1>6, <1>7, <1>8, <1>9, <1>10

\* What is on a wire stays there when something is appended or another message
\* is taken.
LEMMA OnWireAppend ==
  ASSUME NEW s \in Seq(Messages), NEW m \in Messages, NEW kinds, NEW j
  PROVE  /\ OnWire(s, j, kinds) => OnWire(Append(s, m), j, kinds)
         /\ m.kind \in kinds /\ m.job = j => OnWire(Append(s, m), j, kinds)
<1>1. /\ Append(s, m) \in Seq(Messages) /\ Len(Append(s, m)) = Len(s) + 1 /\ Len(s) \in Nat
      /\ \A i \in 1..Len(s) : Append(s, m)[i] = s[i]
      /\ Append(s, m)[Len(s) + 1] = m
  BY AppendProperties, LenProperties
<1>2. DOMAIN s = 1..Len(s) /\ DOMAIN Append(s, m) = 1..(Len(s) + 1)
  BY <1>1, LenProperties
<1>3. ASSUME OnWire(s, j, kinds)
      PROVE  OnWire(Append(s, m), j, kinds)
  <2>1. PICK i \in 1..Len(s) : s[i].kind \in kinds /\ s[i].job = j
    BY <1>2, <1>3 DEF OnWire
  <2>2. i \in 1..(Len(s) + 1) /\ Append(s, m)[i] = s[i]
    BY <1>1, <2>1
  <2> QED BY <1>2, <2>1, <2>2 DEF OnWire
<1>4. ASSUME m.kind \in kinds, m.job = j
      PROVE  OnWire(Append(s, m), j, kinds)
  <2>1. Len(s) + 1 \in 1..(Len(s) + 1)
    BY <1>1
  <2> QED BY <1>1, <1>2, <1>4, <2>1 DEF OnWire
<1> QED BY <1>3, <1>4

LEMMA OnWireTail ==
  ASSUME NEW s \in Seq(Messages), s # <<>>, NEW kinds, NEW j,
         ~(Head(s).kind \in kinds /\ Head(s).job = j), OnWire(s, j, kinds)
  PROVE  OnWire(Tail(s), j, kinds)
<1>1. /\ Tail(s) \in Seq(Messages) /\ Len(Tail(s)) = Len(s) - 1 /\ Len(s) \in Nat \ {0} /\ Head(s) = s[1]
      /\ \A i \in 1..Len(Tail(s)) : Tail(s)[i] = s[i + 1]
  BY HeadTailProperties, EmptySeq
<1>2. DOMAIN s = 1..Len(s) /\ DOMAIN Tail(s) = 1..(Len(s) - 1)
  BY <1>1, LenProperties
<1>3. PICK i \in 1..Len(s) : s[i].kind \in kinds /\ s[i].job = j
  BY <1>2 DEF OnWire
<1>4. i - 1 \in 1..(Len(s) - 1) /\ Tail(s)[i - 1] = s[i]
  <2>1. i # 1
    BY <1>1, <1>3
  <2>2. i - 1 \in 1..(Len(s) - 1) /\ i - 1 + 1 = i
    BY <1>1, <2>1
  <2> QED BY <1>1, <2>2
<1> QED BY <1>2, <1>3, <1>4 DEF OnWire

LEMMA SendOnWire ==
  ASSUME TypeOK, NEW n \in Nodes, NEW p \in Nodes, NEW m \in Messages, Send(n, p, m)
  PROVE  /\ \A a, b \in Nodes, j \in Jobs :
              /\ OnWire(wire[a][b], j, {"JOB"}) => OnWire(wire'[a][b], j, {"JOB"})
              /\ OnWire(wire[a][b], j, {"RESULT", "BUSY", "ERROR"})
                   => OnWire(wire'[a][b], j, {"RESULT", "BUSY", "ERROR"})
         /\ end[p][n] # "down" =>
              /\ m.kind = "JOB" => OnWire(wire'[n][p], m.job, {"JOB"})
              /\ m.kind \in {"RESULT", "BUSY", "ERROR"}
                   => OnWire(wire'[n][p], m.job, {"RESULT", "BUSY", "ERROR"})
<1> DEFINE answers == {"RESULT", "BUSY", "ERROR"}
<1>1. \A a, b \in Nodes : wire'[a][b] = IF a = n /\ b = p /\ end[p][n] # "down"
                                        THEN Append(wire[a][b], m) ELSE wire[a][b]
  BY SendWire
<1>2. \A a, b \in Nodes : wire[a][b] \in Seq(Messages)
  BY DEF TypeOK
<1> HIDE DEF answers
<1>3. ASSUME NEW a \in Nodes, NEW b \in Nodes, NEW j \in Jobs
      PROVE  /\ OnWire(wire[a][b], j, {"JOB"}) => OnWire(wire'[a][b], j, {"JOB"})
             /\ OnWire(wire[a][b], j, answers) => OnWire(wire'[a][b], j, answers)
  <2>1. /\ OnWire(wire[a][b], j, {"JOB"}) => OnWire(Append(wire[a][b], m), j, {"JOB"})
        /\ OnWire(wire[a][b], j, answers) => OnWire(Append(wire[a][b], m), j, answers)
    BY <1>2, OnWireAppend
  <2>2. wire'[a][b] = wire[a][b] \/ wire'[a][b] = Append(wire[a][b], m)
    BY <1>1
  <2> QED BY <2>1, <2>2
<1>4. ASSUME end[p][n] # "down"
      PROVE  /\ m.kind = "JOB" => OnWire(wire'[n][p], m.job, {"JOB"})
             /\ m.kind \in answers => OnWire(wire'[n][p], m.job, answers)
  <2>1. wire'[n][p] = Append(wire[n][p], m)
    BY <1>1, <1>4
  <2>2. /\ m.kind \in {"JOB"} => OnWire(Append(wire[n][p], m), m.job, {"JOB"})
        /\ m.kind \in answers => OnWire(Append(wire[n][p], m), m.job, answers)
    BY <1>2, OnWireAppend
  <2> QED BY <2>1, <2>2
<1> QED BY <1>3, <1>4 DEF answers

LEMMA RequestInv ==
  ASSUME IInv, NEW j \in Jobs, Request(j)
  PROVE  IInv'
<1> USE DEF IInv
<1> DEFINE n == Owner[j]
<1>1. UNCHANGED <<end, queued, capacity, reserved, work, reply, target, tried, old, ran, opened>>
  BY DEF Request
<1>2. /\ at[j] = "selected" /\ at'[j] = "sent" /\ at' \in [Jobs -> Stages]
      /\ \A k \in Jobs : k # j => at'[k] = at[k]
  BY DEF Request, TypeOK, Stages
<1>3. PICK p \in Nodes : p = target[j]
  BY <1>2 DEF AttemptExact, TypeOK
<1>4. /\ n \in Nodes /\ p # n /\ p \in tried[j] /\ j \notin work[p] /\ ran[p][j] = 0
      /\ ~old[j] /\ end[n][p] = "up"
  BY <1>2, <1>3, MeshAssumption DEF AttemptExact, TypeOK, Request, Attached
<1>5. PICK e \in Messages : e.kind = "JOB" /\ e.job = j /\ Send(n, p, e)
  <2>1. [kind |-> "JOB", job |-> j] \in Messages
    BY DEF Messages
  <2> QED BY <1>3, <2>1 DEF Request
<1> HIDE DEF n
<1>6. /\ wire' \in [Nodes -> [Nodes -> Seq(Messages)]]
      /\ \A a, b \in Nodes : wire'[a][b] = IF a = n /\ b = p /\ end[p][n] # "down"
                                           THEN Append(wire[a][b], e) ELSE wire[a][b]
  BY <1>4, <1>5, SendWire
<1>7. \A a, b \in Nodes : wire[a][b] \in Seq(Messages)
  BY DEF TypeOK
<1>8. TypeOK'
  BY <1>1, <1>2, <1>6 DEF TypeOK
<1>9. WireExact'
  <2>1. \A a, b \in Nodes, m \in Messages : MessageExact(a, b, m) => MessageExact(a, b, m)'
    BY <1>1, <1>2 DEF MessageExact, Messages
  <2>2. MessageExact(n, p, e)' /\ ~MessageExact(n, p, e)
    BY <1>1, <1>2, <1>3, <1>4, <1>5 DEF MessageExact, n
  <2>3. \A a, b \in Nodes : ~(a = n /\ b = p) => Kept(wire'[a][b], wire[a][b])
    BY <1>6, <1>7, KeptSame
  <2>4. wire'[n][p] = Append(wire[n][p], e) \/ Kept(wire'[n][p], wire[n][p])
    BY <1>4, <1>6, <1>7, KeptSame
  <2> QED BY <1>4, <1>5, <1>8, <2>1, <2>2, <2>3, <2>4, WireAppend
<1>10. WorkExact' /\ AttemptExact'
  BY <1>1, <1>2, <1>3, <1>4 DEF WorkExact, AttemptExact, Attempts, n
<1>11. PlacesExact'
  <2>1. \A a, b \in Nodes : Attempting(a, b)' = Attempting(a, b)
    BY <1>1, <1>2 DEF Attempting
  <2> QED BY <1>1, <2>1, PlacesStep
<1>12. RequestAccounted'
  <2> SUFFICES ASSUME NEW a \in Nodes, NEW b \in Nodes, end[a][b] = "up", end[b][a] = "up",
                      NEW k \in Jobs, k \in Pending(a, b)'
               PROVE  Held(a, b, k)'
    BY <1>1 DEF RequestAccounted, Held, Pending
  <2>1. CASE k = j
    <3>1. a = n /\ b = p
      BY <1>1, <1>3, <2>1 DEF Pending, n
    <3>2. OnWire(wire'[n][p], j, {"JOB"})
      BY <1>4, <1>5, <3>1, SendOnWire
    <3> QED BY <2>1, <3>1, <3>2 DEF Held
  <2>2. CASE k # j
    <3>1. Held(a, b, k)
      BY <1>1, <1>2, <2>2 DEF Pending, RequestAccounted, Held
    <3> QED BY <1>1, <1>4, <1>5, <3>1, SendOnWire DEF Held
  <2> QED BY <2>1, <2>2
<1> QED BY <1>8, <1>9, <1>10, <1>11, <1>12

LEMMA RequestFailsInv ==
  ASSUME IInv, NEW j \in Jobs, RequestFails(j)
  PROVE  IInv'
<1> USE DEF IInv
<1> DEFINE n == Owner[j]
           p == target[j]
<1>1. UNCHANGED <<queued, capacity, reserved, work, reply, target, tried, old, ran, opened>>
  BY DEF RequestFails
<1>2. /\ at[j] = "selected" /\ at'[j] = "failed" /\ at' \in [Jobs -> Stages]
      /\ \A k \in Jobs : k # j => at'[k] = at[k]
  BY DEF RequestFails, TypeOK, Stages
<1>3. n \in Nodes /\ p \in Nodes /\ p # n /\ end[n][p] = "up"
  BY <1>2, MeshAssumption DEF AttemptExact, TypeOK, RequestFails, Attached
<1>4. /\ end' \in [Nodes -> [Nodes -> {"down", "up", "closing"}]]
      /\ \A a, b \in Nodes : end'[a][b] = IF a = n /\ b = p THEN "closing" ELSE end[a][b]
  BY <1>3 DEF RequestFails, TypeOK
<1>5. PICK kept \in 0..Cardinality(Jobs) : wire' = CutAt(n, p, kept)
  BY DEF RequestFails
<1>6. /\ wire' \in [Nodes -> [Nodes -> Seq(Messages)]]
      /\ \A a, b \in Nodes : /\ Kept(wire'[a][b], wire[a][b])
                             /\ ~(a = n /\ b = p) => wire'[a][b] = wire[a][b]
  <2> DEFINE cut == CutAt(n, p, kept)
  <2>1. /\ cut \in [Nodes -> [Nodes -> Seq(Messages)]]
        /\ \A a, b \in Nodes : Kept(cut[a][b], wire[a][b]) /\ (~(a = n /\ b = p) => cut[a][b] = wire[a][b])
    BY <1>3, CutKept
  <2> HIDE DEF cut
  <2> QED BY <1>5, <2>1 DEF cut
<1> HIDE DEF n, p
<1>7. TypeOK'
  BY <1>1, <1>2, <1>4, <1>6 DEF TypeOK
<1>8. WireExact'
  <2>1. \A a, b \in Nodes, m \in Messages : MessageExact(a, b, m) => MessageExact(a, b, m)'
    BY <1>1, <1>2 DEF MessageExact, Messages
  <2> QED BY <1>6, <1>7, <2>1, WireStep
<1>9. WorkExact'
  BY <1>1 DEF WorkExact
<1>10. AttemptExact'
  <2>1. \A k \in Jobs : Owner[k] \in Nodes /\ (at[k] = "sent" => target[k] \in Nodes)
    BY MeshAssumption DEF AttemptExact, TypeOK
  <2> QED BY <1>1, <1>2, <1>4, <2>1 DEF AttemptExact, Attempts
<1>11. PlacesExact'
  <2>1. \A a, b \in Nodes : Attempting(a, b)' = Attempting(a, b)
    BY <1>1, <1>2 DEF Attempting
  <2> QED BY <1>1, <2>1, PlacesStep
<1>12. RequestAccounted'
  <2>1. ASSUME NEW a \in Nodes, NEW b \in Nodes, end'[a][b] = "up", end'[b][a] = "up"
        PROVE  /\ end[a][b] = "up" /\ end[b][a] = "up"
               /\ wire'[a][b] = wire[a][b] /\ wire'[b][a] = wire[b][a]
    BY <1>4, <1>6, <2>1
  <2>2. \A a, b \in Nodes, k \in Jobs : k \in Pending(a, b)' => k \in Pending(a, b)
    BY <1>1, <1>2 DEF Pending
  <2> QED BY <1>1, <2>1, <2>2, AccountStep DEF Held
<1> QED BY <1>7, <1>8, <1>9, <1>10, <1>11, <1>12

-----------------------------------------------------------------------------
(* _message, _reply and the worker.                                        *)

\* A job that is read is not on its way any more, so its node may have it now.
LEMMA WireTake ==
  ASSUME TypeOK, TypeOK', WireExact, NEW n \in Nodes, NEW p \in Nodes,
         wire[p][n] # <<>>, wire'[p][n] = Tail(wire[p][n]), Head(wire[p][n]).kind = "JOB",
         \A a, b \in Nodes : ~(a = p /\ b = n) => Kept(wire'[a][b], wire[a][b]),
         \A a, b \in Nodes, m \in Messages :
           MessageExact(a, b, m) /\ ~(a = p /\ b = n /\ m = Head(wire[p][n])) => MessageExact(a, b, m)'
  PROVE  WireExact'
<1>1. wire[p][n] \in Seq(Messages)
  BY DEF TypeOK
<1>2. /\ Tail(wire[p][n]) \in Seq(Messages) /\ Len(Tail(wire[p][n])) = Len(wire[p][n]) - 1
      /\ Len(wire[p][n]) \in Nat \ {0} /\ Head(wire[p][n]) = wire[p][n][1]
      /\ \A i \in 1..Len(Tail(wire[p][n])) : Tail(wire[p][n])[i] = wire[p][n][i + 1]
  BY <1>1, HeadTailProperties, EmptySeq
<1>3. SentOnce(wire[p][n])'
  BY <1>1, <1>2, KeptTail, KeptOnce DEF WireExact
<1>4. ASSUME NEW i \in 1..Len(wire[p][n])'
      PROVE  MessageExact(p, n, wire[p][n][i])'
  <2>1. i + 1 \in 1..Len(wire[p][n]) /\ 1 \in 1..Len(wire[p][n]) /\ i + 1 # 1
    BY <1>2
  <2>2. PICK m \in Messages : m = wire[p][n][i + 1] /\ MessageExact(p, n, m)
    BY <1>1, <2>1, ElementOfSeq DEF WireExact
  <2>3. m # Head(wire[p][n])
    BY <1>2, <2>1, <2>2 DEF WireExact, SentOnce
  <2>4. MessageExact(p, n, m)' /\ wire'[p][n][i] = m
    BY <1>2, <2>2, <2>3
  <2> QED BY <2>4 DEF MessageExact
<1>5. ASSUME NEW a \in Nodes, NEW b \in Nodes, ~(a = p /\ b = n)
      PROVE  /\ \A i \in 1..Len(wire[a][b])' : MessageExact(a, b, wire[a][b][i])'
             /\ SentOnce(wire[a][b])'
  BY <1>5, WirePair
<1> QED BY <1>3, <1>4, <1>5 DEF WireExact

\* What is left on the wires when one message was taken.
LEMMA TakeOnWire ==
  ASSUME TypeOK, NEW n \in Nodes, NEW p \in Nodes, wire[p][n] # <<>>,
         NEW a \in Nodes, NEW b \in Nodes, NEW j \in Jobs, NEW kinds,
         wire'[a][b] = IF a = p /\ b = n THEN Tail(wire[a][b]) ELSE wire[a][b],
         OnWire(wire[a][b], j, kinds),
         ~(a = p /\ b = n /\ Head(wire[p][n]).kind \in kinds /\ Head(wire[p][n]).job = j)
  PROVE  OnWire(wire'[a][b], j, kinds)
<1>1. wire[a][b] \in Seq(Messages)
  BY DEF TypeOK
<1>2. CASE a = p /\ b = n
  BY <1>1, <1>2, OnWireTail
<1>3. CASE ~(a = p /\ b = n)
  BY <1>3
<1> QED BY <1>2, <1>3

LEMMA MessageEqual ==
  ASSUME NEW l \in Messages, NEW m \in Messages, l.kind = m.kind, l.job = m.job
  PROVE  l = m
BY DEF Messages

LEMMA ReceiveJobInv ==
  ASSUME IInv, NEW n \in Nodes, NEW p \in Nodes, ReceiveJob(n, p)
  PROVE  IInv'
<1> USE DEF IInv
<1>1. UNCHANGED <<end, queued, capacity, reserved, at, target, tried, old, ran, opened>>
  BY DEF ReceiveJob, attempt
<1>2. Take(n, p, {"JOB"}) /\ Taken(n, p)
  BY DEF ReceiveJob
<1>3. /\ wire' \in [Nodes -> [Nodes -> Seq(Messages)]]
      /\ \A a, b \in Nodes : /\ wire'[a][b] = IF a = p /\ b = n THEN Tail(wire[a][b]) ELSE wire[a][b]
                             /\ Kept(wire'[a][b], wire[a][b])
      /\ Head(wire[p][n]) \in Messages /\ Head(wire[p][n]) = wire[p][n][1] /\ 1 \in 1..Len(wire[p][n])
  BY <1>2, TakenWire
<1>4. PICK j \in Jobs : j = Head(wire[p][n]).job
  BY <1>3 DEF Messages
<1>5. Head(wire[p][n]).kind = "JOB" /\ wire[p][n] # <<>> /\ end[n][p] # "down"
  BY <1>2 DEF Take
<1>6. /\ Owner[j] = p /\ p # n /\ n \in tried[j] /\ j \notin work[n] /\ ran[n][j] = 0
      /\ ~(at[j] = "selected" /\ target[j] = n)
  <2>1. PICK m \in Messages : m = Head(wire[p][n]) /\ MessageExact(p, n, m)
    BY <1>3 DEF WireExact
  <2> QED BY <1>4, <1>5, <2>1 DEF MessageExact
<1>7. /\ work' \in [Nodes -> SUBSET Jobs]
      /\ \A a \in Nodes : work'[a] = IF a = n THEN work[a] \cup {j} ELSE work[a]
  BY <1>4 DEF ReceiveJob, TypeOK
<1>8. /\ reply' \in [Nodes -> [Jobs -> {"none", "waiting", "RESULT", "ERROR"}]]
      /\ \A a \in Nodes, k \in Jobs : reply'[a][k] = IF a = n /\ k = j /\ reply[a][k] = "none"
                                                     THEN "waiting" ELSE reply[a][k]
  <2>1. reply' = [reply EXCEPT ![n][j] = IF @ = "none" THEN "waiting" ELSE @]
    BY <1>4 DEF ReceiveJob
  <2> QED BY <2>1 DEF TypeOK
<1>9. TypeOK'
  BY <1>1, <1>3, <1>7, <1>8 DEF TypeOK
<1>10. WireExact'
  <2>1. ASSUME NEW a \in Nodes, NEW b \in Nodes, NEW m \in Messages, MessageExact(a, b, m),
               ~(a = p /\ b = n /\ m = Head(wire[p][n]))
        PROVE  MessageExact(a, b, m)'
    <3>1. m.kind = "JOB" => ~(b = n /\ m.job = j)
      <4> SUFFICES ASSUME m.kind = "JOB", b = n, m.job = j PROVE FALSE
        OBVIOUS
      <4>1. a = p
        BY <1>6, <2>1 DEF MessageExact
      <4>2. m = Head(wire[p][n])
        BY <1>3, <1>4, <1>5, MessageEqual
      <4> QED BY <2>1, <4>1, <4>2
    <3> QED BY <1>1, <1>7, <2>1, <3>1 DEF MessageExact, Messages
  <2>2. wire'[p][n] = Tail(wire[p][n]) /\ \A a, b \in Nodes : Kept(wire'[a][b], wire[a][b])
    BY <1>3
  <2> QED BY <1>5, <1>9, <2>1, <2>2, WireTake
<1>11. WorkExact'
  BY <1>1, <1>6, <1>7, <1>8 DEF WorkExact
<1>12. AttemptExact'
  <2>1. \A k \in Jobs : at[k] = "selected" => target[k] \in Nodes
    BY DEF AttemptExact, TypeOK
  <2>2. \A k \in Jobs : at[k] = "selected" => k \notin work'[target[k]]
    BY <1>6, <1>7, <2>1 DEF AttemptExact
  <2> QED BY <1>1, <2>2 DEF AttemptExact, Attempts
<1>13. PlacesExact'
  BY <1>1, PlacesStep DEF Attempting
<1>14. RequestAccounted'
  <2> SUFFICES ASSUME NEW a \in Nodes, NEW b \in Nodes, end[a][b] = "up", end[b][a] = "up",
                      NEW k \in Jobs, k \in Pending(a, b), Held(a, b, k)
               PROVE  Held(a, b, k)'
    BY <1>1 DEF RequestAccounted, Held, Pending
  <2>1. CASE OnWire(wire[a][b], k, {"JOB"})
    <3>1. CASE a = p /\ b = n /\ k = j
      BY <1>8, <3>1 DEF Held
    <3>2. CASE ~(a = p /\ b = n /\ k = j)
      <4>1. wire'[a][b] = IF a = p /\ b = n THEN Tail(wire[a][b]) ELSE wire[a][b]
        BY <1>3
      <4>2. ~(a = p /\ b = n /\ Head(wire[p][n]).kind \in {"JOB"} /\ Head(wire[p][n]).job = k)
        BY <1>4, <3>2
      <4>3. OnWire(wire'[a][b], k, {"JOB"})
        BY <1>5, <2>1, <4>1, <4>2, TakeOnWire
      <4> QED BY <4>3 DEF Held
    <3> QED BY <3>1, <3>2
  <2>2. CASE reply[b][k] # "none"
    BY <1>8, <2>2 DEF Held
  <2>3. CASE OnWire(wire[b][a], k, {"RESULT", "BUSY", "ERROR"})
    <3>1. wire'[b][a] = IF b = p /\ a = n THEN Tail(wire[b][a]) ELSE wire[b][a]
      BY <1>3
    <3>2. ~(b = p /\ a = n /\ Head(wire[p][n]).kind \in {"RESULT", "BUSY", "ERROR"}
            /\ Head(wire[p][n]).job = k)
      BY <1>5
    <3>3. OnWire(wire'[b][a], k, {"RESULT", "BUSY", "ERROR"})
      BY <1>5, <2>3, <3>1, <3>2, TakeOnWire
    <3> QED BY <3>3 DEF Held
  <2> QED BY <2>1, <2>2, <2>3 DEF Held
<1> QED BY <1>9, <1>10, <1>11, <1>12, <1>13, <1>14

LEMMA RefuseJobInv ==
  ASSUME IInv, NEW n \in Nodes, NEW p \in Nodes, RefuseJob(n, p)
  PROVE  IInv'
<1> USE DEF IInv
<1>1. UNCHANGED <<end, queued, capacity, reserved, work, reply, at, target, tried, old, ran, opened>>
  BY DEF RefuseJob, attempt
<1>2. wire[p][n] # <<>> /\ Head(wire[p][n]).kind = "JOB" /\ end[n][p] = "up"
  BY DEF RefuseJob, Take
<1>3. \A a, b \in Nodes : wire[a][b] \in Seq(Messages)
  BY DEF TypeOK
<1>4. Head(wire[p][n]) = wire[p][n][1] /\ 1 \in 1..Len(wire[p][n]) /\ Head(wire[p][n]) \in Messages
  BY <1>2, <1>3, KeptTail, ElementOfSeq
<1>5. PICK j \in Jobs : j = Head(wire[p][n]).job
  BY <1>4 DEF Messages
<1>6. Owner[j] = p /\ p # n
  BY <1>2, <1>4, <1>5 DEF WireExact, MessageExact
<1>7. PICK e \in Messages :
        /\ e.kind = "BUSY" /\ e.job = j
        /\ wire' \in [Nodes -> [Nodes -> Seq(Messages)]]
        /\ \A a, b \in Nodes :
             wire'[a][b] = IF a = p /\ b = n THEN Tail(wire[a][b])
                           ELSE IF a = n /\ b = p /\ end[p][n] # "down" THEN Append(wire[a][b], e)
                           ELSE wire[a][b]
  <2>1. [kind |-> "BUSY", job |-> j] \in Messages
    BY DEF Messages
  <2> QED BY <1>5, <1>6, <2>1, RefuseWire
<1>8. TypeOK'
  BY <1>1, <1>7 DEF TypeOK
<1>9. WireExact'
  <2>1. \A a, b \in Nodes, m \in Messages : MessageExact(a, b, m) => MessageExact(a, b, m)'
    BY <1>1 DEF MessageExact
  <2>2. MessageExact(n, p, e)'
    BY <1>7 DEF MessageExact
  <2>3. ASSUME NEW a \in Nodes, NEW b \in Nodes, ~(a = n /\ b = p)
        PROVE  Kept(wire'[a][b], wire[a][b])
    <3>1. CASE a = p /\ b = n
      BY <1>2, <1>3, <1>7, <3>1, KeptTail
    <3>2. CASE ~(a = p /\ b = n)
      BY <1>3, <1>7, <2>3, <3>2, KeptSame
    <3> QED BY <3>1, <3>2
  <2>4. wire'[n][p] = Append(wire[n][p], e) \/ Kept(wire'[n][p], wire[n][p])
    BY <1>3, <1>6, <1>7, KeptSame
  <2> QED BY <1>7, <1>8, <2>1, <2>2, <2>3, <2>4, WireAppend
<1>10. WorkExact' /\ AttemptExact'
  BY <1>1 DEF WorkExact, AttemptExact, Attempts
<1>11. PlacesExact'
  BY <1>1, PlacesStep DEF Attempting
<1>12. RequestAccounted'
  <2> SUFFICES ASSUME NEW a \in Nodes, NEW b \in Nodes, end[a][b] = "up", end[b][a] = "up",
                      NEW k \in Jobs, k \in Pending(a, b), Held(a, b, k)
               PROVE  Held(a, b, k)'
    BY <1>1 DEF RequestAccounted, Held, Pending
  <2> DEFINE answers == {"RESULT", "BUSY", "ERROR"}
  <2> HIDE DEF answers
  <2>1. ASSUME NEW c \in Nodes, NEW d \in Nodes, NEW kinds, OnWire(wire[c][d], k, kinds),
               ~(c = p /\ d = n /\ "JOB" \in kinds /\ k = j)
        PROVE  OnWire(wire'[c][d], k, kinds)
    <3>1. CASE c = p /\ d = n
      BY <1>2, <1>3, <1>5, <1>7, <2>1, <3>1, OnWireTail
    <3>2. CASE ~(c = p /\ d = n)
      BY <1>3, <1>7, <2>1, <3>2, OnWireAppend
    <3> QED BY <3>1, <3>2
  <2>2. CASE OnWire(wire[a][b], k, {"JOB"})
    <3>1. CASE a = p /\ b = n /\ k = j
      <4>1. wire'[n][p] = Append(wire[n][p], e)
        BY <1>6, <1>7, <3>1
      <4>2. OnWire(wire'[n][p], k, {"RESULT", "BUSY", "ERROR"})
        <5>1. e.kind \in {"RESULT", "BUSY", "ERROR"} /\ e.job = k /\ wire[n][p] \in Seq(Messages)
          BY <1>3, <1>7, <3>1
        <5> QED BY <4>1, <5>1, OnWireAppend
      <4> QED BY <3>1, <4>2 DEF Held
    <3>2. CASE ~(a = p /\ b = n /\ k = j)
      BY <2>1, <2>2, <3>2 DEF Held
    <3> QED BY <3>1, <3>2
  <2>3. CASE reply[b][k] # "none"
    BY <1>1, <2>3 DEF Held
  <2>4. CASE OnWire(wire[b][a], k, {"RESULT", "BUSY", "ERROR"})
    BY <2>1, <2>4 DEF Held
  <2> QED BY <2>2, <2>3, <2>4 DEF Held
<1> QED BY <1>8, <1>9, <1>10, <1>11, <1>12

LEMMA ReceiveAnswerInv ==
  ASSUME IInv, NEW n \in Nodes, NEW p \in Nodes, ReceiveAnswer(n, p)
  PROVE  IInv'
<1> USE DEF IInv
<1>1. UNCHANGED <<end, capacity, reserved, work, reply, target, tried, old, ran, opened>>
  BY DEF ReceiveAnswer
<1>2. Take(n, p, {"RESULT", "BUSY", "ERROR"}) /\ Taken(n, p)
  BY DEF ReceiveAnswer
<1>3. /\ wire' \in [Nodes -> [Nodes -> Seq(Messages)]]
      /\ \A a, b \in Nodes : /\ wire'[a][b] = IF a = p /\ b = n THEN Tail(wire[a][b]) ELSE wire[a][b]
                             /\ Kept(wire'[a][b], wire[a][b])
      /\ Head(wire[p][n]) \in Messages /\ Head(wire[p][n]) = wire[p][n][1] /\ 1 \in 1..Len(wire[p][n])
  BY <1>2, TakenWire
<1>4. PICK m \in Messages : m = Head(wire[p][n]) /\ MessageExact(p, n, m)
  BY <1>3 DEF WireExact
<1>5. wire[p][n] # <<>> /\ m.kind \in {"RESULT", "BUSY", "ERROR"} /\ m.job \in Jobs
  BY <1>2, <1>4 DEF Take, Messages
<1>6. /\ at' \in [Jobs -> Stages]
      /\ \A k \in Jobs : at'[k] = IF k = m.job /\ k \in Pending(n, p)
                                  THEN IF m.kind = "RESULT" THEN "answered" ELSE "failed" ELSE at[k]
  <2>1. CASE m.job \in Pending(n, p)
    <3>1. at' = [at EXCEPT ![m.job] = IF m.kind = "RESULT" THEN "answered" ELSE "failed"]
      BY <1>4, <2>1 DEF ReceiveAnswer
    <3> QED BY <1>5, <2>1, <3>1 DEF TypeOK, Stages
  <2>2. CASE m.job \notin Pending(n, p)
    <3>1. at' = at
      BY <1>4, <2>2 DEF ReceiveAnswer
    <3> QED BY <2>2, <3>1 DEF TypeOK
  <2> QED BY <2>1, <2>2
<1>7. queued' \in Pairs
  <2>1. queued \in [Nodes -> [Nodes -> Nat]] /\ capacity[n][p] \in Nat
    BY DEF TypeOK, Pairs
  <2>2. CASE m.job \in Pending(n, p)
    <3>1. queued' = [queued EXCEPT ![n][p] = IF m.kind = "BUSY" THEN capacity[n][p]
                                            ELSE IF m.kind = "RESULT" /\ @ > 0 THEN @ - 1 ELSE @]
      BY <1>4, <2>2 DEF ReceiveAnswer
    <3>2. (IF m.kind = "BUSY" THEN capacity[n][p]
           ELSE IF m.kind = "RESULT" /\ queued[n][p] > 0 THEN queued[n][p] - 1 ELSE queued[n][p]) \in Nat
      BY <2>1
    <3> QED BY <2>1, <3>1, <3>2 DEF Pairs
  <2>3. CASE m.job \notin Pending(n, p)
    BY <1>4, <2>1, <2>3 DEF ReceiveAnswer, Pairs
  <2> QED BY <2>2, <2>3
<1>8. TypeOK'
  BY <1>1, <1>3, <1>6, <1>7 DEF TypeOK
<1>9. \A k \in Jobs : at'[k] = at[k] \/ (at[k] = "sent" /\ at'[k] \in {"answered", "failed"})
  BY <1>6 DEF Pending
<1>10. WireExact'
  <2>1. \A a, b \in Nodes, l \in Messages : MessageExact(a, b, l) => MessageExact(a, b, l)'
    BY <1>1, <1>9 DEF MessageExact, Messages
  <2> QED BY <1>3, <1>8, <2>1, WireStep
<1>11. WorkExact'
  BY <1>1 DEF WorkExact
<1>12. AttemptExact'
  <2>1. \A k \in Jobs : at'[k] = "answered" /\ at[k] # "answered" => ran[target[k]][k] > 0
    BY <1>4, <1>6 DEF MessageExact, Pending
  <2> QED BY <1>1, <1>9, <2>1 DEF AttemptExact, Attempts
<1>13. PlacesExact'
  <2>1. \A a, b \in Nodes : Attempting(a, b)' = Attempting(a, b)
    BY <1>1, <1>9 DEF Attempting
  <2> QED BY <1>1, <2>1, PlacesStep
<1>14. RequestAccounted'
  <2> SUFFICES ASSUME NEW a \in Nodes, NEW b \in Nodes, end[a][b] = "up", end[b][a] = "up",
                      NEW k \in Jobs, k \in Pending(a, b)'
               PROVE  Held(a, b, k)'
    BY <1>1 DEF RequestAccounted, Held, Pending
  <2>1. k \in Pending(a, b) /\ ~(a = n /\ b = p /\ k = m.job)
    BY <1>1, <1>6, <1>9 DEF Pending
  <2>2. Held(a, b, k)
    BY <2>1 DEF RequestAccounted, Held
  <2>3. CASE OnWire(wire[a][b], k, {"JOB"})
    <3>1. wire'[a][b] = IF a = p /\ b = n THEN Tail(wire[a][b]) ELSE wire[a][b]
      BY <1>3
    <3>2. ~(a = p /\ b = n /\ Head(wire[p][n]).kind \in {"JOB"} /\ Head(wire[p][n]).job = k)
      BY <1>4, <1>5
    <3>3. OnWire(wire'[a][b], k, {"JOB"})
      BY <1>5, <2>3, <3>1, <3>2, TakeOnWire
    <3> QED BY <3>3 DEF Held
  <2>4. CASE reply[b][k] # "none"
    BY <1>1, <2>4 DEF Held
  <2>5. CASE OnWire(wire[b][a], k, {"RESULT", "BUSY", "ERROR"})
    <3>1. wire'[b][a] = IF b = p /\ a = n THEN Tail(wire[b][a]) ELSE wire[b][a]
      BY <1>3
    <3>2. ~(b = p /\ a = n /\ Head(wire[p][n]).kind \in {"RESULT", "BUSY", "ERROR"}
            /\ Head(wire[p][n]).job = k)
      BY <1>4, <2>1
    <3>3. OnWire(wire'[b][a], k, {"RESULT", "BUSY", "ERROR"})
      BY <1>5, <2>5, <3>1, <3>2, TakeOnWire
    <3> QED BY <3>3 DEF Held
  <2> QED BY <2>2, <2>3, <2>4, <2>5 DEF Held
<1> QED BY <1>8, <1>10, <1>11, <1>12, <1>13, <1>14

LEMMA FinishInv ==
  ASSUME IInv, NEW n \in Nodes, NEW j \in Jobs, NEW outcome \in {"RESULT", "ERROR"},
         NEW runs \in BOOLEAN, Finish(n, j, outcome, runs)
  PROVE  IInv'
<1> USE DEF IInv
<1>1. UNCHANGED <<end, wire, queued, capacity, reserved, target, tried, old, opened>>
  BY DEF Finish, session
<1>2. j \in work[n] /\ n \in tried[j] /\ ran[n][j] = 0 /\ (outcome = "RESULT" => runs)
  BY DEF Finish, WorkExact
<1>3. /\ work' \in [Nodes -> SUBSET Jobs]
      /\ \A a \in Nodes : work'[a] = IF a = n THEN work[a] \ {j} ELSE work[a]
  BY DEF Finish, TypeOK
<1>4. /\ ran' \in [Nodes -> [Jobs -> Nat]]
      /\ \A a \in Nodes, k \in Jobs : ran'[a][k] = IF a = n /\ k = j /\ runs THEN 1 ELSE ran[a][k]
  <2>1. ran' = [ran EXCEPT ![n][j] = IF runs THEN @ + 1 ELSE @]
    BY DEF Finish
  <2>2. ran \in [Nodes -> [Jobs -> Nat]]
    BY DEF TypeOK
  <2> QED BY <1>2, <2>1, <2>2
<1>5. /\ reply' \in [Nodes -> [Jobs -> {"none", "waiting", "RESULT", "ERROR"}]]
      /\ \A a \in Nodes, k \in Jobs : reply'[a][k] = IF a = n /\ k = j /\ reply[a][k] = "waiting"
                                                     THEN outcome ELSE reply[a][k]
  <2>1. reply' = [reply EXCEPT ![n][j] = IF @ = "waiting" THEN outcome ELSE @]
    BY DEF Finish
  <2> QED BY <2>1 DEF TypeOK
<1>6. /\ at' \in [Jobs -> Stages]
      /\ \A k \in Jobs : at'[k] = IF k = j /\ at[j] = "local" /\ Owner[j] = n
                                  THEN IF outcome = "RESULT" THEN "answered" ELSE "failed" ELSE at[k]
  BY DEF Finish, TypeOK, Stages
<1>7. TypeOK'
  BY <1>1, <1>3, <1>4, <1>5, <1>6 DEF TypeOK
<1>8. \A a \in Nodes, k \in Jobs : ran[a][k] > 0 => ran'[a][k] > 0
  BY <1>4
<1>9. WireExact'
  <2>1. \A a, b \in Nodes, m \in Messages : MessageExact(a, b, m) => MessageExact(a, b, m)'
    <3> SUFFICES ASSUME NEW a \in Nodes, NEW b \in Nodes, NEW m \in Messages, MessageExact(a, b, m)
                 PROVE  MessageExact(a, b, m)'
      OBVIOUS
    <3>1. m.job \in Jobs
      BY DEF Messages
    <3>2. m.kind = "JOB" => ~(b = n /\ m.job = j)
      BY <1>2 DEF MessageExact
    <3>3. at'[m.job] = "selected" => at[m.job] = "selected"
      BY <1>6, <3>1
    <3>4. m.kind = "JOB" => m.job \notin work'[b] /\ ran'[b][m.job] = 0
      BY <1>3, <1>4, <3>1, <3>2 DEF MessageExact
    <3> QED BY <1>1, <1>8, <3>1, <3>3, <3>4 DEF MessageExact
  <2>2. \A a, b \in Nodes : Kept(wire'[a][b], wire[a][b])
    BY <1>1, KeptSame DEF TypeOK
  <2> QED BY <1>7, <2>1, <2>2, WireStep
<1>10. WorkExact'
  <2> SUFFICES ASSUME NEW a \in Nodes, NEW k \in Jobs
               PROVE  /\ k \in work'[a] => a \in tried[k] /\ ran'[a][k] = 0
                      /\ ran'[a][k] > 0 => a \in tried[k]
                      /\ ran'[a][k] <= 1
                      /\ reply'[a][k] = "RESULT" => ran'[a][k] > 0
    BY <1>1 DEF WorkExact
  <2>1. CASE a = n /\ k = j
    BY <1>2, <1>3, <1>4, <1>5, <2>1 DEF WorkExact
  <2>2. CASE ~(a = n /\ k = j)
    BY <1>3, <1>4, <1>5, <2>2 DEF WorkExact
  <2> QED BY <2>1, <2>2
<1>11. AttemptExact'
  <2>1. \A k \in Jobs : at[k] \in {"selected", "answered", "done"} => target[k] \in Nodes
    BY DEF AttemptExact, TypeOK
  <2>2. ASSUME NEW k \in Jobs, at'[k] = "selected"
        PROVE  k \notin work'[target[k]] /\ ran'[target[k]][k] = 0
    <3>1. at[k] = "selected"
      BY <1>6, <2>2
    <3>2. target[k] \in Nodes /\ k \notin work[target[k]] /\ ran[target[k]][k] = 0
      BY <2>1, <3>1 DEF AttemptExact
    <3>3. ~(target[k] = n /\ k = j)
      BY <1>2, <3>2
    <3> QED BY <1>3, <1>4, <3>2, <3>3
  <2>3. \A k \in Jobs : at'[k] \in {"answered", "done"} => ran'[target[k]][k] > 0
    <3> SUFFICES ASSUME NEW k \in Jobs, at'[k] \in {"answered", "done"} PROVE ran'[target[k]][k] > 0
      OBVIOUS
    <3>1. CASE at[k] = at'[k]
      BY <1>8, <2>1, <3>1 DEF AttemptExact
    <3>2. CASE at[k] # at'[k]
      <4>1. k = j /\ at[j] = "local" /\ Owner[j] = n /\ outcome = "RESULT"
        BY <1>6, <3>2
      <4>2. target[j] = n
        BY <4>1 DEF AttemptExact
      <4> QED BY <1>2, <1>4, <4>1, <4>2
    <3> QED BY <3>1, <3>2
  <2>4. \A k \in Jobs : at'[k] = at[k] \/ (at[k] = "local" /\ at'[k] \in {"answered", "failed"})
    BY <1>6
  <2> QED BY <1>1, <2>2, <2>3, <2>4 DEF AttemptExact, Attempts
<1>12. PlacesExact'
  <2>1. \A a, b \in Nodes : a # b => Attempting(a, b)' = Attempting(a, b)
    BY <1>1, <1>6 DEF Attempting, AttemptExact
  <2> QED BY <1>1, <2>1, PlacesStep
<1>13. RequestAccounted'
  <2>1. \A a, b \in Nodes, k \in Jobs : k \in Pending(a, b)' => k \in Pending(a, b)
    BY <1>1, <1>6 DEF Pending
  <2>2. \A a, b \in Nodes, k \in Jobs : Held(a, b, k) => Held(a, b, k)'
    BY <1>1, <1>5 DEF Held
  <2> QED BY <1>1, <2>1, <2>2, AccountStep
<1> QED BY <1>7, <1>9, <1>10, <1>11, <1>12, <1>13

LEMMA ReplyInv ==
  ASSUME IInv, NEW n \in Nodes, NEW j \in Jobs, Reply(n, j)
  PROVE  IInv'
<1> USE DEF IInv
<1> DEFINE p == Owner[j]
<1>1. UNCHANGED <<end, queued, capacity, reserved, work, at, target, tried, old, ran, opened>>
  BY DEF Reply, attempt
<1>2. p \in Nodes /\ reply[n][j] # "none" /\ end[n][p] = "up"
  BY MeshAssumption DEF Reply
<1>3. PICK e \in Messages : /\ e.kind \in {"RESULT", "ERROR"} /\ e.job = j /\ Send(n, p, e)
                            /\ e.kind = "RESULT" => reply[n][j] = "RESULT"
  <2> DEFINE m == [kind |-> IF reply[n][j] = "RESULT" THEN "RESULT" ELSE "ERROR", job |-> j]
  <2>1. /\ m \in Messages /\ m.kind \in {"RESULT", "ERROR"} /\ m.job = j
        /\ m.kind = "RESULT" => reply[n][j] = "RESULT"
    BY DEF Messages
  <2>2. Send(n, p, m)
    BY DEF Reply
  <2> HIDE DEF m
  <2> QED BY <2>1, <2>2
<1> HIDE DEF p
<1>4. /\ wire' \in [Nodes -> [Nodes -> Seq(Messages)]]
      /\ \A a, b \in Nodes : wire'[a][b] = IF a = n /\ b = p /\ end[p][n] # "down"
                                           THEN Append(wire[a][b], e) ELSE wire[a][b]
  BY <1>2, <1>3, SendWire
<1>5. \A a, b \in Nodes : wire[a][b] \in Seq(Messages)
  BY DEF TypeOK
<1>6. /\ reply' \in [Nodes -> [Jobs -> {"none", "waiting", "RESULT", "ERROR"}]]
      /\ \A a \in Nodes, k \in Jobs : reply'[a][k] = IF a = n /\ k = j THEN "none" ELSE reply[a][k]
  BY DEF Reply, TypeOK
<1>7. TypeOK'
  BY <1>1, <1>4, <1>6 DEF TypeOK
<1>8. WireExact'
  <2>1. \A a, b \in Nodes, m \in Messages : MessageExact(a, b, m) => MessageExact(a, b, m)'
    BY <1>1 DEF MessageExact
  <2>2. MessageExact(n, p, e)' /\ e.kind # "JOB"
    BY <1>1, <1>3 DEF MessageExact, WorkExact
  <2>3. \A a, b \in Nodes : ~(a = n /\ b = p) => Kept(wire'[a][b], wire[a][b])
    BY <1>4, <1>5, KeptSame
  <2>4. wire'[n][p] = Append(wire[n][p], e) \/ Kept(wire'[n][p], wire[n][p])
    BY <1>2, <1>4, <1>5, KeptSame
  <2> QED BY <1>2, <1>7, <2>1, <2>2, <2>3, <2>4, WireAppend
<1>9. WorkExact' /\ AttemptExact'
  BY <1>1, <1>6 DEF WorkExact, AttemptExact, Attempts
<1>10. PlacesExact'
  BY <1>1, PlacesStep DEF Attempting
<1>11. RequestAccounted'
  <2> SUFFICES ASSUME NEW a \in Nodes, NEW b \in Nodes, end[a][b] = "up", end[b][a] = "up",
                      NEW k \in Jobs, k \in Pending(a, b), Held(a, b, k)
               PROVE  Held(a, b, k)'
    BY <1>1 DEF RequestAccounted, Held, Pending
  <2>1. CASE b = n /\ k = j
    <3>1. a = p
      BY <2>1 DEF Pending, p
    <3>2. OnWire(wire'[n][p], j, {"RESULT", "BUSY", "ERROR"})
      BY <1>2, <1>3, <2>1, <3>1, SendOnWire
    <3> QED BY <2>1, <3>1, <3>2 DEF Held
  <2>2. CASE ~(b = n /\ k = j)
    BY <1>2, <1>3, <1>6, <2>2, SendOnWire DEF Held
  <2> QED BY <2>1, <2>2
<1> QED BY <1>7, <1>8, <1>9, <1>10, <1>11

LEMMA ReplyFailsInv ==
  ASSUME IInv, NEW n \in Nodes, NEW j \in Jobs, ReplyFails(n, j)
  PROVE  IInv'
<1> USE DEF IInv
<1>1. UNCHANGED <<end, wire, queued, capacity, reserved, work, target, tried, old, ran, opened>>
  BY DEF ReplyFails, session
<1>2. Owner[j] \in Nodes /\ end[n][Owner[j]] = "closing"
  BY MeshAssumption DEF ReplyFails
<1>3. /\ at' \in [Jobs -> Stages]
      /\ \A k \in Jobs : at'[k] = at[k] \/ (at[k] = "sent" /\ at'[k] = "failed")
      /\ \A a, b \in Nodes : Pending(a, b)' \subseteq Pending(a, b)
  BY <1>1, <1>2, FailPendingExact DEF ReplyFails
<1>4. /\ reply' \in [Nodes -> [Jobs -> {"none", "waiting", "RESULT", "ERROR"}]]
      /\ \A a \in Nodes, k \in Jobs : reply'[a][k] = IF a = n /\ k = j THEN "none" ELSE reply[a][k]
  BY DEF ReplyFails, TypeOK
<1>5. TypeOK'
  BY <1>1, <1>3, <1>4 DEF TypeOK
<1>6. WireExact'
  <2>1. \A a, b \in Nodes, m \in Messages : MessageExact(a, b, m) => MessageExact(a, b, m)'
    BY <1>1, <1>3 DEF MessageExact, Messages
  <2>2. \A a, b \in Nodes : Kept(wire'[a][b], wire[a][b])
    BY <1>1, KeptSame DEF TypeOK
  <2> QED BY <1>5, <2>1, <2>2, WireStep
<1>7. WorkExact' /\ AttemptExact'
  BY <1>1, <1>3, <1>4 DEF WorkExact, AttemptExact, Attempts
<1>8. PlacesExact'
  <2>1. \A a, b \in Nodes : Attempting(a, b)' = Attempting(a, b)
    BY <1>1, <1>3 DEF Attempting
  <2> QED BY <1>1, <2>1, PlacesStep
<1>9. RequestAccounted'
  <2>1. \A a, b \in Nodes, k \in Jobs :
          end[b][a] = "up" /\ k \in Pending(a, b) => reply'[b][k] = reply[b][k]
    BY <1>2, <1>4 DEF Pending
  <2> QED BY <1>1, <1>3, <2>1, AccountStep DEF Held
<1> QED BY <1>5, <1>6, <1>7, <1>8, <1>9

-----------------------------------------------------------------------------
(* The invariant.                                                          *)

LEMMA InitInv == Init => IInv
<1> SUFFICES ASSUME Init PROVE IInv
  OBVIOUS
<1>1. <<>> \in Seq(Messages) /\ Len(<<>>) = 0
  BY EmptySeq
<1>2. Zero \in Pairs
  BY DEF Zero, Pairs
<1>3. TypeOK
  BY <1>1, <1>2, MeshAssumption DEF Init, TypeOK, Stages
<1>4. WireExact
  BY <1>1 DEF Init, WireExact, SentOnce
<1>5. WorkExact
  BY DEF Init, WorkExact
<1>6. Cardinality({}) = 0
  BY FS_EmptySet
<1>7. AttemptExact
  <2>1. \A j \in Jobs : Cardinality(tried[j]) <= Attempts(Owner[j])
    BY <1>6, AttemptsNat, MeshAssumption DEF Init
  <2>2. \A j \in Jobs : at[j] = "idle"
    BY DEF Init
  <2> QED BY <2>1, <2>2 DEF AttemptExact
<1>8. PlacesExact
  <2>1. \A n, p \in Nodes : Attempting(n, p) = {}
    BY DEF Init, Attempting
  <2> QED BY <1>6, <2>1 DEF Init, Zero, PlacesExact
<1>9. RequestAccounted
  BY DEF Init, RequestAccounted
<1> QED BY <1>3, <1>4, <1>5, <1>7, <1>8, <1>9 DEF IInv

LEMMA StutterInv == ASSUME IInv, UNCHANGED vars PROVE IInv'
<1>1. UNCHANGED <<end, wire, queued, capacity, reserved, work, reply, at, target, tried, old, ran, opened>>
  BY DEF vars, session, attempt
<1>2. TypeOK' /\ WorkExact' /\ AttemptExact' /\ PlacesExact' /\ RequestAccounted'
  BY <1>1 DEF IInv, TypeOK, WorkExact, AttemptExact, Attempts, PlacesExact, Attempting,
              RequestAccounted, Pending, OnWire
<1>3. WireExact'
  BY <1>1 DEF IInv, WireExact, MessageExact, SentOnce
<1> QED BY <1>2, <1>3 DEF IInv

LEMMA NextInv == ASSUME IInv, [Next]_vars PROVE IInv'
<1>1. CASE UNCHANGED vars
  BY <1>1, StutterInv
<1>2. CASE Failures
  BY <1>2, DisconnectInv, ServeEndInv, CrashInv, ReplyFailsInv, RequestFailsInv DEF Failures
<1>3. CASE Timeouts
  BY <1>3, IdleInv, ReleaseInv DEF Timeouts
<1>4. CASE Network
  BY <1>4, ConnectInv, HeartbeatInv, ReceiveJobInv, RefuseJobInv, ReceiveAnswerInv
     DEF Network, Receive
<1>5. CASE \E j \in Jobs : Submit(j) \/ SubmitStep(j)
  BY <1>5, IdleInv, RequestInv, ReleaseInv, ChooseInv DEF SubmitStep
<1>6. CASE \E n \in Nodes, j \in Jobs : Reply(n, j) \/ Plugin(n, j, {"RESULT", "ERROR"})
  BY <1>6, ReplyInv, FinishInv DEF Plugin
<1> QED BY <1>1, <1>2, <1>3, <1>4, <1>5, <1>6 DEF Next

\* The inductive invariant: messages, jobs, attempts and places agree in every
\* state that submit, _message, _reply and the failures of the mesh lead to.
THEOREM Invariance == Spec => []IInv
<1>1. IInv /\ [Next]_vars => IInv'
  BY NextInv
<1> QED BY InitInv, <1>1, PTL DEF Spec

\* submit's finally: a session's reservations are the attempts made on it that
\* are not over; a job runs on a node at most once, and on no more nodes than
\* submit makes attempts.
THEOREM AttemptsAreExact == Spec => []AttemptsExact
<1>1. ASSUME IInv PROVE AttemptsExact
  <2>1. ReservationsExact
    BY <1>1 DEF IInv, PlacesExact, ReservationsExact
  <2>2. ASSUME NEW j \in Jobs
        PROVE  Cardinality({n \in Nodes : ran[n][j] > 0}) <= Attempts(Owner[j])
    <3> DEFINE S == {n \in Nodes : ran[n][j] > 0}
    <3>1. S \subseteq tried[j]
      BY <1>1 DEF IInv, WorkExact
    <3>2. IsFiniteSet(tried[j])
      BY <1>1, MeshAssumption, FS_Subset DEF IInv, TypeOK
    <3>3. Cardinality(S) <= Cardinality(tried[j]) /\ Cardinality(S) \in Nat /\ Cardinality(tried[j]) \in Nat
      BY <3>1, <3>2, FS_Subset, FS_CardinalityType
    <3>4. Cardinality(tried[j]) <= Attempts(Owner[j]) /\ Attempts(Owner[j]) \in Nat
      BY <1>1, AttemptsNat, MeshAssumption DEF IInv, AttemptExact
    <3> HIDE DEF S
    <3>5. Cardinality(S) <= Attempts(Owner[j])
      BY <3>3, <3>4
    <3> QED BY <3>5 DEF S
  <2>3. RunsBounded
    BY <1>1, <2>2 DEF IInv, WorkExact, RunsBounded
  <2> QED BY <1>1, <2>1, <2>3 DEF IInv, AttemptsExact
<1> QED BY Invariance, <1>1, PTL

\* _Session.pending: what submit returns is the answer of the node of its last
\* attempt, and that node ran the job.
THEOREM AnswersAreTheTargets == Spec => []AnswerFromTarget
<1>1. IInv => AnswerFromTarget
  BY DEF IInv, AttemptExact, AnswerFromTarget
<1> QED BY Invariance, <1>1, PTL

\* _message and _reply: while both ends hold the session, no pending request is
\* dropped silently.
THEOREM RequestsAreAccounted == Spec => []RequestAccounted
<1>1. IInv => RequestAccounted
  BY DEF IInv
<1> QED BY Invariance, <1>1, PTL
=============================================================================
