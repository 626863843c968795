-------------------------- MODULE PirSessionProofs --------------------------
(***************************************************************************)
(* Theorems about the conversation of the two PIR processes, for every     *)
(* number of bins and queries, every size of the messages, of the chunks   *)
(* and of the connection, and every number of crashes.                     *)
(*                                                                         *)
(* The two scripts are read as one list of lines: the client writes a line *)
(* where the server reads it.  Only the line "answer" is the server's own. *)
(***************************************************************************)
EXTENDS PirSession, SequenceTheorems, TLAPS

Kinds    == {"ready", "bucket", "offline", "request", "response"}
Bytes    == Kinds \X Nat \X Nat
Messages == Kinds \X Nat \X Seq(Bytes)

-----------------------------------------------------------------------------
\* The lines: hints up to the client's greeting, its requests, the answering,
\* and the responses.
Greeting  == 2 * CuckooSize + 2
Answering == Greeting + NStates + 1
End       == Answering + NStates + 1

WriterOf(l) == IF l < Greeting THEN "server"
               ELSE IF l < Answering THEN "client"
               ELSE IF l = Answering THEN "nobody"
               ELSE IF l < End THEN "server" ELSE "nobody"

KindAt(l) == IF l = 1 \/ l = Greeting THEN "ready"
             ELSE IF l < Greeting THEN (IF l % 2 = 0 THEN "bucket" ELSE "offline")
             ELSE IF l <= Answering THEN "request" ELSE "response"

NumberAt(l) == IF l = 1 \/ l = Greeting THEN 0
               ELSE IF l < Greeting THEN (l - 2) \div 2
               ELSE IF l < Answering THEN l - Greeting - 1
               ELSE IF l = Answering THEN 0 ELSE l - Answering - 1

SizeAt(l) == Size(KindAt(l))

DoesAt(p, l) == IF WriterOf(l) = p THEN "write"
                ELSE IF WriterOf(l) = Peer(p) THEN "read" ELSE "answer"

\* The client's script lacks the line "answer".
LineAt(p, k) == IF p = "client" /\ k >= Answering THEN k + 1 ELSE k
Line(p) == LineAt(p, pc[p])

\* The line that process p goes on to from line l.
After(p, l) == IF p = "client" /\ l + 1 = Answering THEN l + 2 ELSE l + 1

\* The first line from l on that process d writes; after the last one a line
\* that it does not write.
UpNext(d, l) == IF d = "server"
                  THEN IF l < Greeting \/ l > Answering THEN l ELSE Answering + 1
                  ELSE IF l < Greeting THEN Greeting
                       ELSE IF l < Answering THEN l ELSE Answering

-----------------------------------------------------------------------------
\* The numbers the lines are made of.
LEMMA Counts ==
  /\ CuckooSize \in Nat \ {0} /\ NStates \in Nat \ {0} /\ Chunk \in Nat \ {0} /\ Capacity \in Nat \ {0}
  /\ Greeting \in Nat /\ Answering \in Nat /\ End \in Nat
  /\ 4 <= Greeting /\ Greeting + 2 <= Answering /\ Answering + 2 <= End
BY SessionAssumption DEF NStates, Greeting, Answering, End

\* There are two processes, each the other's peer.
LEMMA Peers ==
  /\ \A p \in Processes: Peer(p) \in Processes /\ Peer(p) # p /\ Peer(Peer(p)) = p
  /\ \A p, q \in Processes: q = p \/ q = Peer(p)
BY DEF Processes, Peer

\* No message is empty.
LEMMA SizePositive == \A kind \in Kinds: Size(kind) \in Nat \ {0}
BY SessionAssumption DEF Kinds, Size

\* What a line of the conversation is: a kind, a number, and a size that is not zero.
LEMMA LineTypes ==
  \A l \in 1 .. End: KindAt(l) \in Kinds /\ NumberAt(l) \in Nat /\ SizeAt(l) \in Nat \ {0}
<1> SUFFICES ASSUME NEW l \in 1 .. End
             PROVE  KindAt(l) \in Kinds /\ NumberAt(l) \in Nat /\ SizeAt(l) \in Nat \ {0}
  OBVIOUS
<1>1. KindAt(l) \in Kinds
  BY DEF KindAt, Kinds
<1>2. NumberAt(l) \in Nat
  BY Counts DEF NumberAt
<1> QED
  BY <1>1, <1>2, SizePositive DEF SizeAt

\* The loops of the scripts, line by line.
LEMMA HintLines ==
  ASSUME NEW does \in {"read", "write"}
  PROVE  /\ Hints(does) \in Seq({"read", "write", "answer"} \X Kinds \X Nat)
         /\ Len(Hints(does)) = Greeting - 2
         /\ \A k \in 1 .. Greeting - 2: Hints(does)[k] = <<does, KindAt(k + 1), NumberAt(k + 1)>>
<1> DEFINE S == {"read", "write", "answer"} \X Kinds \X Nat
<1>1. \A k \in 1 .. 2 * CuckooSize:
        /\ KindAt(k + 1) = IF k % 2 = 1 THEN "bucket" ELSE "offline"
        /\ NumberAt(k + 1) = (k - 1) \div 2 /\ (k - 1) \div 2 \in Nat
  BY Counts DEF KindAt, NumberAt, Greeting
<1>2. Hints(does) \in [1 .. 2 * CuckooSize -> S]
  BY <1>1 DEF Hints, Kinds
<1>3. Hints(does) \in Seq(S) /\ Len(Hints(does)) = 2 * CuckooSize
  BY <1>2, Counts, SMTT(30)
<1>4. 2 * CuckooSize = Greeting - 2
  BY Counts DEF Greeting
<1> QED
  BY <1>1, <1>3, <1>4 DEF Hints

\* A loop over the bins gives a line per bin, numbered from zero.
LEMMA EachLines ==
  ASSUME NEW does \in {"read", "write"}, NEW kind \in Kinds
  PROVE  /\ Each(does, kind) \in Seq({"read", "write", "answer"} \X Kinds \X Nat)
         /\ Len(Each(does, kind)) = NStates
         /\ \A k \in 1 .. NStates: Each(does, kind)[k] = <<does, kind, k - 1>>
<1> DEFINE S == {"read", "write", "answer"} \X Kinds \X Nat
<1>1. Each(does, kind) \in [1 .. NStates -> S]
  BY Counts DEF Each
<1>2. Each(does, kind) \in Seq(S) /\ Len(Each(does, kind)) = NStates
  BY <1>1, Counts
<1> QED
  BY <1>2 DEF Each

\* Where the pieces of a concatenation are found in it.
LEMMA Places2 ==
  ASSUME NEW S, NEW s \in Seq(S), NEW t \in Seq(S)
  PROVE  /\ s \o t \in Seq(S) /\ Len(s \o t) = Len(s) + Len(t)
         /\ \A i \in 1 .. Len(s): (s \o t)[i] = s[i]
         /\ \A i \in 1 .. Len(t): (s \o t)[Len(s) + i] = t[i]
OBVIOUS

\* The scripts of both processes, line by line.
LEMMA ClientLines ==
  /\ Len(ClientScript) = End - 2
  /\ \A k \in 1 .. End - 2:
       ClientScript[k] = <<DoesAt("client", LineAt("client", k)), KindAt(LineAt("client", k)),
                           NumberAt(LineAt("client", k))>>
<1> DEFINE S  == {"read", "write", "answer"} \X Kinds \X Nat
           H  == Hints("read")
           E1 == Each("write", "request")
           E2 == Each("read", "response")
           r  == << <<"read", "ready", 0>> >>
           w  == << <<"write", "ready", 0>> >>
           y1 == r \o H
           y2 == y1 \o w
           y3 == y2 \o E1
           x  == ClientScript
<1>1. /\ r \in Seq(S) /\ w \in Seq(S) /\ Len(r) = 1 /\ Len(w) = 1
      /\ r[1] = <<"read", "ready", 0>> /\ w[1] = <<"write", "ready", 0>>
  BY DEF Kinds
<1>2. /\ H \in Seq(S) /\ Len(H) = Greeting - 2
      /\ \A k \in 1 .. Greeting - 2: H[k] = <<"read", KindAt(k + 1), NumberAt(k + 1)>>
  BY HintLines
<1>3. /\ E1 \in Seq(S) /\ Len(E1) = NStates /\ E2 \in Seq(S) /\ Len(E2) = NStates
      /\ \A k \in 1 .. NStates: E1[k] = <<"write", "request", k - 1>> /\ E2[k] = <<"read", "response", k - 1>>
  BY EachLines DEF Kinds
<1>4. x = r \o H \o w \o E1 \o E2
  BY DEF ClientScript
<1> HIDE DEF H, E1, E2, r, w, x, S
<1>t. r \in Seq(S) /\ H \in Seq(S) /\ w \in Seq(S) /\ E1 \in Seq(S) /\ E2 \in Seq(S)
  BY <1>1, <1>2, <1>3
<1>y. y1 \in Seq(S) /\ y2 \in Seq(S) /\ y3 \in Seq(S) /\ x = y3 \o E2
  BY <1>t, <1>4
<1>5a. /\ Len(y1) = Len(r) + Len(H)
       /\ \A i \in 1 .. Len(r): y1[i] = r[i]
       /\ \A i \in 1 .. Len(H): y1[Len(r) + i] = H[i]
  BY <1>t, Places2
<1> HIDE DEF y1
<1>5b. /\ Len(y2) = Len(y1) + Len(w)
       /\ \A i \in 1 .. Len(y1): y2[i] = y1[i]
       /\ \A i \in 1 .. Len(w): y2[Len(y1) + i] = w[i]
  BY <1>t, <1>y, Places2
<1> HIDE DEF y2
<1>5c. /\ Len(y3) = Len(y2) + Len(E1)
       /\ \A i \in 1 .. Len(y2): y3[i] = y2[i]
       /\ \A i \in 1 .. Len(E1): y3[Len(y2) + i] = E1[i]
  BY <1>t, <1>y, Places2
<1> HIDE DEF y3
<1>5d. /\ Len(x) = Len(y3) + Len(E2)
       /\ \A i \in 1 .. Len(y3): x[i] = y3[i]
       /\ \A i \in 1 .. Len(E2): x[Len(y3) + i] = E2[i]
  BY <1>t, <1>y, Places2
<1>6. /\ Len(y1) = Greeting - 1 /\ Len(y2) = Greeting
      /\ Len(y3) = Answering - 1 /\ Len(x) = End - 2
  BY <1>1, <1>2, <1>3, <1>5a, <1>5b, <1>5c, <1>5d, Counts DEF Answering, End
<1>7. \A i \in 1 .. Greeting - 1: x[i] = y1[i]
  <2> SUFFICES ASSUME NEW i \in 1 .. Greeting - 1 PROVE x[i] = y1[i]
    OBVIOUS
  <2>1. i \in 1 .. Len(y1) /\ i \in 1 .. Len(y2) /\ i \in 1 .. Len(y3)
    BY <1>3, <1>5c, <1>6, Counts
  <2>2. y2[i] = y1[i]
    BY <1>5b, <2>1
  <2>3. y3[i] = y2[i]
    BY <1>5c, <2>1
  <2>4. x[i] = y3[i]
    BY <1>5d, <2>1
  <2> QED
    BY <2>2, <2>3, <2>4
<1>8. x[1] = <<"read", "ready", 0>>
  BY <1>1, <1>5a, <1>7, Counts
<1>9. x[Greeting] = <<"write", "ready", 0>>
  <2>1. y2[Greeting - 1 + 1] = w[1]
    BY <1>1, <1>5b, <1>6
  <2> QED
    BY <1>1, <2>1, <1>5c, <1>5d, <1>6, Counts
<1>10. \A i \in 2 .. Greeting - 1: x[i] = <<"read", KindAt(i), NumberAt(i)>>
  <2> TAKE i \in 2 .. Greeting - 1
  <2>1. i - 1 \in 1 .. Greeting - 2 /\ i = 1 + (i - 1) /\ (i - 1) + 1 = i
    BY Counts
  <2>2. y1[1 + (i - 1)] = H[i - 1] /\ H[i - 1] = <<"read", KindAt((i - 1) + 1), NumberAt((i - 1) + 1)>>
    BY <2>1, <1>1, <1>2, <1>5a
  <2> QED
    BY <2>1, <2>2, <1>7, Counts
<1>11. \A i \in Greeting + 1 .. Answering - 1: x[i] = <<"write", "request", i - Greeting - 1>>
  <2> TAKE i \in Greeting + 1 .. Answering - 1
  <2>1. i - Greeting \in 1 .. NStates /\ i = Greeting + (i - Greeting) /\ i \in 1 .. Answering - 1
    BY Counts DEF Answering
  <2>2. y3[Greeting + (i - Greeting)] = <<"write", "request", (i - Greeting) - 1>>
    BY <2>1, <1>3, <1>5c, <1>6
  <2> QED
    BY <2>1, <2>2, <1>5d, <1>6
<1>12. \A i \in Answering .. End - 2: x[i] = <<"read", "response", i - Answering>>
  <2> TAKE i \in Answering .. End - 2
  <2>1. i - Answering + 1 \in 1 .. NStates /\ i = Answering - 1 + (i - Answering + 1)
        /\ (i - Answering + 1) - 1 = i - Answering
    BY Counts DEF End
  <2>2. x[Answering - 1 + (i - Answering + 1)] = <<"read", "response", (i - Answering + 1) - 1>>
    BY <2>1, <1>3, <1>5d, <1>6
  <2> QED
    BY <2>1, <2>2
<1> SUFFICES ASSUME NEW k \in 1 .. End - 2
             PROVE  x[k] = <<DoesAt("client", LineAt("client", k)), KindAt(LineAt("client", k)),
                             NumberAt(LineAt("client", k))>>
  BY <1>6 DEF x
<1>13. CASE k = 1 \/ k = Greeting
  BY <1>8, <1>9, <1>13, Counts DEF LineAt, DoesAt, WriterOf, Peer, KindAt, NumberAt
<1>14. CASE 1 < k /\ k < Greeting
  BY <1>10, <1>14, Counts DEF LineAt, DoesAt, WriterOf, Peer
<1>15. CASE Greeting < k /\ k < Answering
  BY <1>11, <1>15, Counts DEF LineAt, DoesAt, WriterOf, Peer, KindAt, NumberAt
<1>16. CASE Answering <= k
  BY <1>12, <1>16, Counts DEF LineAt, DoesAt, WriterOf, Peer, KindAt, NumberAt
<1> QED
  BY <1>13, <1>14, <1>15, <1>16, Counts

\* The server's script, line by line.
LEMMA ServerLines ==
  /\ Len(ServerScript) = End - 1
  /\ \A k \in 1 .. End - 1:
       ServerScript[k] = <<DoesAt("server", k), KindAt(k), NumberAt(k)>>
<1> DEFINE S  == {"read", "write", "answer"} \X Kinds \X Nat
           H  == Hints("write")
           E1 == Each("read", "request")
           E2 == Each("write", "response")
           r  == << <<"read", "ready", 0>> >>
           w  == << <<"write", "ready", 0>> >>
           a  == << <<"answer", "request", 0>> >>
           y1 == w \o H
           y2 == y1 \o r
           y3 == y2 \o E1
           y4 == y3 \o a
           x  == ServerScript
<1>1. /\ r \in Seq(S) /\ w \in Seq(S) /\ a \in Seq(S) /\ Len(r) = 1 /\ Len(w) = 1 /\ Len(a) = 1
      /\ r[1] = <<"read", "ready", 0>> /\ w[1] = <<"write", "ready", 0>> /\ a[1] = <<"answer", "request", 0>>
  BY DEF Kinds
<1>2. /\ H \in Seq(S) /\ Len(H) = Greeting - 2
      /\ \A k \in 1 .. Greeting - 2: H[k] = <<"write", KindAt(k + 1), NumberAt(k + 1)>>
  BY HintLines
<1>3. /\ E1 \in Seq(S) /\ Len(E1) = NStates /\ E2 \in Seq(S) /\ Len(E2) = NStates
      /\ \A k \in 1 .. NStates: E1[k] = <<"read", "request", k - 1>> /\ E2[k] = <<"write", "response", k - 1>>
  BY EachLines DEF Kinds
<1>4. x = y4 \o E2
  BY DEF ServerScript
<1> HIDE DEF H, E1, E2, r, w, a, x, S
<1>t. /\ r \in Seq(S) /\ H \in Seq(S) /\ w \in Seq(S) /\ a \in Seq(S)
      /\ E1 \in Seq(S) /\ E2 \in Seq(S)
  BY <1>1, <1>2, <1>3
<1>y. y1 \in Seq(S) /\ y2 \in Seq(S) /\ y3 \in Seq(S) /\ y4 \in Seq(S)
  BY <1>t
<1>5a. /\ Len(y1) = Len(w) + Len(H)
       /\ \A i \in 1 .. Len(w): y1[i] = w[i]
       /\ \A i \in 1 .. Len(H): y1[Len(w) + i] = H[i]
  BY <1>t, Places2
<1> HIDE DEF y1
<1>5b. /\ Len(y2) = Len(y1) + Len(r)
       /\ \A i \in 1 .. Len(y1): y2[i] = y1[i]
       /\ \A i \in 1 .. Len(r): y2[Len(y1) + i] = r[i]
  BY <1>t, <1>y, Places2
<1> HIDE DEF y2
<1>5c. /\ Len(y3) = Len(y2) + Len(E1)
       /\ \A i \in 1 .. Len(y2): y3[i] = y2[i]
       /\ \A i \in 1 .. Len(E1): y3[Len(y2) + i] = E1[i]
  BY <1>t, <1>y, Places2
<1> HIDE DEF y3
<1>5d. /\ Len(y4) = Len(y3) + Len(a)
       /\ \A i \in 1 .. Len(y3): y4[i] = y3[i]
       /\ \A i \in 1 .. Len(a): y4[Len(y3) + i] = a[i]
  BY <1>t, <1>y, Places2
<1> HIDE DEF y4
<1>5e. /\ Len(x) = Len(y4) + Len(E2)
       /\ \A i \in 1 .. Len(y4): x[i] = y4[i]
       /\ \A i \in 1 .. Len(E2): x[Len(y4) + i] = E2[i]
  BY <1>t, <1>y, <1>4, Places2
<1>6. /\ Len(y1) = Greeting - 1 /\ Len(y2) = Greeting
      /\ Len(y3) = Answering - 1 /\ Len(y4) = Answering /\ Len(x) = End - 1
  <2>1. /\ Len(y1) = Len(w) + Len(H) /\ Len(y2) = Len(y1) + Len(r) /\ Len(y3) = Len(y2) + Len(E1)
        /\ Len(y4) = Len(y3) + Len(a) /\ Len(x) = Len(y4) + Len(E2)
    BY <1>5a, <1>5b, <1>5c, <1>5d, <1>5e
  <2>2. /\ Len(r) = 1 /\ Len(w) = 1 /\ Len(a) = 1 /\ Len(H) = Greeting - 2
        /\ Len(E1) = NStates /\ Len(E2) = NStates
    BY <1>1, <1>2, <1>3
  <2> QED
    BY <2>1, <2>2, Counts DEF Answering, End
<1>7. \A i \in 1 .. Answering - 1: x[i] = y3[i]
  BY <1>5d, <1>5e, <1>6, Counts
<1>8. \A i \in 1 .. Greeting - 1: x[i] = y1[i]
  BY <1>5b, <1>5c, <1>6, <1>7, Counts
<1>9. x[1] = <<"write", "ready", 0>>
  BY <1>1, <1>5a, <1>8, Counts
<1>10. x[Greeting] = <<"read", "ready", 0>>
  <2>1. y2[Greeting - 1 + 1] = r[1]
    BY <1>1, <1>5b, <1>6
  <2> QED
    BY <1>1, <2>1, <1>5c, <1>6, <1>7, Counts
<1>11. \A i \in 2 .. Greeting - 1: x[i] = <<"write", KindAt(i), NumberAt(i)>>
  <2> TAKE i \in 2 .. Greeting - 1
  <2>1. i - 1 \in 1 .. Greeting - 2 /\ i = 1 + (i - 1) /\ (i - 1) + 1 = i
    BY Counts
  <2>2. y1[1 + (i - 1)] = H[i - 1] /\ H[i - 1] = <<"write", KindAt((i - 1) + 1), NumberAt((i - 1) + 1)>>
    BY <2>1, <1>1, <1>2, <1>5a
  <2> QED
    BY <2>1, <2>2, <1>8, Counts
<1>12. \A i \in Greeting + 1 .. Answering - 1: x[i] = <<"read", "request", i - Greeting - 1>>
  <2> TAKE i \in Greeting + 1 .. Answering - 1
  <2>1. i - Greeting \in 1 .. NStates /\ i = Greeting + (i - Greeting) /\ i \in 1 .. Answering - 1
    BY Counts DEF Answering
  <2>2. y3[Greeting + (i - Greeting)] = <<"read", "request", (i - Greeting) - 1>>
    BY <2>1, <1>3, <1>5c, <1>6
  <2> QED
    BY <2>1, <2>2, <1>7
<1>13. x[Answering] = <<"answer", "request", 0>>
  <2>1. y4[Answering - 1 + 1] = a[1]
    BY <1>1, <1>5d, <1>6
  <2> QED
    BY <1>1, <2>1, <1>5e, <1>6, Counts
<1>14. \A i \in Answering + 1 .. End - 1: x[i] = <<"write", "response", i - Answering - 1>>
  <2> TAKE i \in Answering + 1 .. End - 1
  <2>1. i - Answering \in 1 .. NStates /\ i = Answering + (i - Answering)
    BY Counts DEF End
  <2>2. x[Answering + (i - Answering)] = <<"write", "response", (i - Answering) - 1>>
    BY <2>1, <1>3, <1>5e, <1>6
  <2> QED
    BY <2>1, <2>2
<1> SUFFICES ASSUME NEW k \in 1 .. End - 1
             PROVE  x[k] = <<DoesAt("server", k), KindAt(k), NumberAt(k)>>
  BY <1>6 DEF x
<1>15. CASE k = 1 \/ k = Greeting \/ k = Answering
  BY <1>9, <1>10, <1>13, <1>15, Counts DEF DoesAt, WriterOf, Peer, KindAt, NumberAt
<1>16. CASE 1 < k /\ k < Greeting
  BY <1>11, <1>16, Counts DEF DoesAt, WriterOf, Peer
<1>17. CASE Greeting < k /\ k < Answering
  BY <1>12, <1>17, Counts DEF DoesAt, WriterOf, Peer, KindAt, NumberAt
<1>18. CASE Answering < k
  BY <1>14, <1>18, Counts DEF DoesAt, WriterOf, Peer, KindAt, NumberAt
<1> QED
  BY <1>15, <1>16, <1>17, <1>18, Counts

\* The script of either process, line by line.
LEMMA ScriptLines ==
  ASSUME NEW p \in Processes
  PROVE  /\ Len(Script[p]) = IF p = "client" THEN End - 2 ELSE End - 1
         /\ \A k \in 1 .. Len(Script[p]):
              /\ Script[p][k] = <<DoesAt(p, LineAt(p, k)), KindAt(LineAt(p, k)), NumberAt(LineAt(p, k))>>
              /\ LineAt(p, k) \in 1 .. End - 1
              /\ p = "client" => LineAt(p, k) # Answering
<1>1. CASE p = "client"
  <2>1. Script[p] = ClientScript
    BY <1>1 DEF Script
  <2> QED
    BY <1>1, <2>1, ClientLines, Counts DEF LineAt
<1>2. CASE p = "server"
  <2>1. Script[p] = ServerScript
    BY <1>2 DEF Script
  <2>2. \A k: LineAt(p, k) = k
    BY <1>2 DEF LineAt
  <2> QED
    BY <1>2, <2>1, <2>2, ServerLines, Counts
<1> QED
  BY <1>1, <1>2 DEF Processes

-----------------------------------------------------------------------------
\* Types, and the lines of the processes.
Types ==
  /\ status \in [Processes -> {"up", "done", "panic", "crashed"}]
  /\ pc \in [Processes -> Nat]
  /\ \A p \in Processes: pc[p] \in 1 .. Len(Script[p]) + 1
  /\ sent \in [Processes -> Nat] /\ got \in [Processes -> Seq(Bytes)]
  /\ stream \in [Processes -> Seq(Bytes)] /\ results \in [Processes -> Seq(Messages)]
  /\ blank \subseteq Requests

\* No message is complete before the process goes on, a message is only
\* written or read in its line, and the connection holds what it can.
Progress ==
  \A p \in Processes:
    /\ sent[p] < SizeAt(Line(p)) /\ (sent[p] # 0 => WriterOf(Line(p)) = p)
    /\ Len(got[p]) < SizeAt(Line(p)) /\ (got[p] # <<>> => WriterOf(Line(p)) = Peer(p))
    /\ Len(stream[p]) <= Capacity

Shape == Types /\ Progress

\* A process is in a line, and has finished in the last.
LEMMA InLine ==
  ASSUME Types, NEW p \in Processes
  PROVE  /\ Line(p) \in 1 .. End /\ (Line(p) = End <=> ~(pc[p] <= Len(Script[p])))
         /\ p = "client" => Line(p) # Answering
         /\ pc[p] <= Len(Script[p]) =>
              Kind(p) = KindAt(Line(p)) /\ Number(p) = NumberAt(Line(p)) /\ Does(p) = DoesAt(p, Line(p))
<1>1. pc[p] \in 1 .. Len(Script[p]) + 1
  BY DEF Types
<1>2. Len(Script[p]) = IF p = "client" THEN End - 2 ELSE End - 1
  BY ScriptLines
<1>3. CASE pc[p] <= Len(Script[p])
  <2>1. /\ Script[p][pc[p]] = <<DoesAt(p, Line(p)), KindAt(Line(p)), NumberAt(Line(p))>>
        /\ Line(p) \in 1 .. End - 1 /\ (p = "client" => Line(p) # Answering)
    <3>1. pc[p] \in 1 .. Len(Script[p])
      BY <1>1, <1>2, <1>3, Counts
    <3> QED
      BY <3>1, ScriptLines DEF Line
  <2> QED
    BY <2>1, <1>1, <1>2, <1>3, Counts DEF Kind, Number, Does
<1>4. CASE ~(pc[p] <= Len(Script[p]))
  BY <1>1, <1>2, <1>4, Counts DEF Line, LineAt, Processes
<1> QED
  BY <1>3, <1>4

\* A process at work is in a line of its kind of work.
LEMMA AtWork ==
  ASSUME Types, NEW p \in Processes, NEW does, Running(p, does)
  PROVE  /\ status[p] = "up" /\ pc[p] <= Len(Script[p]) /\ Line(p) \in 1 .. End - 1
         /\ Kind(p) = KindAt(Line(p)) /\ Number(p) = NumberAt(Line(p))
         /\ Kind(p) \in Kinds /\ Number(p) \in Nat
         /\ Size(Kind(p)) = SizeAt(Line(p)) /\ SizeAt(Line(p)) \in Nat \ {0}
         /\ does = "write" => WriterOf(Line(p)) = p
         /\ does = "read" => WriterOf(Line(p)) = Peer(p)
         /\ does = "answer" => Line(p) = Answering
<1>1. status[p] = "up" /\ pc[p] <= Len(Script[p]) /\ Does(p) = does
  BY DEF Running
<1>2. Line(p) \in 1 .. End - 1 /\ (p = "client" => Line(p) # Answering)
  BY <1>1, InLine, Counts
<1>3. Kind(p) = KindAt(Line(p)) /\ Number(p) = NumberAt(Line(p)) /\ does = DoesAt(p, Line(p))
  BY <1>1, InLine
<1>4. KindAt(Line(p)) \in Kinds /\ NumberAt(Line(p)) \in Nat /\ SizeAt(Line(p)) \in Nat \ {0}
  BY <1>2, LineTypes, Counts
<1>5. /\ does = "write" => WriterOf(Line(p)) = p
      /\ does = "read" => WriterOf(Line(p)) = Peer(p)
  BY <1>3 DEF DoesAt
<1>6. does = "answer" => Line(p) = Answering
  BY <1>2, <1>3, Counts DEF DoesAt, WriterOf, Peer, Processes
<1> QED
  BY <1>1, <1>2, <1>3, <1>4, <1>5, <1>6 DEF SizeAt

\* Where Advance takes a process.
LEMMA Advanced ==
  ASSUME Types, NEW p \in Processes, pc[p] <= Len(Script[p]), Advance(p)
  PROVE  /\ pc' \in [Processes -> Nat] /\ \A q \in Processes: pc'[q] \in 1 .. Len(Script[q]) + 1
         /\ Line(p)' = After(p, Line(p)) /\ Line(p)' \in 1 .. End
         /\ \A q \in Processes \ {p}: Line(q)' = Line(q)
<1>1. /\ pc' = [pc EXCEPT ![p] = pc[p] + 1] /\ pc[p] \in 1 .. Len(Script[p])
      /\ \A q \in Processes: pc[q] \in 1 .. Len(Script[q]) + 1
  BY ScriptLines, Counts DEF Advance, Types
<1>2. pc' \in [Processes -> Nat] /\ \A q \in Processes: pc'[q] \in 1 .. Len(Script[q]) + 1
  <2>1. pc' \in [Processes -> Nat] /\ \A q \in Processes: pc'[q] = IF q = p THEN pc[p] + 1 ELSE pc[q]
    BY <1>1 DEF Types
  <2>2. Len(Script[p]) \in Nat
    BY ScriptLines, Counts
  <2> QED
    BY <1>1, <2>1, <2>2
<1>3. pc'[p] = pc[p] + 1 /\ \A q \in Processes \ {p}: pc'[q] = pc[q]
  BY <1>1 DEF Types
<1>4. Len(Script[p]) = IF p = "client" THEN End - 2 ELSE End - 1
  BY ScriptLines
<1>5. Line(p)' = After(p, Line(p)) /\ Line(p)' \in 1 .. End
  BY <1>1, <1>3, <1>4, Counts DEF Line, LineAt, After, Processes
<1>6. \A q \in Processes \ {p}: Line(q)' = Line(q)
  BY <1>3 DEF Line
<1> QED
  BY <1>2, <1>5, <1>6

\* A part of a stream is no longer than the stream.
LEMMA Cut ==
  ASSUME NEW S, NEW s \in Seq(S), NEW m \in 1 .. Len(s) + 1, NEW n \in 0 .. Len(s), m <= n + 1
  PROVE  /\ SubSeq(s, m, n) \in Seq(S) /\ Len(SubSeq(s, m, n)) = n - m + 1
         /\ \A i \in 1 .. n - m + 1: SubSeq(s, m, n)[i] = s[m + i - 1]
<1>1. m \in Int /\ n \in Int /\ \A i \in m .. n: s[i] \in S
  OBVIOUS
<1> QED
  BY <1>1, SubSeqProperties

\* The first state has the shape.
LEMMA InitShape == Init => Shape
<1> SUFFICES ASSUME Init PROVE Shape
  OBVIOUS
<1>1. Types
  <2>1. \A p \in Processes: Len(Script[p]) \in Nat
    BY ScriptLines, Counts
  <2> QED
    BY <2>1 DEF Init, Types
<1>2. \A p \in Processes: sent[p] = 0 /\ got[p] = <<>> /\ stream[p] = <<>>
  BY DEF Init
<1>3. \A p \in Processes: SizeAt(Line(p)) \in Nat \ {0}
  BY <1>1, InLine, LineTypes
<1> QED
  BY <1>1, <1>2, <1>3, Counts DEF Shape, Progress

\* The end of a process leaves the shape as it is.
LEMMA EndsShape ==
  ASSUME Shape, NEW p \in Processes, NEW how \in {"done", "panic", "crashed"}, Ends(p, how)
  PROVE  Shape'
<1>1. PICK kept \in 0 .. Len(stream[p]): stream' = [stream EXCEPT ![p] = SubSeq(stream[p], 1, kept)]
  BY DEF Ends
<1>2. status' = [status EXCEPT ![p] = how] /\ UNCHANGED <<pc, sent, got, results, blank>>
  BY DEF Ends
<1>3. stream[p] \in Seq(Bytes) /\ Len(stream[p]) \in Nat
  BY DEF Shape, Types
<1>4. SubSeq(stream[p], 1, kept) \in Seq(Bytes) /\ Len(SubSeq(stream[p], 1, kept)) = kept
  BY <1>3, Cut
<1>5. Types'
  BY <1>1, <1>2, <1>4 DEF Shape, Types
<1>6. Progress'
  <2>1. \A q \in Processes: Len(stream'[q]) <= Len(stream[q])
    BY <1>1, <1>3, <1>4 DEF Shape, Types
  <2>2. \A q \in Processes: Line(q)' = Line(q)
    BY <1>2 DEF Line
  <2>3. \A q \in Processes: Len(stream'[q]) <= Capacity
    BY <2>1, <1>5, Counts DEF Shape, Types, Progress
  <2> QED
    BY <1>2, <2>2, <2>3 DEF Shape, Progress
<1> QED
  BY <1>5, <1>6 DEF Shape

\* What a call of Write does.
LEMMA WriteStep ==
  ASSUME Shape, NEW p \in Processes, Write(p)
  PROVE  /\ status[p] = "up" /\ status[Peer(p)] = "up"
         /\ Line(p) \in 1 .. End - 1 /\ WriterOf(Line(p)) = p /\ SizeAt(Line(p)) \in Nat \ {0}
         /\ sent[p] \in Nat /\ got[p] = <<>>
         /\ <<KindAt(Line(p)), NumberAt(Line(p)), sent[p] + 1>> \in Bytes
         /\ stream' = [stream EXCEPT ![p] = Append(@, <<KindAt(Line(p)), NumberAt(Line(p)), sent[p] + 1>>)]
         /\ Len(stream[p]) < Capacity
         /\ \/ /\ sent[p] + 1 = SizeAt(Line(p)) /\ sent' = [sent EXCEPT ![p] = 0]
               /\ Advance(p)
            \/ /\ sent[p] + 1 < SizeAt(Line(p)) /\ sent' = [sent EXCEPT ![p] = sent[p] + 1]
               /\ UNCHANGED pc
         /\ UNCHANGED <<status, got, results, blank>>
<1>1. Types /\ Running(p, "write")
  BY DEF Write, Shape
<1>2. /\ status[p] = "up" /\ Line(p) \in 1 .. End - 1 /\ WriterOf(Line(p)) = p
      /\ Kind(p) = KindAt(Line(p)) /\ Number(p) = NumberAt(Line(p)) /\ Kind(p) \in Kinds /\ Number(p) \in Nat
      /\ Size(Kind(p)) = SizeAt(Line(p)) /\ SizeAt(Line(p)) \in Nat \ {0}
  BY <1>1, AtWork
<1>3. sent[p] \in Nat /\ sent[p] < SizeAt(Line(p)) /\ got[p] = <<>>
  BY <1>2, Peers DEF Shape, Types, Progress
<1>4. <<KindAt(Line(p)), NumberAt(Line(p)), sent[p] + 1>> \in Bytes
  BY <1>2, <1>3 DEF Bytes
<1>5. \/ sent[p] + 1 = SizeAt(Line(p)) /\ sent' = [sent EXCEPT ![p] = 0] /\ Advance(p)
      \/ sent[p] + 1 < SizeAt(Line(p)) /\ sent' = [sent EXCEPT ![p] = sent[p] + 1] /\ UNCHANGED pc
  BY <1>2, <1>3 DEF Write
<1> QED
  BY <1>2, <1>3, <1>4, <1>5 DEF Write

\* Bytes written belong to the message that the writer is at.
LEMMA WriteShape ==
  ASSUME Shape, NEW p \in Processes, Write(p)
  PROVE  Shape'
<1> DEFINE b == <<KindAt(Line(p)), NumberAt(Line(p)), sent[p] + 1>>
<1>1. /\ WriterOf(Line(p)) = p /\ SizeAt(Line(p)) \in Nat \ {0} /\ sent[p] \in Nat /\ got[p] = <<>>
      /\ b \in Bytes /\ stream' = [stream EXCEPT ![p] = Append(stream[p], b)] /\ Len(stream[p]) < Capacity
      /\ UNCHANGED <<status, got, results, blank>>
      /\ pc[p] <= Len(Script[p])
  BY WriteStep, AtWork DEF Shape, Write
<1>2. \/ sent[p] + 1 = SizeAt(Line(p)) /\ sent' = [sent EXCEPT ![p] = 0] /\ Advance(p)
      \/ sent[p] + 1 < SizeAt(Line(p)) /\ sent' = [sent EXCEPT ![p] = sent[p] + 1] /\ UNCHANGED pc
  BY WriteStep
<1> HIDE DEF b
<1>3. stream' \in [Processes -> Seq(Bytes)] /\ \A q \in Processes: Len(stream'[q]) <= Capacity
  <2>1. /\ stream[p] \in Seq(Bytes) /\ Append(stream[p], b) \in Seq(Bytes)
        /\ Len(Append(stream[p], b)) = Len(stream[p]) + 1 /\ Len(stream[p]) \in Nat
    BY <1>1 DEF Shape, Types
  <2> QED
    BY <1>1, <2>1, Counts DEF Shape, Types, Progress
<1>4. CASE sent[p] + 1 = SizeAt(Line(p)) /\ sent' = [sent EXCEPT ![p] = 0] /\ Advance(p)
  <2>1. /\ pc' \in [Processes -> Nat] /\ \A q \in Processes: pc'[q] \in 1 .. Len(Script[q]) + 1
        /\ Line(p)' \in 1 .. End /\ \A q \in Processes \ {p}: Line(q)' = Line(q)
    BY <1>1, <1>4, Advanced DEF Shape
  <2>2. SizeAt(Line(p)') \in Nat \ {0}
    BY <2>1, LineTypes
  <2>3. sent'[p] = 0 /\ \A q \in Processes \ {p}: sent'[q] = sent[q]
    BY <1>4 DEF Shape, Types
  <2>4. Types'
    BY <1>1, <1>3, <1>4, <2>1 DEF Shape, Types
  <2>5. Progress'
    BY <1>1, <1>3, <2>1, <2>2, <2>3 DEF Shape, Progress
  <2> QED
    BY <2>4, <2>5 DEF Shape
<1>5. CASE sent[p] + 1 < SizeAt(Line(p)) /\ sent' = [sent EXCEPT ![p] = sent[p] + 1] /\ UNCHANGED pc
  <2>1. \A q \in Processes: Line(q)' = Line(q)
    BY <1>5 DEF Line
  <2>2. sent'[p] = sent[p] + 1 /\ \A q \in Processes \ {p}: sent'[q] = sent[q]
    BY <1>5 DEF Shape, Types
  <2>3. Types'
    <3>1. sent' \in [Processes -> Nat]
      BY <1>1, <1>5 DEF Shape, Types
    <3> QED
      BY <1>1, <1>3, <1>5, <3>1 DEF Shape, Types
  <2>4. Progress'
    BY <1>1, <1>3, <1>5, <2>1, <2>2 DEF Shape, Progress
  <2> QED
    BY <2>3, <2>4 DEF Shape
<1> QED
  BY <1>2, <1>4, <1>5

\* A write that nobody will read changes the writer's place only.
LEMMA WriteToNobodyShape ==
  ASSUME Shape, NEW p \in Processes, WriteToNobody(p)
  PROVE  Shape'
<1>1. /\ WriterOf(Line(p)) = p /\ pc[p] <= Len(Script[p]) /\ Advance(p)
      /\ sent' = [sent EXCEPT ![p] = 0] /\ UNCHANGED <<status, got, results, blank>>
  BY AtWork DEF Shape, WriteToNobody
<1>2. PICK kept \in 0 .. Len(stream[Peer(p)]):
        stream' = [stream EXCEPT ![Peer(p)] = SubSeq(stream[Peer(p)], 1, kept)]
  BY DEF WriteToNobody
<1>3. stream[Peer(p)] \in Seq(Bytes) /\ Len(stream[Peer(p)]) \in Nat /\ Peer(p) \in Processes
  BY Peers DEF Shape, Types
<1>4. SubSeq(stream[Peer(p)], 1, kept) \in Seq(Bytes) /\ Len(SubSeq(stream[Peer(p)], 1, kept)) = kept
  BY <1>3, Cut
<1>5. stream' \in [Processes -> Seq(Bytes)] /\ \A q \in Processes: Len(stream'[q]) <= Capacity
  <2>1. \A q \in Processes: stream'[q] = IF q = Peer(p) THEN SubSeq(stream[Peer(p)], 1, kept) ELSE stream[q]
    BY <1>2 DEF Shape, Types
  <2>2. kept <= Capacity
    BY <1>3, Counts DEF Shape, Progress
  <2> QED
    BY <1>2, <1>3, <1>4, <2>1, <2>2 DEF Shape, Types, Progress
<1>6. /\ pc' \in [Processes -> Nat] /\ \A q \in Processes: pc'[q] \in 1 .. Len(Script[q]) + 1
      /\ Line(p)' \in 1 .. End /\ \A q \in Processes \ {p}: Line(q)' = Line(q)
  BY <1>1, Advanced DEF Shape
<1>7. SizeAt(Line(p)') \in Nat \ {0}
  BY <1>6, LineTypes
<1>8. sent'[p] = 0 /\ \A q \in Processes \ {p}: sent'[q] = sent[q]
  BY <1>1 DEF Shape, Types
<1>9. got[p] = <<>>
  BY <1>1, Peers DEF Shape, Progress
<1>10. Types'
  BY <1>1, <1>5, <1>6 DEF Shape, Types
<1>11. Progress'
  BY <1>1, <1>5, <1>6, <1>7, <1>8, <1>9 DEF Shape, Progress
<1> QED
  BY <1>10, <1>11 DEF Shape

\* A process that has its message, whole or not, records it and goes on.
LEMMA ReturnsShape ==
  ASSUME Shape, NEW p \in Processes, pc[p] <= Len(Script[p]), WriterOf(Line(p)) = Peer(p),
         NEW bytes \in Seq(Bytes), Returns(p, bytes),
         stream' \in [Processes -> Seq(Bytes)], \A q \in Processes: Len(stream'[q]) <= Capacity,
         UNCHANGED <<status, sent, blank>>
  PROVE  Shape'
<1>1. /\ results' = [results EXCEPT ![p] = Append(results[p], <<Kind(p), Number(p), bytes>>)]
      /\ got' = [got EXCEPT ![p] = <<>>] /\ Advance(p)
  BY DEF Returns
<1>2. Kind(p) \in Kinds /\ Number(p) \in Nat
  <2>1. Kind(p) = KindAt(Line(p)) /\ Number(p) = NumberAt(Line(p)) /\ Line(p) \in 1 .. End
    BY InLine DEF Shape
  <2> QED
    BY <2>1, LineTypes
<1>3. results' \in [Processes -> Seq(Messages)]
  <2>1. results[p] \in Seq(Messages) /\ <<Kind(p), Number(p), bytes>> \in Messages
    BY <1>2 DEF Shape, Types, Messages
  <2>2. Append(results[p], <<Kind(p), Number(p), bytes>>) \in Seq(Messages)
    BY <2>1, AppendProperties
  <2> QED
    BY <1>1, <2>2 DEF Shape, Types
<1>4. /\ pc' \in [Processes -> Nat] /\ \A q \in Processes: pc'[q] \in 1 .. Len(Script[q]) + 1
      /\ Line(p)' \in 1 .. End /\ \A q \in Processes \ {p}: Line(q)' = Line(q)
  BY <1>1, Advanced DEF Shape
<1>5. SizeAt(Line(p)') \in Nat \ {0}
  BY <1>4, LineTypes
<1>6. got' \in [Processes -> Seq(Bytes)] /\ got'[p] = <<>> /\ \A q \in Processes \ {p}: got'[q] = got[q]
  BY <1>1 DEF Shape, Types
<1>7. sent[p] = 0
  BY Peers DEF Shape, Progress
<1>8. Types'
  BY <1>3, <1>4, <1>6 DEF Shape, Types
<1>9. Progress'
  <2>1. /\ sent'[p] < SizeAt(Line(p)') /\ Len(got'[p]) < SizeAt(Line(p)') /\ sent'[p] = 0
    BY <1>5, <1>6, <1>7
  <2>2. \A q \in Processes \ {p}: Line(q)' = Line(q) /\ sent'[q] = sent[q] /\ got'[q] = got[q]
    BY <1>4, <1>6
  <2> QED
    BY <1>6, <2>1, <2>2 DEF Shape, Progress
<1> QED
  BY <1>8, <1>9 DEF Shape

\* What a call of Read takes from the connection.
LEMMA ReadStep ==
  ASSUME Shape, NEW p \in Processes, Read(p)
  PROVE  /\ status[p] = "up" /\ pc[p] <= Len(Script[p])
         /\ Line(p) \in 1 .. End - 1 /\ WriterOf(Line(p)) = Peer(p) /\ SizeAt(Line(p)) \in Nat \ {0}
         /\ UNCHANGED <<status, sent, blank>>
         /\ \E n \in 1 .. Len(stream[Peer(p)]):
              LET bytes == got[p] \o SubSeq(stream[Peer(p)], 1, n)
              IN  /\ Len(got[p]) + n <= SizeAt(Line(p))
                  /\ stream' = [stream EXCEPT ![Peer(p)] = SubSeq(stream[Peer(p)], n + 1, Len(stream[Peer(p)]))]
                  /\ bytes \in Seq(Bytes) /\ Len(bytes) = Len(got[p]) + n
                  /\ \/ Len(bytes) < SizeAt(Line(p)) /\ got' = [got EXCEPT ![p] = bytes] /\ UNCHANGED <<pc, results>>
                     \/ (Loops(Kind(p)) => Len(bytes) = SizeAt(Line(p))) /\ Returns(p, bytes)
<1>1. Types /\ Running(p, "read")
  BY DEF Read, Shape
<1>2. /\ status[p] = "up" /\ pc[p] <= Len(Script[p]) /\ Line(p) \in 1 .. End - 1 /\ WriterOf(Line(p)) = Peer(p)
      /\ Size(Kind(p)) = SizeAt(Line(p)) /\ SizeAt(Line(p)) \in Nat \ {0}
  BY <1>1, AtWork
<1>3. Len(got[p]) \in Nat /\ Len(got[p]) < SizeAt(Line(p)) /\ got[p] \in Seq(Bytes) /\ stream[Peer(p)] \in Seq(Bytes)
  BY Peers DEF Shape, Types, Progress
<1>4. Asked(p) \in Nat /\ Asked(p) <= SizeAt(Line(p)) - Len(got[p])
  BY <1>2, <1>3, Counts DEF Asked
<1>5. PICK n \in 1 .. Asked(p):
        /\ n <= Len(stream[Peer(p)])
        /\ stream' = [stream EXCEPT ![Peer(p)] = SubSeq(stream[Peer(p)], n + 1, Len(stream[Peer(p)]))]
        /\ LET bytes == got[p] \o SubSeq(stream[Peer(p)], 1, n)
           IN  IF Loops(Kind(p)) /\ Missing(p, bytes)
                 THEN got' = [got EXCEPT ![p] = bytes] /\ UNCHANGED <<pc, results>>
                 ELSE Returns(p, bytes)
  BY DEF Read
<1> DEFINE bytes == got[p] \o SubSeq(stream[Peer(p)], 1, n)
<1>6. n \in 1 .. Len(stream[Peer(p)]) /\ Len(got[p]) + n <= SizeAt(Line(p))
  BY <1>2, <1>3, <1>4, <1>5
<1>7. bytes \in Seq(Bytes) /\ Len(bytes) = Len(got[p]) + n
  <2>1. SubSeq(stream[Peer(p)], 1, n) \in Seq(Bytes) /\ Len(SubSeq(stream[Peer(p)], 1, n)) = n
    BY <1>3, <1>6, Cut
  <2> QED
    BY <1>3, <2>1, Places2
<1>8. \/ Len(bytes) < SizeAt(Line(p)) /\ got' = [got EXCEPT ![p] = bytes] /\ UNCHANGED <<pc, results>>
      \/ (Loops(Kind(p)) => Len(bytes) = SizeAt(Line(p))) /\ Returns(p, bytes)
  <2>1. /\ Missing(p, bytes) <=> Len(bytes) < SizeAt(Line(p))
        /\ ~Missing(p, bytes) => Len(bytes) = SizeAt(Line(p))
    BY <1>2, <1>3, <1>6, <1>7 DEF Missing
  <2>2. IF Loops(Kind(p)) /\ Missing(p, bytes)
          THEN got' = [got EXCEPT ![p] = bytes] /\ UNCHANGED <<pc, results>>
          ELSE Returns(p, bytes)
    BY <1>5
  <2> HIDE DEF bytes
  <2> QED
    BY <2>1, <2>2
<1>9. UNCHANGED <<status, sent, blank>>
  BY DEF Read
<1> HIDE DEF bytes
<1> QED
  BY <1>2, <1>5, <1>6, <1>7, <1>8, <1>9 DEF bytes

\* Bytes read leave the stream in order, and complete a message or do not.
LEMMA ReadShape ==
  ASSUME Shape, NEW p \in Processes, Read(p)
  PROVE  Shape'
<1>1. /\ pc[p] <= Len(Script[p]) /\ WriterOf(Line(p)) = Peer(p) /\ UNCHANGED <<status, sent, blank>>
      /\ Peer(p) \in Processes
  BY ReadStep, Peers
<1>2. PICK n \in 1 .. Len(stream[Peer(p)]):
        LET bytes == got[p] \o SubSeq(stream[Peer(p)], 1, n)
        IN  /\ stream' = [stream EXCEPT ![Peer(p)] = SubSeq(stream[Peer(p)], n + 1, Len(stream[Peer(p)]))]
            /\ bytes \in Seq(Bytes) /\ Len(bytes) = Len(got[p]) + n
            /\ \/ Len(bytes) < SizeAt(Line(p)) /\ got' = [got EXCEPT ![p] = bytes] /\ UNCHANGED <<pc, results>>
               \/ Returns(p, bytes)
  BY ReadStep
<1> DEFINE bytes == got[p] \o SubSeq(stream[Peer(p)], 1, n)
           rest  == SubSeq(stream[Peer(p)], n + 1, Len(stream[Peer(p)]))
<1>3. stream' \in [Processes -> Seq(Bytes)] /\ \A q \in Processes: Len(stream'[q]) <= Capacity
  <2>1. stream[Peer(p)] \in Seq(Bytes) /\ Len(stream[Peer(p)]) \in Nat
    BY <1>1 DEF Shape, Types
  <2>2. rest \in Seq(Bytes) /\ Len(rest) = Len(stream[Peer(p)]) - n
    BY <1>2, <2>1, Cut
  <2>3. Len(rest) <= Capacity
    BY <1>1, <1>2, <2>1, <2>2, Counts DEF Shape, Progress
  <2>4. stream' = [stream EXCEPT ![Peer(p)] = rest]
    BY <1>2
  <2> HIDE DEF rest
  <2> QED
    BY <2>2, <2>3, <2>4 DEF Shape, Types, Progress
<1>4. bytes \in Seq(Bytes)
  BY <1>2
<1>5. CASE Returns(p, bytes)
  BY <1>1, <1>3, <1>4, <1>5, ReturnsShape
<1>6. CASE Len(bytes) < SizeAt(Line(p)) /\ got' = [got EXCEPT ![p] = bytes] /\ UNCHANGED <<pc, results>>
  <2> HIDE DEF bytes
  <2>1. \A q \in Processes: Line(q)' = Line(q)
    BY <1>6 DEF Line
  <2>2. /\ got' \in [Processes -> Seq(Bytes)] /\ got'[p] = bytes
        /\ \A q \in Processes \ {p}: got'[q] = got[q]
    BY <1>4, <1>6 DEF Shape, Types
  <2>3. Types'
    BY <1>1, <1>3, <1>6, <2>2 DEF Shape, Types
  <2>4. Progress'
    BY <1>1, <1>3, <1>6, <2>1, <2>2 DEF Shape, Progress
  <2> QED
    BY <2>3, <2>4 DEF Shape
<1> QED
  BY <1>2, <1>5, <1>6

\* What a process has recorded after a read.
LEMMA Recording ==
  ASSUME Types, NEW p \in Processes, NEW bytes, Returns(p, bytes)
  PROVE  /\ Results(p)' = Results(p) \cup {<<Kind(p), Number(p), bytes>>}
         /\ \A q \in Processes \ {p}: Results(q)' = Results(q)
<1>1. PICK s, t, r: s = results[p] /\ t = results'[p] /\ r = <<Kind(p), Number(p), bytes>>
  OBVIOUS
<1>2. s \in Seq(Messages) /\ t = Append(s, r) /\ \A q \in Processes \ {p}: results'[q] = results[q]
  BY <1>1 DEF Types, Returns
<1>3. Len(s) \in Nat /\ Len(t) = Len(s) + 1 /\ t[Len(s) + 1] = r /\ \A k \in 1 .. Len(s): t[k] = s[k]
  BY <1>2
<1>4. {t[k]: k \in 1 .. Len(t)} = {s[k]: k \in 1 .. Len(s)} \cup {r}
  <2>1. \A k \in 1 .. Len(t): k \in 1 .. Len(s) \/ k = Len(s) + 1
    BY <1>3
  <2>2. \A k \in 1 .. Len(s): k \in 1 .. Len(t)
    BY <1>3
  <2>3. Len(s) + 1 \in 1 .. Len(t)
    BY <1>3
  <2> QED
    BY <1>3, <2>1, <2>2, <2>3
<1>5. \A q \in Processes \ {p}: Results(q)' = Results(q)
  BY <1>2 DEF Results
<1> QED
  BY <1>1, <1>4, <1>5, ZenonT(40) DEF Results

\* A read from a peer that is gone ends, or goes on with less.
LEMMA ReadEndedShape ==
  ASSUME Shape, NEW p \in Processes, ReadEnded(p)
  PROVE  Shape'
<1>1. pc[p] <= Len(Script[p]) /\ WriterOf(Line(p)) = Peer(p)
  BY AtWork DEF ReadEnded, Shape
<1>2. CASE Returns(p, <<>>) /\ UNCHANGED <<status, sent, stream, blank>>
  <2>1. <<>> \in Seq(Bytes)
    OBVIOUS
  <2>2. stream' \in [Processes -> Seq(Bytes)] /\ \A q \in Processes: Len(stream'[q]) <= Capacity
    BY <1>2 DEF Shape, Types, Progress
  <2> QED
    BY <1>1, <1>2, <2>1, <2>2, ReturnsShape
<1>3. CASE Ends(p, "panic")
  BY <1>3, EndsShape
<1> QED
  BY <1>2, <1>3 DEF ReadEnded

\* Answering is one line of the server's script.
LEMMA AnswerShape ==
  ASSUME Shape, Answer
  PROVE  Shape'
<1> DEFINE p == "server"
<1>1. p \in Processes /\ pc[p] <= Len(Script[p]) /\ Line(p) = Answering
  BY AtWork DEF Answer, Processes, Shape
<1>2. CASE Advance(p) /\ UNCHANGED <<status, sent, got, stream, results, blank>>
  <2>1. /\ pc' \in [Processes -> Nat] /\ \A q \in Processes: pc'[q] \in 1 .. Len(Script[q]) + 1
        /\ Line(p)' \in 1 .. End /\ \A q \in Processes \ {p}: Line(q)' = Line(q)
    BY <1>1, <1>2, Advanced DEF Shape
  <2>2. SizeAt(Line(p)') \in Nat \ {0}
    BY <2>1, LineTypes
  <2>3. WriterOf(Line(p)) = "nobody"
    BY <1>1, Counts DEF WriterOf
  <2>4. sent[p] = 0 /\ got[p] = <<>>
    BY <1>1, <2>3 DEF Shape, Progress, Peer
  <2>5. Types'
    BY <1>2, <2>1 DEF Shape, Types
  <2>6. Progress'
    BY <1>2, <2>1, <2>2, <2>4 DEF Shape, Progress
  <2> QED
    BY <2>5, <2>6 DEF Shape
<1>3. CASE Ends(p, "panic")
  BY <1>1, <1>3, EndsShape
<1> QED
  BY <1>2, <1>3 DEF Answer

\* Every step keeps the shape.
LEMMA NextShape == Shape /\ [Next]_vars => Shape'
<1> SUFFICES ASSUME Shape, [Next]_vars
             PROVE  Shape'
  OBVIOUS
<1>1. ASSUME NEW p \in Processes, Step(p)
      PROVE  Shape'
  <2>1. CASE WriteFails(p)
    BY <2>1, EndsShape DEF WriteFails
  <2>2. CASE Finish(p)
    BY <2>2, EndsShape DEF Finish
  <2> QED
    BY <1>1, <2>1, <2>2, WriteShape, WriteToNobodyShape, ReadShape, ReadEndedShape DEF Step
<1>2. ASSUME NEW p \in Processes, Crash(p)
      PROVE  Shape'
  BY <1>2, EndsShape DEF Crash
<1>3. CASE UNCHANGED vars
  BY <1>3 DEF vars, Shape, Types, Progress, Line, LineAt
<1> QED
  BY <1>1, <1>2, <1>3, AnswerShape DEF Next, Terminated

\* The shape implies the types.
LEMMA ShapeTypes == Shape => TypeOK
<1> SUFFICES ASSUME Shape
             PROVE  TypeOK
  OBVIOUS
<1>1. ASSUME NEW p \in Processes, pc[p] <= Len(Script[p])
      PROVE  Size(Kind(p)) = SizeAt(Line(p))
  BY <1>1, InLine DEF Shape, SizeAt
<1>2. ASSUME NEW p \in Processes, NEW k \in 1 .. Len(results[p])
      PROVE  results[p][k][1] \in Kinds
  <2>1. results[p] \in Seq(Messages)
    BY DEF Shape, Types
  <2>2. results[p][k] \in Messages
    BY <2>1
  <2> QED
    BY <2>2 DEF Messages
<1> QED
  BY <1>1, <1>2 DEF TypeOK, Shape, Types, Progress, Kinds

\* Types, for every number of bins, size of the messages, of the chunks and
\* of the connection: no process writes or reads past the end of a message,
\* and the connection never holds more than it can (more_utils.go:67-126).
THEOREM SessionTypes == Spec => []TypeOK
<1>1. Spec => []Shape
  BY InitShape, NextShape, PTL DEF Spec
<1> QED
  BY <1>1, ShapeTypes, PTL

-----------------------------------------------------------------------------
\* The bytes of a direction and the places they were written from: line
\* at[k], offset off[k].  The place after the last is where the next goes.
Follows(d, at, off, k, m) ==
  /\ at[k] <= at[m]
  /\ m - k < SizeAt(at[k]) - off[k] => at[m] = at[k] /\ off[m] = off[k] + (m - k)
  /\ m - k = SizeAt(at[k]) - off[k] => at[m] = UpNext(d, at[k] + 1) /\ off[m] = 0

Runs(d, s, at, off) ==
  /\ at \in [1 .. Len(s) + 1 -> 1 .. End] /\ off \in [1 .. Len(s) + 1 -> Nat]
  /\ \A k \in 1 .. Len(s):
       /\ WriterOf(at[k]) = d /\ off[k] < SizeAt(at[k])
       /\ s[k] = <<KindAt(at[k]), NumberAt(at[k]), off[k] + 1>>
  /\ \A k \in 1 .. Len(s): \A m \in k .. Len(s) + 1: Follows(d, at, off, k, m)

\* How the lines a process writes follow each other.
LEMMA UpNextFacts ==
  ASSUME NEW d \in Processes, NEW l \in 1 .. End
  PROVE  /\ UpNext(d, l) \in 1 .. End
         /\ WriterOf(l) = d =>
              /\ l < End /\ UpNext(d, l) = l /\ UpNext(d, l + 1) \in l + 1 .. End
              /\ \A p \in Processes: UpNext(d, After(p, l)) = UpNext(d, l + 1)
         /\ \A p \in Processes: WriterOf(l) # d /\ l < End /\ (p = "client" => l # Answering) =>
              UpNext(d, After(p, l)) = UpNext(d, l)
         /\ WriterOf(UpNext(d, End)) # d
BY Counts DEF Processes, UpNext, WriterOf, After

\* Nothing is on its way.
LEMMA RunsNone ==
  ASSUME NEW d \in Processes, NEW l \in 1 .. End
  PROVE  \E at, off: Runs(d, <<>>, at, off) /\ at[1] = l /\ off[1] = 0
<1> DEFINE a == [k \in 1 .. 1 |-> l]
           o == [k \in 1 .. 1 |-> 0]
<1>1. Runs(d, <<>>, a, o) /\ a[1] = l /\ o[1] = 0
  BY DEF Runs
<1> QED
  BY <1>1

\* What is left of a stream when its end is lost.
LEMMA RunsKeep ==
  ASSUME NEW d, NEW s \in Seq(Bytes), NEW at, NEW off, Runs(d, s, at, off), NEW n \in 0 .. Len(s)
  PROVE  Runs(d, SubSeq(s, 1, n), [k \in 1 .. n + 1 |-> at[k]], [k \in 1 .. n + 1 |-> off[k]])
<1> DEFINE t == SubSeq(s, 1, n)
           a == [k \in 1 .. n + 1 |-> at[k]]
           o == [k \in 1 .. n + 1 |-> off[k]]
<1>1. t \in Seq(Bytes) /\ Len(t) = n /\ \A k \in 1 .. n: t[k] = s[k]
  BY Cut
<1>2. Len(s) \in Nat /\ n \in Nat
  OBVIOUS
<1>3. a \in [1 .. n + 1 -> 1 .. End] /\ o \in [1 .. n + 1 -> Nat]
  <2>1. \A k \in 1 .. n + 1: k \in 1 .. Len(s) + 1
    BY <1>2
  <2>2. at \in [1 .. Len(s) + 1 -> 1 .. End] /\ off \in [1 .. Len(s) + 1 -> Nat]
    BY DEF Runs
  <2> QED
    BY <2>1, <2>2
<1>4. \A k \in 1 .. n + 1: a[k] = at[k] /\ o[k] = off[k]
  OBVIOUS
<1> HIDE DEF t, a, o
<1>5. ASSUME NEW k \in 1 .. Len(t)
      PROVE  /\ WriterOf(a[k]) = d /\ o[k] < SizeAt(a[k])
             /\ t[k] = <<KindAt(a[k]), NumberAt(a[k]), o[k] + 1>>
  <2>1. k \in 1 .. Len(s) /\ a[k] = at[k] /\ o[k] = off[k] /\ t[k] = s[k]
    BY <1>1, <1>2, <1>4
  <2> QED
    BY <2>1 DEF Runs
<1>6. ASSUME NEW k \in 1 .. Len(t), NEW m \in k .. Len(t) + 1
      PROVE  Follows(d, a, o, k, m)
  <2>1. /\ k \in 1 .. Len(s) /\ m \in k .. Len(s) + 1
        /\ a[k] = at[k] /\ o[k] = off[k] /\ a[m] = at[m] /\ o[m] = off[m]
    BY <1>1, <1>2, <1>4
  <2>2. Follows(d, at, off, k, m)
    BY <2>1 DEF Runs
  <2> QED
    BY <2>1, <2>2 DEF Follows
<1>7. Runs(d, t, a, o)
  BY <1>1, <1>3, <1>5, <1>6 DEF Runs
<1> QED
  BY <1>7 DEF t, a, o

\* What is left of a stream when its first bytes are read.
LEMMA RunsDrop ==
  ASSUME NEW d, NEW s \in Seq(Bytes), NEW at, NEW off, Runs(d, s, at, off), NEW n \in 0 .. Len(s)
  PROVE  Runs(d, SubSeq(s, n + 1, Len(s)), [k \in 1 .. Len(s) - n + 1 |-> at[k + n]],
                                           [k \in 1 .. Len(s) - n + 1 |-> off[k + n]])
<1> DEFINE t == SubSeq(s, n + 1, Len(s))
           a == [k \in 1 .. Len(s) - n + 1 |-> at[k + n]]
           o == [k \in 1 .. Len(s) - n + 1 |-> off[k + n]]
<1>1. t \in Seq(Bytes) /\ Len(t) = Len(s) - n /\ \A k \in 1 .. Len(s) - n: t[k] = s[k + n]
  <2>1. \A k \in 1 .. Len(s) - n: (n + 1) + k - 1 = k + n
    OBVIOUS
  <2> QED
    BY <2>1, Cut
<1>2. Len(s) \in Nat /\ n \in Nat
  OBVIOUS
<1>3. a \in [1 .. Len(s) - n + 1 -> 1 .. End] /\ o \in [1 .. Len(s) - n + 1 -> Nat]
  BY <1>2 DEF Runs
<1>4. \A k \in 1 .. Len(s) - n + 1: a[k] = at[k + n] /\ o[k] = off[k + n] /\ k + n \in 1 .. Len(s) + 1
  BY <1>2
<1>5. ASSUME NEW k \in 1 .. Len(s) - n
      PROVE  k + n \in 1 .. Len(s) /\ a[k] = at[k + n] /\ o[k] = off[k + n]
  BY <1>2, <1>4
<1> HIDE DEF t, a, o
<1>6. ASSUME NEW k \in 1 .. Len(t)
      PROVE  /\ WriterOf(a[k]) = d /\ o[k] < SizeAt(a[k])
             /\ t[k] = <<KindAt(a[k]), NumberAt(a[k]), o[k] + 1>>
  BY <1>1, <1>5 DEF Runs
<1>7. ASSUME NEW k \in 1 .. Len(t), NEW m \in k .. Len(t) + 1
      PROVE  Follows(d, a, o, k, m)
  <2>1. k + n \in 1 .. Len(s) /\ a[k] = at[k + n] /\ o[k] = off[k + n]
    BY <1>1, <1>5
  <2>2. m + n \in k + n .. Len(s) + 1 /\ a[m] = at[m + n] /\ o[m] = off[m + n] /\ (m + n) - (k + n) = m - k
    BY <1>1, <1>2, <1>4
  <2>3. Follows(d, at, off, k + n, m + n)
    BY <2>1, <2>2 DEF Runs
  <2> QED
    BY <2>1, <2>2, <2>3 DEF Follows
<1>8. Runs(d, t, a, o)
  <2>1. Len(t) + 1 = Len(s) - n + 1
    BY <1>1
  <2> QED
    BY <2>1, <1>3, <1>6, <1>7 DEF Runs
<1> QED
  BY <1>8 DEF t, a, o

\* Where the next byte goes after one that goes to line l, offset o.
NextPlace(d, l, o, l2, o2) ==
  /\ l2 \in 1 .. End /\ o2 \in Nat
  /\ \/ o + 1 < SizeAt(l) /\ l2 = l /\ o2 = o + 1
     \/ o + 1 = SizeAt(l) /\ l2 = UpNext(d, l + 1) /\ o2 = 0

\* A byte is written behind the others.
LEMMA RunsAppend ==
  ASSUME NEW d \in Processes, NEW s \in Seq(Bytes), NEW at, NEW off, Runs(d, s, at, off),
         NEW l, NEW o, at[Len(s) + 1] = l, off[Len(s) + 1] = o, WriterOf(l) = d, o < SizeAt(l),
         NEW l2, NEW o2, NextPlace(d, l, o, l2, o2)
  PROVE  \E a, f: /\ Runs(d, Append(s, <<KindAt(l), NumberAt(l), o + 1>>), a, f)
                  /\ a[1] = at[1] /\ f[1] = off[1] /\ a[Len(s) + 2] = l2 /\ f[Len(s) + 2] = o2
<1> DEFINE b == <<KindAt(l), NumberAt(l), o + 1>>
           t == Append(s, b)
           a == [k \in 1 .. Len(s) + 2 |-> IF k = Len(s) + 2 THEN l2 ELSE at[k]]
           f == [k \in 1 .. Len(s) + 2 |-> IF k = Len(s) + 2 THEN o2 ELSE off[k]]
           L == Len(s)
<1>0. /\ l \in 1 .. End /\ o \in Nat /\ WriterOf(l) = d /\ o < SizeAt(l)
      /\ at[L + 1] = l /\ off[L + 1] = o
      /\ l2 \in 1 .. End /\ o2 \in Nat
      /\ \/ o + 1 < SizeAt(l) /\ l2 = l /\ o2 = o + 1
         \/ o + 1 = SizeAt(l) /\ l2 = UpNext(d, l + 1) /\ o2 = 0
  BY DEF Runs, NextPlace
<1>1. L \in Nat /\ SizeAt(l) \in Nat /\ End \in Nat
  BY <1>0, LineTypes, Counts
<1>2. l <= l2
  BY <1>0, <1>1, UpNextFacts
<1>b. b \in Bytes
  BY <1>0, LineTypes DEF Bytes
<1>3. Len(t) = L + 1 /\ t[L + 1] = b /\ \A k \in 1 .. L: t[k] = s[k]
  BY <1>b
<1>4. /\ a \in [1 .. L + 2 -> 1 .. End] /\ f \in [1 .. L + 2 -> Nat]
      /\ a[L + 2] = l2 /\ f[L + 2] = o2 /\ \A k \in 1 .. L + 1: a[k] = at[k] /\ f[k] = off[k]
  BY <1>0, <1>1 DEF Runs
<1> HIDE DEF t, a, f, L
<1>r. /\ at \in [1 .. L + 1 -> 1 .. End] /\ off \in [1 .. L + 1 -> Nat]
      /\ \A k \in 1 .. L:
           /\ WriterOf(at[k]) = d /\ off[k] < SizeAt(at[k])
           /\ s[k] = <<KindAt(at[k]), NumberAt(at[k]), off[k] + 1>>
      /\ at[L + 1] = l /\ off[L + 1] = o
  BY <1>0 DEF Runs, L
<1>p. \A k \in 1 .. L: \A m \in k .. L + 1: Follows(d, at, off, k, m)
  BY DEF Runs, L
<1>5. ASSUME NEW k \in 1 .. Len(t)
      PROVE  /\ WriterOf(a[k]) = d /\ f[k] < SizeAt(a[k])
             /\ t[k] = <<KindAt(a[k]), NumberAt(a[k]), f[k] + 1>>
  <2>1. CASE k \in 1 .. L
    <3>1. a[k] = at[k] /\ f[k] = off[k] /\ t[k] = s[k]
      BY <1>1, <1>3, <1>4, <2>1
    <3> QED
      BY <3>1, <1>r, <2>1
  <2>2. CASE k = L + 1
    BY <1>0, <1>3, <1>4, <1>r, <1>1, <2>2
  <2> QED
    BY <1>1, <1>3, <2>1, <2>2
<1>6. ASSUME NEW k \in 1 .. Len(t), NEW m \in k .. Len(t) + 1
      PROVE  Follows(d, a, f, k, m)
  <2>1. CASE k \in 1 .. L /\ m \in k .. L + 1
    <3>1. Follows(d, at, off, k, m)
      BY <1>p, <2>1
    <3>2. a[k] = at[k] /\ f[k] = off[k] /\ a[m] = at[m] /\ f[m] = off[m]
      BY <1>1, <1>4, <2>1
    <3> QED
      BY <3>1, <3>2 DEF Follows
  <2>2. CASE k \in 1 .. L /\ m = L + 2
    <3>1. /\ a[k] = at[k] /\ f[k] = off[k] /\ a[m] = l2 /\ f[m] = o2
          /\ at[k] \in 1 .. End /\ off[k] \in Nat /\ at[L + 1] = l /\ off[L + 1] = o
          /\ L + 1 - k \in Nat /\ L + 1 \in k .. L + 1 /\ m - k = (L + 1 - k) + 1
      BY <1>0, <1>1, <1>4, <1>r, <2>2
    <3>2. Follows(d, at, off, k, L + 1)
      BY <1>p, <2>2, <3>1
    <3>3. at[k] <= l /\ (L + 1 - k < SizeAt(at[k]) - off[k] => l = at[k] /\ o = off[k] + (L + 1 - k))
      BY ONLY <1>1, <3>1, <3>2 DEF Follows
    <3> DEFINE x == at[k]  y == off[k]  g == L + 1 - k
    <3>4. /\ x <= l2
          /\ g + 1 < SizeAt(x) - y => l2 = x /\ o2 = y + (g + 1)
          /\ g + 1 = SizeAt(x) - y => l2 = UpNext(d, x + 1) /\ o2 = 0
      <4>1. x \in 1 .. End /\ y \in Nat /\ g \in Nat /\ x <= l /\ (g < SizeAt(x) - y => l = x /\ o = y + g)
        BY <3>1, <3>3
      <4> HIDE DEF x, y, g
      <4>2. SizeAt(x) \in Nat /\ SizeAt(l) \in Nat /\ End \in Nat
        BY <1>0, <4>1, LineTypes, Counts
      <4>3. x <= l2
        BY <1>0, <1>2, <4>1, <4>2
      <4>4. CASE g < SizeAt(x) - y
        <5>1. l = x /\ o = y + g /\ SizeAt(l) = SizeAt(x)
          BY <4>1, <4>4
        <5>2. CASE o + 1 < SizeAt(l) /\ l2 = l /\ o2 = o + 1
          BY <1>0, <4>1, <4>2, <4>3, <5>1, <5>2
        <5>3. CASE o + 1 = SizeAt(l) /\ l2 = UpNext(d, l + 1) /\ o2 = 0
          BY <1>0, <4>1, <4>2, <4>3, <5>1, <5>3
        <5> QED
          BY <1>0, <5>2, <5>3
      <4>5. CASE ~(g < SizeAt(x) - y)
        BY <1>0, <4>1, <4>2, <4>3, <4>5, SMTT(30)
      <4> QED
        BY <4>4, <4>5
    <3> QED
      BY ONLY <1>1, <2>2, <3>1, <3>4 DEF Follows
  <2>3. CASE k = L + 1 /\ m = L + 1
    <3>1. a[k] = l /\ f[k] = o /\ a[m] = l /\ f[m] = o /\ m - k = 0
      BY <1>0, <1>1, <1>4, <1>r, <2>3
    <3> QED
      BY <1>0, <1>1, <3>1 DEF Follows
  <2>4. CASE k = L + 1 /\ m = L + 2
    <3>1. a[k] = l /\ f[k] = o /\ a[m] = l2 /\ f[m] = o2 /\ m - k = 1
      BY <1>0, <1>1, <1>4, <1>r, <2>4
    <3> QED
      BY <1>0, <1>1, <1>2, <3>1 DEF Follows
  <2> QED
    BY <1>1, <1>3, <2>1, <2>2, <2>3, <2>4
<1>7. Runs(d, t, a, f)
  <2>1. Len(t) + 1 = L + 2
    BY <1>1, <1>3
  <2> QED
    BY <2>1, <1>4, <1>5, <1>6 DEF Runs
<1>8. a[1] = at[1] /\ f[1] = off[1] /\ a[L + 2] = l2 /\ f[L + 2] = o2
  BY <1>1, <1>4
<1> QED
  BY <1>7, <1>8 DEF t, L, b

-----------------------------------------------------------------------------
\* A read returns when it has its message: it loops over the chunks, or one
\* call cannot return less.  Without it reads lose their place (see the run
\* pir_session_small).
WholeReads == \A kind \in Kinds: Loops(kind) \/ Size(kind) = 1

Fine   == \A p \in Processes: status[p] # "crashed"
Linked == Fine \/ \A p \in Processes: status[p] = "up"

\* What is on its way starts where its reader is, and ends where its writer
\* is as long as nothing is lost.
WiredBy(d, at, off) ==
  /\ Runs(d, stream[d], at, off)
  /\ at[1] = UpNext(d, Line(Peer(d))) /\ off[1] = Len(got[Peer(d)])
  /\ Linked => at[Len(stream[d]) + 1] = UpNext(d, Line(d)) /\ off[Len(stream[d]) + 1] = sent[d]
Wired(d) == \E at, off: WiredBy(d, at, off)

\* What a process has read of a message is its beginning.
Filled(p) == \A k \in 1 .. Len(got[p]): got[p][k] = <<KindAt(Line(p)), NumberAt(Line(p)), k>>

Settled == \A p \in Processes: status[p] = "done" => Line(p) = End

Aligned ==
  /\ WholeReads /\ Shape /\ Settled
  /\ \A p \in Processes: Wired(p) /\ Filled(p)
  /\ ReadsWholeMessages /\ NobodyPanicsAlone

\* The reader of a direction is not ahead of its writer.
LEMMA NotAhead ==
  ASSUME Aligned, Linked, NEW d \in Processes
  PROVE  /\ UpNext(d, Line(Peer(d))) <= UpNext(d, Line(d))
         /\ stream[d] = <<>> => UpNext(d, Line(Peer(d))) = UpNext(d, Line(d))
<1>1. PICK at, off: WiredBy(d, at, off)
  BY DEF Aligned, Wired
<1>2. Len(stream[d]) \in Nat /\ End \in Nat
  BY Counts DEF Aligned, Shape, Types
<1>3. /\ at[1] = UpNext(d, Line(Peer(d))) /\ at[Len(stream[d]) + 1] = UpNext(d, Line(d))
      /\ Runs(d, stream[d], at, off)
  BY <1>1 DEF WiredBy
<1>4. UpNext(d, Line(d)) \in 1 .. End
  BY InLine, UpNextFacts DEF Aligned, Shape
<1>5. CASE Len(stream[d]) = 0
  BY <1>2, <1>3, <1>4, <1>5
<1>6. CASE Len(stream[d]) # 0
  <2>1. 1 \in 1 .. Len(stream[d]) /\ Len(stream[d]) + 1 \in 1 .. Len(stream[d]) + 1
    BY <1>2, <1>6
  <2>2. Follows(d, at, off, 1, Len(stream[d]) + 1)
    BY <1>3, <2>1 DEF Runs
  <2>3. stream[d] # <<>>
    BY <1>6
  <2> QED
    BY <1>3, <2>2, <2>3 DEF Follows
<1> QED
  BY <1>5, <1>6

\* Nothing is on its way to a process that has come to the end.
LEMMA NothingLeft ==
  ASSUME Aligned, NEW p \in Processes, Line(p) = End
  PROVE  stream[Peer(p)] = <<>>
<1> DEFINE d == Peer(p)
<1>1. d \in Processes /\ Peer(d) = p
  BY Peers
<1>2. PICK at, off: WiredBy(d, at, off)
  BY <1>1 DEF Aligned, Wired
<1>3. at[1] = UpNext(d, End) /\ Runs(d, stream[d], at, off)
  BY <1>1, <1>2 DEF WiredBy
<1>4. WriterOf(UpNext(d, End)) # d
  BY <1>1, UpNextFacts, Counts
<1>5. stream[d] \in Seq(Bytes)
  BY <1>1 DEF Aligned, Shape, Types
<1>6. ~(1 \in 1 .. Len(stream[d]))
  BY <1>3, <1>4 DEF Runs
<1> QED
  BY <1>5, <1>6

\* Without a crash everyone is up or done.
LEMMA FineStatus ==
  ASSUME Aligned, Fine, NEW p \in Processes, status[p] # "up"
  PROVE  status[p] = "done" /\ Line(p) = End
BY DEF Aligned, Fine, NobodyPanicsAlone, Settled, Shape, Types

\* Without a crash there is someone to read what is written.
LEMMA WriterHeard ==
  ASSUME Aligned, Fine, NEW p \in Processes, Running(p, "write")
  PROVE  status[Peer(p)] = "up"
<1> SUFFICES ASSUME status[Peer(p)] # "up" PROVE FALSE
  OBVIOUS
<1>1. Line(Peer(p)) = End
  BY Peers, FineStatus
<1>2. WriterOf(Line(p)) = p /\ Line(p) \in 1 .. End - 1
  BY AtWork DEF Aligned, Shape
<1>3. UpNext(p, End) <= UpNext(p, Line(p))
  BY <1>1, NotAhead DEF Linked
<1> QED
  BY <1>2, <1>3, Counts DEF UpNext, WriterOf, Processes

\* Without a crash a process that waits for a message gets it.
LEMMA ReaderServed ==
  ASSUME Aligned, Fine, NEW p \in Processes, Running(p, "read"), stream[Peer(p)] = <<>>
  PROVE  status[Peer(p)] = "up"
<1> SUFFICES ASSUME status[Peer(p)] # "up" PROVE FALSE
  OBVIOUS
<1>0. Peer(p) \in Processes /\ Peer(Peer(p)) = p
  BY Peers
<1>1. Line(Peer(p)) = End
  BY <1>0, FineStatus
<1>2. WriterOf(Line(p)) = Peer(p) /\ Line(p) \in 1 .. End - 1
  BY AtWork DEF Aligned, Shape
<1>3. UpNext(Peer(p), Line(p)) = UpNext(Peer(p), End)
  BY <1>0, <1>1, NotAhead DEF Linked
<1>4. UpNext(Peer(p), Line(p)) = Line(p) /\ WriterOf(UpNext(Peer(p), End)) # Peer(p)
  BY <1>0, <1>2, UpNextFacts, Counts
<1> QED
  BY <1>2, <1>3, <1>4

\* Without a crash the requests that the server has read are whole.
LEMMA RequestsThere ==
  ASSUME Aligned, Fine, Running("server", "answer")
  PROVE  AllRequestsRead
<1> SUFFICES ASSUME ~AllRequestsRead PROVE FALSE
  OBVIOUS
<1>1. PICK k \in 1 .. Len(results["server"]): results["server"][k][1] = "request" /\ results["server"][k][3] = <<>>
  BY DEF AllRequestsRead
<1> DEFINE r == results["server"][k]
<1>2. "server" \in Processes /\ "client" \in Processes /\ Peer("server") = "client" /\ Peer("client") = "server"
  BY DEF Processes, Peer
<1>3. r \in Results("server")
  BY DEF Results
<1>4. Whole(r[1], r[2]) # <<>>
  <2>1. Size(r[1]) \in Nat \ {0}
    BY <1>1, SizePositive DEF Kinds
  <2>2. Len(Whole(r[1], r[2])) = Size(r[1])
    BY <2>1 DEF Whole
  <2> QED
    BY <2>1, <2>2
<1>5. status["client"] # "up"
  BY <1>1, <1>2, <1>3, <1>4 DEF Aligned, ReadsWholeMessages
<1>6. Line("client") = End /\ Line("server") = Answering
  BY <1>2, <1>5, FineStatus, AtWork DEF Aligned, Shape
<1>7. UpNext("server", End) <= UpNext("server", Answering)
  BY <1>2, <1>6, NotAhead DEF Linked
<1> QED
  BY <1>7, Counts DEF UpNext

-----------------------------------------------------------------------------
\* A direction that a step leaves alone stays wired.
LEMMA WiredSame ==
  ASSUME NEW d \in Processes, Wired(d), stream'[d] = stream[d],
         UpNext(d, Line(Peer(d))') = UpNext(d, Line(Peer(d))), Len(got'[Peer(d)]) = Len(got[Peer(d)]),
         Linked' => Linked /\ UpNext(d, Line(d)') = UpNext(d, Line(d)) /\ sent'[d] = sent[d]
  PROVE  Wired(d)'
<1>1. PICK at, off: WiredBy(d, at, off)
  BY DEF Wired
<1>2. WiredBy(d, at, off)'
  BY <1>1 DEF WiredBy
<1> QED
  BY <1>2 DEF Wired

\* So does one that loses its end, when its writer need not be followed.
LEMMA WiredCut ==
  ASSUME NEW d \in Processes, Wired(d), stream[d] \in Seq(Bytes),
         NEW n \in 0 .. Len(stream[d]), stream'[d] = SubSeq(stream[d], 1, n),
         UpNext(d, Line(Peer(d))') = UpNext(d, Line(Peer(d))), Len(got'[Peer(d)]) = Len(got[Peer(d)]),
         ~Linked'
  PROVE  Wired(d)'
<1>1. PICK at, off: WiredBy(d, at, off)
  BY DEF Wired
<1> DEFINE a == [k \in 1 .. n + 1 |-> at[k]]
           o == [k \in 1 .. n + 1 |-> off[k]]
<1>2. Runs(d, SubSeq(stream[d], 1, n), a, o)
  BY <1>1, RunsKeep DEF WiredBy
<1>3. a[1] = at[1] /\ o[1] = off[1]
  OBVIOUS
<1> HIDE DEF a, o
<1>4. WiredBy(d, a, o)'
  BY <1>1, <1>2, <1>3 DEF WiredBy
<1> QED
  BY <1>4 DEF Wired

\* The end of a process, when what it leaves behind is safe or it crashed.
LEMMA EndsWired ==
  ASSUME Aligned, NEW p \in Processes, status[p] = "up",
         NEW how \in {"done", "panic", "crashed"}, Ends(p, how),
         Fine' => how = "done" /\ stream[Peer(p)] = <<>>
  PROVE  \A d \in Processes: Wired(d)' /\ Filled(d)'
<1>1. PICK kept \in 0 .. Len(stream[p]):
        /\ how = "done" /\ stream[Peer(p)] = <<>> => kept = Len(stream[p])
        /\ stream' = [stream EXCEPT ![p] = SubSeq(stream[p], 1, kept)]
  BY DEF Ends
<1>2. status' = [status EXCEPT ![p] = how] /\ UNCHANGED <<pc, sent, got, results, blank>>
  BY DEF Ends
<1>3. \A q \in Processes: Line(q)' = Line(q) /\ sent'[q] = sent[q] /\ got'[q] = got[q]
  BY <1>2 DEF Line
<1>4. status'[p] # "up" /\ (Fine' => Fine)
  <2>1. status'[p] = how /\ \A q \in Processes \ {p}: status'[q] = status[q]
    BY <1>2 DEF Aligned, Shape, Types
  <2> QED
    BY <2>1 DEF Fine
<1>5. Linked' => Linked /\ kept = Len(stream[p])
  BY <1>1, <1>4 DEF Linked
<1>6. stream[p] \in Seq(Bytes) /\ stream'[p] = SubSeq(stream[p], 1, kept)
      /\ \A q \in Processes \ {p}: stream'[q] = stream[q]
  BY <1>1 DEF Aligned, Shape, Types
<1>7. ASSUME NEW d \in Processes
      PROVE  Filled(d)'
  BY <1>3 DEF Filled, Aligned
<1>8. ASSUME NEW d \in Processes
      PROVE  Wired(d)'
  <2>0. Wired(d) /\ Peer(d) \in Processes
    BY Peers DEF Aligned
  <2>1. CASE d # p
    BY <1>3, <1>5, <1>6, <2>0, <2>1, WiredSame
  <2>2. CASE d = p /\ kept = Len(stream[p])
    <3>1. stream'[d] = stream[d]
      BY <1>6, <2>2
    <3> QED
      BY <1>3, <1>5, <2>0, <3>1, WiredSame
  <2>3. CASE d = p /\ kept # Len(stream[p])
    BY <1>3, <1>5, <1>6, <2>0, <2>3, WiredCut
  <2> QED
    BY <2>1, <2>2, <2>3
<1> QED
  BY <1>7, <1>8

\* What is written extends the segment under way.
LEMMA WriteWired ==
  ASSUME Aligned, NEW p \in Processes, Write(p)
  PROVE  \A d \in Processes: Wired(d)' /\ Filled(d)'
<1> DEFINE l == Line(p)
           b == <<KindAt(l), NumberAt(l), sent[p] + 1>>
           L == Len(stream[p])
<1>1. /\ status[p] = "up" /\ status[Peer(p)] = "up" /\ l \in 1 .. End /\ l < End /\ WriterOf(l) = p
      /\ SizeAt(l) \in Nat \ {0} /\ sent[p] \in Nat /\ got[p] = <<>>
      /\ stream' = [stream EXCEPT ![p] = Append(@, b)]
      /\ pc[p] <= Len(Script[p]) /\ UNCHANGED <<status, got>>
  <2>1. pc[p] <= Len(Script[p])
    BY DEF Write, Running
  <2>2. l \in 1 .. End - 1
    BY WriteStep DEF Aligned
  <2>3. l \in 1 .. End /\ l < End
    BY <2>2, Counts
  <2> QED
    BY <2>1, <2>3, WriteStep DEF Aligned
<1>2. Linked /\ Linked'
  BY <1>1, Peers DEF Linked
<1>3. Peer(p) \in Processes /\ Peer(p) # p /\ Peer(Peer(p)) = p /\ (p = "client" => l # Answering)
  BY Peers, InLine DEF Aligned, Shape
<1>4. \/ sent[p] + 1 = SizeAt(l) /\ sent' = [sent EXCEPT ![p] = 0] /\ Advance(p)
      \/ sent[p] + 1 < SizeAt(l) /\ sent' = [sent EXCEPT ![p] = sent[p] + 1] /\ UNCHANGED pc
  BY WriteStep DEF Aligned
<1> DEFINE l2 == UpNext(p, Line(p)')
           o2 == sent'[p]
<1>5. /\ NextPlace(p, l, sent[p], l2, o2)
      /\ UpNext(Peer(p), Line(p)') = UpNext(Peer(p), l)
      /\ Line(Peer(p))' = Line(Peer(p)) /\ sent'[Peer(p)] = sent[Peer(p)]
  <2>1. CASE sent[p] + 1 = SizeAt(l) /\ sent' = [sent EXCEPT ![p] = 0] /\ Advance(p)
    <3>1. Line(p)' = After(p, l) /\ Line(Peer(p))' = Line(Peer(p))
      BY <1>1, <1>3, <2>1, Advanced DEF Aligned, Shape
    <3>2. UpNext(p, After(p, l)) = UpNext(p, l + 1) /\ UpNext(p, l + 1) \in l + 1 .. End
      BY <1>1, UpNextFacts
    <3>4. UpNext(Peer(p), After(p, l)) = UpNext(Peer(p), l)
      BY <1>1, <1>3, UpNextFacts
    <3>3. sent'[p] = 0 /\ sent'[Peer(p)] = sent[Peer(p)]
      BY <1>3, <2>1 DEF Aligned, Shape, Types
    <3> QED
      BY <1>1, <2>1, <3>1, <3>2, <3>3, <3>4, Counts DEF NextPlace
  <2>2. CASE sent[p] + 1 < SizeAt(l) /\ sent' = [sent EXCEPT ![p] = sent[p] + 1] /\ UNCHANGED pc
    <3>1. Line(p)' = l /\ Line(Peer(p))' = Line(Peer(p))
      BY <2>2 DEF Line
    <3>2. UpNext(p, l) = l
      BY <1>1, UpNextFacts
    <3>3. sent'[p] = sent[p] + 1 /\ sent'[Peer(p)] = sent[Peer(p)]
      BY <1>3, <2>2 DEF Aligned, Shape, Types
    <3> QED
      BY <1>1, <2>2, <3>1, <3>2, <3>3 DEF NextPlace
  <2> QED
    BY <1>4, <2>1, <2>2
<1>6. stream[p] \in Seq(Bytes) /\ b \in Bytes /\ stream'[p] = Append(stream[p], b) /\ stream'[Peer(p)] = stream[Peer(p)]
  BY <1>1, <1>3, WriteStep DEF Aligned, Shape, Types
<1>7. Wired(p)'
  <2>1. PICK at, off: WiredBy(p, at, off)
    BY DEF Aligned, Wired
  <2>2. Runs(p, stream[p], at, off) /\ at[L + 1] = l /\ off[L + 1] = sent[p]
    BY <1>1, <1>2, <2>1, UpNextFacts DEF WiredBy
  <2>3. sent[p] < SizeAt(l)
    BY DEF Aligned, Shape, Progress
  <2>5. Len(stream'[p]) + 1 = L + 2
    BY <1>6
  <2>6. PICK a, o: /\ Runs(p, stream'[p], a, o) /\ a[1] = at[1] /\ o[1] = off[1]
                   /\ a[Len(stream'[p]) + 1] = l2 /\ o[Len(stream'[p]) + 1] = o2
    <3> HIDE DEF l, l2, o2
    <3>1. PICK s, x: s = stream[p] /\ x = sent[p]
      OBVIOUS
    <3>2. /\ p \in Processes /\ s \in Seq(Bytes) /\ Runs(p, s, at, off)
          /\ at[Len(s) + 1] = l /\ off[Len(s) + 1] = x
          /\ WriterOf(l) = p /\ x < SizeAt(l) /\ NextPlace(p, l, x, l2, o2)
      BY <1>1, <1>5, <1>6, <2>2, <2>3, <3>1
    <3>3. \E a, o: /\ Runs(p, Append(s, <<KindAt(l), NumberAt(l), x + 1>>), a, o)
                   /\ a[1] = at[1] /\ o[1] = off[1] /\ a[Len(s) + 2] = l2 /\ o[Len(s) + 2] = o2
      BY ONLY <3>2, RunsAppend
    <3>4. stream'[p] = Append(s, <<KindAt(l), NumberAt(l), x + 1>>) /\ Len(stream'[p]) + 1 = Len(s) + 2
      BY <1>6, <2>5, <3>1
    <3> QED
      BY ONLY <3>3, <3>4
  <2>7. WiredBy(p, a, o)'
    BY <1>1, <1>5, <2>1, <2>6 DEF WiredBy
  <2> QED
    BY <2>7 DEF Wired
<1>8. Wired(Peer(p))'
  <2>1. Wired(Peer(p))
    BY <1>3 DEF Aligned
  <2> QED
    BY <1>1, <1>2, <1>3, <1>5, <1>6, <2>1, WiredSame
<1>9. ASSUME NEW d \in Processes
      PROVE  Filled(d)'
  <2>1. CASE d = p
    BY <1>1, <2>1 DEF Filled
  <2>2. CASE d = Peer(p)
    BY <1>1, <1>3, <1>5, <2>2 DEF Filled, Aligned
  <2> QED
    BY <2>1, <2>2, Peers
<1> QED
  BY <1>7, <1>8, <1>9, Peers

\* A write that nobody will read leaves the reader's side as it was.
LEMMA WriteToNobodyWired ==
  ASSUME Aligned, NEW p \in Processes, WriteToNobody(p)
  PROVE  \A d \in Processes: Wired(d)' /\ Filled(d)'
<1> DEFINE l == Line(p)
           q == Peer(p)
<1>1. /\ Running(p, "write") /\ status[q] # "up" /\ Advance(p)
      /\ sent' = [sent EXCEPT ![p] = 0] /\ UNCHANGED <<status, got, results, blank>>
  BY DEF WriteToNobody
<1>2. /\ WriterOf(l) = p /\ pc[p] <= Len(Script[p]) /\ l \in 1 .. End /\ l < End /\ got[p] = <<>>
      /\ (p = "client" => l # Answering)
      /\ q \in Processes /\ q # p /\ Peer(q) = p
  BY <1>1, AtWork, InLine, Peers, Counts DEF Aligned, Shape, Progress
<1>3. ~Linked'
  <2>1. ~Fine
    BY <1>1, WriterHeard
  <2> QED
    BY <1>1, <1>2, <2>1 DEF Linked, Fine
<1>4. Line(p)' = After(p, l) /\ Line(q)' = Line(q)
  BY <1>1, <1>2, Advanced DEF Aligned, Shape
<1>5. UpNext(q, Line(p)') = UpNext(q, l)
  BY <1>2, <1>4, UpNextFacts
<1>6. PICK kept \in 0 .. Len(stream[q]): stream' = [stream EXCEPT ![q] = SubSeq(stream[q], 1, kept)]
  BY DEF WriteToNobody
<1>7. stream[q] \in Seq(Bytes) /\ stream'[q] = SubSeq(stream[q], 1, kept) /\ stream'[p] = stream[p]
  BY <1>2, <1>6 DEF Aligned, Shape, Types
<1>8. Wired(p) /\ Wired(q) /\ Filled(q)
  BY <1>2 DEF Aligned
<1>9. Wired(p)'
  BY <1>1, <1>2, <1>3, <1>4, <1>7, <1>8, WiredSame
<1>10. Wired(q)'
  BY <1>1, <1>2, <1>3, <1>5, <1>7, <1>8, WiredCut
<1>11. Filled(p)' /\ Filled(q)'
  BY <1>1, <1>2, <1>4, <1>8 DEF Filled
<1> QED
  BY <1>9, <1>10, <1>11, Peers

\* The next bytes of a direction belong to the line of its reader.
LEMMA NextBytes ==
  ASSUME Aligned, NEW p \in Processes, WriterOf(Line(p)) = Peer(p), Line(p) \in 1 .. End,
         NEW n \in 1 .. Len(stream[Peer(p)]), Len(got[p]) + n <= SizeAt(Line(p))
  PROVE  /\ \A k \in 1 .. n: stream[Peer(p)][k] = <<KindAt(Line(p)), NumberAt(Line(p)), Len(got[p]) + k>>
         /\ \E at, off:
              /\ WiredBy(Peer(p), at, off)
              /\ Len(got[p]) + n < SizeAt(Line(p)) => at[n + 1] = Line(p) /\ off[n + 1] = Len(got[p]) + n
              /\ Len(got[p]) + n = SizeAt(Line(p)) => at[n + 1] = UpNext(Peer(p), Line(p) + 1) /\ off[n + 1] = 0
<1> DEFINE d == Peer(p)
           s == stream[d]
           l == Line(p)
           g == Len(got[p])
<1>1. d \in Processes /\ Peer(d) = p /\ s \in Seq(Bytes) /\ g \in Nat /\ SizeAt(l) \in Nat
  BY Peers, LineTypes DEF Aligned, Shape, Types
<1>2. PICK at, off: WiredBy(d, at, off)
  BY <1>1 DEF Aligned, Wired
<1>3. at[1] = l /\ off[1] = g /\ Runs(d, s, at, off)
  BY <1>1, <1>2, UpNextFacts DEF WiredBy
<1>4. /\ Len(s) \in Nat /\ n \in 1 .. Len(s) /\ g + n <= SizeAt(l) /\ 1 \in 1 .. Len(s)
  BY <1>1
<1> HIDE DEF d, s, l, g
<1>5. \A m \in 1 .. Len(s) + 1: Follows(d, at, off, 1, m)
  BY <1>3, <1>4 DEF Runs
<1>6. ASSUME NEW k \in 1 .. n
      PROVE  s[k] = <<KindAt(l), NumberAt(l), g + k>>
  <2>1. k \in 1 .. Len(s) /\ k \in 1 .. Len(s) + 1 /\ k - 1 < SizeAt(l) - g
    BY <1>1, <1>4
  <2>2. at[k] = l /\ off[k] = g + (k - 1)
    BY <1>3, <1>5, <2>1 DEF Follows
  <2>3. s[k] = <<KindAt(at[k]), NumberAt(at[k]), off[k] + 1>>
    BY <1>3, <2>1 DEF Runs
  <2> QED
    BY <1>1, <2>2, <2>3
<1>7. /\ g + n < SizeAt(l) => at[n + 1] = l /\ off[n + 1] = g + n
      /\ g + n = SizeAt(l) => at[n + 1] = UpNext(d, l + 1) /\ off[n + 1] = 0
  <2>1. n + 1 \in 1 .. Len(s) + 1 /\ (n + 1) - 1 = n
    BY <1>4
  <2>2. Follows(d, at, off, 1, n + 1)
    BY <1>5, <2>1
  <2>3. /\ n < SizeAt(l) - g => at[n + 1] = l /\ off[n + 1] = g + n
        /\ n = SizeAt(l) - g => at[n + 1] = UpNext(d, l + 1) /\ off[n + 1] = 0
    BY <1>3, <2>1, <2>2 DEF Follows
  <2> QED
    BY <1>1, <1>4, <2>3
<1> QED
  BY <1>2, <1>6, <1>7 DEF d, s, l, g

\* The bytes that a process has of its message after a call of Read.
LEMMA ReadBytes ==
  ASSUME Aligned, NEW p \in Processes, WriterOf(Line(p)) = Peer(p), Line(p) \in 1 .. End,
         NEW n \in 1 .. Len(stream[Peer(p)]), Len(got[p]) + n <= SizeAt(Line(p)),
         NEW bytes, bytes = got[p] \o SubSeq(stream[Peer(p)], 1, n)
  PROVE  /\ bytes \in Seq(Bytes) /\ Len(bytes) = Len(got[p]) + n
         /\ \A k \in 1 .. Len(bytes): bytes[k] = <<KindAt(Line(p)), NumberAt(Line(p)), k>>
<1>1. PICK s, g, t: s = stream[Peer(p)] /\ g = got[p] /\ t = SubSeq(s, 1, n)
  OBVIOUS
<1>2. s \in Seq(Bytes) /\ g \in Seq(Bytes) /\ n \in 1 .. Len(s)
  BY <1>1, Peers DEF Aligned, Shape, Types
<1>3. t \in Seq(Bytes) /\ Len(t) = n /\ \A i \in 1 .. n: t[i] = s[i]
  BY <1>1, <1>2, Cut
<1>4. /\ bytes = g \o t /\ bytes \in Seq(Bytes) /\ Len(bytes) = Len(g) + n
      /\ \A i \in 1 .. Len(g): bytes[i] = g[i]
      /\ \A i \in 1 .. n: bytes[Len(g) + i] = t[i]
  BY <1>1, <1>2, <1>3, Places2
<1>5. \A k \in 1 .. n: s[k] = <<KindAt(Line(p)), NumberAt(Line(p)), Len(g) + k>>
  BY <1>1, NextBytes
<1>6. \A k \in 1 .. Len(g): g[k] = <<KindAt(Line(p)), NumberAt(Line(p)), k>>
  BY <1>1 DEF Aligned, Filled
<1>7. ASSUME NEW k \in 1 .. Len(bytes)
      PROVE  bytes[k] = <<KindAt(Line(p)), NumberAt(Line(p)), k>>
  <2>1. CASE k \in 1 .. Len(g)
    BY <1>4, <1>6, <2>1
  <2>2. CASE k \notin 1 .. Len(g)
    <3>1. k - Len(g) \in 1 .. n /\ Len(g) + (k - Len(g)) = k
      BY <1>2, <1>4, <2>2
    <3>2. bytes[Len(g) + (k - Len(g))] = t[k - Len(g)] /\ t[k - Len(g)] = s[k - Len(g)]
      BY <1>3, <1>4, <3>1
    <3> QED
      BY <1>5, <3>1, <3>2
  <2> QED
    BY <2>1, <2>2
<1> QED
  BY <1>1, <1>4, <1>7

\* What is read is the head of the segment under way, and a whole message.
LEMMA ReadWired ==
  ASSUME Aligned, NEW p \in Processes, Read(p)
  PROVE  /\ \A d \in Processes: Wired(d)' /\ Filled(d)'
         /\ ReadsWholeMessages'
<1> DEFINE d == Peer(p)
           l == Line(p)
<1>1. /\ status[p] = "up" /\ pc[p] <= Len(Script[p]) /\ l \in 1 .. End - 1 /\ WriterOf(l) = d
      /\ SizeAt(l) \in Nat \ {0} /\ UNCHANGED <<status, sent, blank>>
  BY ReadStep DEF Aligned
<1>2. PICK n \in 1 .. Len(stream[d]):
        LET bytes == got[p] \o SubSeq(stream[d], 1, n)
        IN  /\ Len(got[p]) + n <= SizeAt(l)
            /\ stream' = [stream EXCEPT ![d] = SubSeq(stream[d], n + 1, Len(stream[d]))]
            /\ bytes \in Seq(Bytes) /\ Len(bytes) = Len(got[p]) + n
            /\ \/ Len(bytes) < SizeAt(l) /\ got' = [got EXCEPT ![p] = bytes] /\ UNCHANGED <<pc, results>>
               \/ (Loops(Kind(p)) => Len(bytes) = SizeAt(l)) /\ Returns(p, bytes)
  BY ReadStep DEF Aligned
<1>3. /\ d \in Processes /\ d # p /\ Peer(d) = p /\ (p = "client" => l # Answering)
      /\ l \in 1 .. End /\ l < End /\ Len(got[p]) \in Nat /\ got \in [Processes -> Seq(Bytes)]
  <2>1. p = "client" => l # Answering
    BY InLine DEF Aligned, Shape
  <2>2. Len(got[p]) \in Nat /\ got \in [Processes -> Seq(Bytes)]
    BY DEF Aligned, Shape, Types
  <2>3. l \in 1 .. End /\ l < End
    BY <1>1, Counts
  <2> QED
    BY <2>1, <2>2, <2>3, Peers
<1>4. /\ Kind(p) = KindAt(l) /\ Number(p) = NumberAt(l) /\ Size(Kind(p)) = SizeAt(l) /\ Kind(p) \in Kinds
  BY AtWork DEF Aligned, Shape, Read
<1>5. PICK bytes: bytes = got[p] \o SubSeq(stream[d], 1, n)
  OBVIOUS
<1>6. /\ Len(bytes) = Len(got[p]) + n /\ bytes \in Seq(Bytes)
      /\ \A k \in 1 .. Len(bytes): bytes[k] = <<KindAt(l), NumberAt(l), k>>
  BY <1>1, <1>2, <1>3, <1>5, ReadBytes, ZenonT(40)
<1>7. /\ Len(got[p]) + n <= SizeAt(l)
      /\ stream' = [stream EXCEPT ![d] = SubSeq(stream[d], n + 1, Len(stream[d]))]
      /\ \/ Len(bytes) < SizeAt(l) /\ got' = [got EXCEPT ![p] = bytes] /\ UNCHANGED <<pc, results>>
         \/ Len(bytes) = SizeAt(l) /\ Returns(p, bytes)
  <2>1. \/ Len(bytes) < SizeAt(l) /\ got' = [got EXCEPT ![p] = bytes] /\ UNCHANGED <<pc, results>>
        \/ (Loops(Kind(p)) => Len(bytes) = SizeAt(l)) /\ Returns(p, bytes)
    BY <1>2, <1>5
  <2>2. ~Loops(Kind(p)) => Len(bytes) = SizeAt(l)
    BY <1>1, <1>2, <1>3, <1>4, <1>6 DEF Aligned, WholeReads
  <2> QED
    BY <1>2, <2>1, <2>2
<1>8. stream[d] \in Seq(Bytes) /\ stream'[p] = stream[p]
      /\ stream'[d] = SubSeq(stream[d], n + 1, Len(stream[d]))
  BY <1>3, <1>7 DEF Aligned, Shape, Types
<1> DEFINE l2 == UpNext(d, Line(p)')
           g2 == Len(got'[p])
\* Where the reader gets to.
<1>9. /\ \/ Len(got[p]) + n < SizeAt(l) /\ l2 = l /\ g2 = Len(got[p]) + n
         \/ Len(got[p]) + n = SizeAt(l) /\ l2 = UpNext(d, l + 1) /\ g2 = 0
      /\ UpNext(p, Line(p)') = UpNext(p, l) /\ Line(d)' = Line(d) /\ got'[d] = got[d]
  <2>1. CASE Len(bytes) < SizeAt(l) /\ got' = [got EXCEPT ![p] = bytes] /\ UNCHANGED <<pc, results>>
    <3>1. Line(p)' = l /\ Line(d)' = Line(d)
      BY <2>1 DEF Line
    <3>2. got'[p] = bytes /\ got'[d] = got[d]
      BY <1>3, <2>1
    <3> QED
      BY <1>1, <1>3, <1>6, <2>1, <3>1, <3>2, UpNextFacts
  <2>2. CASE Len(bytes) = SizeAt(l) /\ Returns(p, bytes)
    <3>1. Line(p)' = After(p, l) /\ Line(d)' = Line(d)
      BY <1>1, <1>3, <2>2, Advanced DEF Returns, Aligned, Shape
    <3>2. got'[p] = <<>> /\ got'[d] = got[d]
      BY <1>3, <2>2 DEF Returns
    <3>3. UpNext(d, After(p, l)) = UpNext(d, l + 1)
      BY <1>1, <1>3, UpNextFacts
    <3>4. UpNext(p, After(p, l)) = UpNext(p, l)
      BY <1>1, <1>3, UpNextFacts
    <3> QED
      BY <1>6, <2>2, <3>1, <3>2, <3>3, <3>4
  <2> QED
    BY <1>7, <2>1, <2>2
<1>10. Linked' <=> Linked
  BY <1>1 DEF Linked, Fine
<1>11. Wired(p)'
  <2>1. Wired(p)
    BY DEF Aligned
  <2> QED
    BY <1>1, <1>3, <1>8, <1>9, <1>10, <2>1, WiredSame
<1>12. Wired(d)'
  <2>1. PICK at, off:
          /\ WiredBy(d, at, off)
          /\ Len(got[p]) + n < SizeAt(l) => at[n + 1] = l /\ off[n + 1] = Len(got[p]) + n
          /\ Len(got[p]) + n = SizeAt(l) => at[n + 1] = UpNext(d, l + 1) /\ off[n + 1] = 0
    BY <1>1, <1>3, <1>7, NextBytes
  <2>2. at[n + 1] = l2 /\ off[n + 1] = g2
    BY <1>1, <1>3, <1>9, <2>1
  <2>3. PICK s: s = stream[d]
    OBVIOUS
  <2>4. s \in Seq(Bytes) /\ n \in 0 .. Len(s) /\ Runs(d, s, at, off)
    BY <1>8, <2>1, <2>3 DEF WiredBy
  <2> DEFINE a == [k \in 1 .. Len(s) - n + 1 |-> at[k + n]]
             o == [k \in 1 .. Len(s) - n + 1 |-> off[k + n]]
  <2>5. Runs(d, SubSeq(s, n + 1, Len(s)), a, o)
    BY <2>4, RunsDrop, SMTT(30)
  <2>6. Len(s) \in Nat /\ Len(stream'[d]) = Len(s) - n
    BY <1>8, <2>3, <2>4, Cut
  <2>7. /\ a[1] = at[n + 1] /\ o[1] = off[n + 1]
        /\ a[Len(s) - n + 1] = at[Len(s) + 1] /\ o[Len(s) - n + 1] = off[Len(s) + 1]
    BY <2>4, <2>6
  <2> HIDE DEF a, o
  <2>8. WiredBy(d, a, o)'
    BY <1>1, <1>3, <1>8, <1>9, <1>10, <2>1, <2>2, <2>3, <2>5, <2>6, <2>7 DEF WiredBy
  <2> QED
    BY <2>8 DEF Wired
<1>13. Filled(p)' /\ Filled(d)'
  <2>1. Filled(d)'
    BY <1>3, <1>9 DEF Filled, Aligned
  <2>2. CASE Len(bytes) < SizeAt(l) /\ got' = [got EXCEPT ![p] = bytes] /\ UNCHANGED <<pc, results>>
    <3>1. Line(p)' = l
      BY <2>2 DEF Line
    <3>2. got'[p] = bytes
      BY <1>3, <2>2
    <3> QED
      BY <1>6, <2>1, <3>1, <3>2 DEF Filled
  <2>3. CASE Returns(p, bytes)
    <3>1. got'[p] = <<>>
      BY <1>3, <2>3 DEF Returns
    <3> QED
      BY <2>1, <3>1 DEF Filled
  <2> QED
    BY <1>7, <2>2, <2>3
<1>14. ReadsWholeMessages'
  <2>1. CASE UNCHANGED results
    BY <1>1, <2>1 DEF ReadsWholeMessages, Results, Aligned
  <2>2. CASE Len(bytes) = SizeAt(l) /\ Returns(p, bytes)
    <3>1. bytes = Whole(KindAt(l), NumberAt(l))
      <4>1. PICK m: m = Size(KindAt(l))
        OBVIOUS
      <4>2. bytes \in [1 .. m -> Bytes] /\ \A k \in 1 .. m: bytes[k] = <<KindAt(l), NumberAt(l), k>>
        BY <1>6, <2>2, <4>1 DEF SizeAt
      <4>3. bytes = [k \in 1 .. m |-> <<KindAt(l), NumberAt(l), k>>]
        BY <4>2
      <4> QED
        BY <4>1, <4>3 DEF Whole
    <3>2. Results(p)' = Results(p) \cup {<<Kind(p), Number(p), bytes>>} /\ Results(d)' = Results(d)
      BY <1>3, <2>2, Recording DEF Aligned, Shape
    <3>3. \A q \in Processes: q = p \/ q = d
      BY Peers
    <3>4. <<Kind(p), Number(p), bytes>>[3] = Whole(Kind(p), Number(p))
      BY <1>4, <3>1
    <3> QED
      BY <1>1, <3>2, <3>3, <3>4 DEF ReadsWholeMessages, Aligned
  <2> QED
    BY <1>7, <2>1, <2>2
<1> QED
  BY <1>11, <1>12, <1>13, <1>14, Peers

\* A process that has been told of the end and goes on.
LEMMA GoesOnWired ==
  ASSUME Aligned, NEW p \in Processes, Running(p, "read"), stream[Peer(p)] = <<>>, status[Peer(p)] # "up",
         Returns(p, <<>>), UNCHANGED <<status, sent, stream, blank>>
  PROVE  /\ \A d \in Processes: Wired(d)' /\ Filled(d)'
         /\ ReadsWholeMessages'
<1> DEFINE d == Peer(p)
           l == Line(p)
<1>1. WriterOf(l) = d /\ pc[p] <= Len(Script[p]) /\ l \in 1 .. End - 1 /\ l \in 1 .. End /\ l < End
  BY AtWork, Counts DEF Aligned, Shape
<1>2. d \in Processes /\ d # p /\ Peer(d) = p /\ (p = "client" => l # Answering)
  BY Peers, InLine DEF Aligned, Shape
<1>3. ~Fine /\ ~Linked'
  <2>1. ~Fine
    BY ReaderServed
  <2> QED
    BY <1>2, <2>1 DEF Linked, Fine
<1>4. Line(p)' = After(p, l) /\ Line(p)' \in 1 .. End /\ Line(d)' = Line(d)
  BY <1>1, <1>2, Advanced DEF Returns, Aligned, Shape
<1>5. got'[p] = <<>> /\ got'[d] = got[d]
  BY <1>2 DEF Returns, Aligned, Shape, Types
<1>6. Wired(p)'
  <2>1. Wired(p)
    BY DEF Aligned
  <2> QED
    BY <1>2, <1>3, <1>4, <1>5, <2>1, WiredSame
<1>7. Wired(d)'
  <2>1. PICK u: u = UpNext(d, Line(p)')
    OBVIOUS
  <2>2. u \in 1 .. End
    BY <1>2, <1>4, <2>1, UpNextFacts
  <2>3. PICK at, off: Runs(d, <<>>, at, off) /\ at[1] = u /\ off[1] = 0
    BY <1>2, <2>2, RunsNone
  <2>4. WiredBy(d, at, off)'
    BY <1>2, <1>3, <1>5, <2>1, <2>3 DEF WiredBy
  <2> QED
    BY <2>4 DEF Wired
<1>8. Filled(p)' /\ Filled(d)'
  BY <1>2, <1>4, <1>5 DEF Filled, Aligned
<1>9. ReadsWholeMessages'
  <2>1. Results(p)' = Results(p) \cup {<<Kind(p), Number(p), <<>> >>} /\ Results(d)' = Results(d)
    BY <1>2, Recording DEF Aligned, Shape
  <2>2. \A q \in Processes: q = p \/ q = d
    BY Peers
  <2>3. <<Kind(p), Number(p), <<>> >>[3] = <<>>
    OBVIOUS
  <2> QED
    BY <2>1, <2>2, <2>3 DEF ReadsWholeMessages, Aligned
<1> QED
  BY <1>6, <1>7, <1>8, <1>9, Peers

\* Answering moves no bytes.
LEMMA AnswerWired ==
  ASSUME Aligned, Running("server", "answer"), Advance("server"),
         UNCHANGED <<status, sent, got, stream, results, blank>>
  PROVE  \A d \in Processes: Wired(d)' /\ Filled(d)'
<1>1. "server" \in Processes /\ "client" \in Processes /\ Peer("server") = "client" /\ Peer("client") = "server"
  BY DEF Processes, Peer
<1>2. Line("server") = Answering /\ pc["server"] <= Len(Script["server"])
  BY <1>1, AtWork DEF Aligned, Shape
<1>3. Line("server")' = After("server", Answering) /\ Line("client")' = Line("client")
  BY <1>1, <1>2, Advanced DEF Aligned, Shape
<1>4. \A d \in Processes: UpNext(d, After("server", Answering)) = UpNext(d, Answering)
  <2>1. Answering \in 1 .. End /\ Answering < End /\ WriterOf(Answering) = "nobody"
    BY Counts DEF WriterOf
  <2>2. \A d \in Processes: WriterOf(Answering) # d
    BY <2>1 DEF Processes
  <2> QED
    BY <1>1, <2>1, <2>2, UpNextFacts
<1>5. Linked' <=> Linked
  BY DEF Linked, Fine
<1>6. got["server"] = <<>>
  <2>1. WriterOf(Answering) # "client"
    BY Counts DEF WriterOf
  <2> QED
    BY <1>1, <1>2, <2>1 DEF Aligned, Shape, Progress
<1>7. ASSUME NEW d \in Processes
      PROVE  Wired(d)'
  <2>1. Wired(d) /\ (d = "server" \/ d = "client")
    BY DEF Aligned, Processes
  <2>2. UpNext(d, Line(Peer(d))') = UpNext(d, Line(Peer(d))) /\ UpNext(d, Line(d)') = UpNext(d, Line(d))
    BY <1>1, <1>2, <1>3, <1>4, <2>1
  <2> QED
    BY <1>5, <2>1, <2>2, WiredSame
<1>8. Filled("server")' /\ Filled("client")'
  BY <1>1, <1>3, <1>6 DEF Filled, Aligned
<1> QED
  BY <1>7, <1>8 DEF Processes

\* The end of a process keeps the alignment: it is done with nothing left to
\* read, or someone has crashed.
LEMMA EndsAligned ==
  ASSUME Aligned, NEW p \in Processes, status[p] = "up",
         NEW how \in {"done", "panic", "crashed"}, Ends(p, how),
         how = "done" => Line(p) = End, how = "panic" => ~Fine
  PROVE  Aligned'
<1>1. status'[p] = how /\ (\A q \in Processes \ {p}: status'[q] = status[q]) /\ UNCHANGED <<pc, results>>
  BY DEF Ends, Aligned, Shape, Types
<1>2. Fine' => how = "done" /\ stream[Peer(p)] = <<>>
  <2>1. CASE how = "crashed"
    BY <1>1, <2>1 DEF Fine
  <2>2. CASE how = "panic"
    <3>1. PICK q \in Processes: status[q] = "crashed"
      BY <2>2 DEF Fine
    <3>2. status'[q] = "crashed"
      BY <1>1, <3>1
    <3> QED
      BY <3>2 DEF Fine
  <2>3. CASE how = "done"
    BY <2>3, NothingLeft
  <2> QED
    BY <2>1, <2>2, <2>3
<1>3. \A d \in Processes: Wired(d)' /\ Filled(d)'
  BY <1>2, EndsWired
<1>4. Shape'
  BY EndsShape DEF Aligned
<1>5. Settled'
  <2>1. \A q \in Processes: Line(q)' = Line(q)
    BY <1>1 DEF Line
  <2> QED
    BY <1>1, <2>1 DEF Settled, Aligned
<1>6. ReadsWholeMessages'
  <2>1. \A q \in Processes: status[q] # "up" => status'[q] # "up"
    BY <1>1
  <2>2. \A q \in Processes: Results(q)' = Results(q) /\ Peer(q) \in Processes
    BY <1>1, Peers DEF Results
  <2> QED
    BY <2>1, <2>2 DEF ReadsWholeMessages, Aligned
<1>7. NobodyPanicsAlone'
  <2>1. \A q \in Processes: status[q] = "crashed" => status'[q] = "crashed"
    BY <1>1
  <2>2. (\E q \in Processes: status'[q] = "panic") => \E q \in Processes: status[q] = "crashed" \/ status'[q] = "crashed"
    BY <1>1 DEF Fine, NobodyPanicsAlone, Aligned
  <2> QED
    BY <2>1, <2>2 DEF NobodyPanicsAlone
<1>8. WholeReads'
  BY DEF Aligned, WholeReads
<1> QED
  BY <1>3, <1>4, <1>5, <1>6, <1>7, <1>8 DEF Aligned

\* At the start nothing is under way.
LEMMA InitAligned == Init /\ WholeReads => Aligned
<1> SUFFICES ASSUME Init, WholeReads PROVE Aligned
  OBVIOUS
<1>1. Shape
  BY InitShape
<1>2. \A p \in Processes: /\ status[p] = "up" /\ pc[p] = 1 /\ sent[p] = 0 /\ got[p] = <<>>
                          /\ stream[p] = <<>> /\ results[p] = <<>>
  BY DEF Init
<1>3. \A p \in Processes: Line(p) = 1
  BY <1>2, Counts DEF Line, LineAt
<1>4. ASSUME NEW d \in Processes
      PROVE  Wired(d)
  <2>1. PICK u: u = UpNext(d, 1)
    OBVIOUS
  <2>2. u \in 1 .. End
    BY <2>1, UpNextFacts, Counts
  <2>3. PICK at, off: Runs(d, <<>>, at, off) /\ at[1] = u /\ off[1] = 0
    BY <2>2, RunsNone
  <2>4. Len(stream[d]) + 1 = 1 /\ Len(got[Peer(d)]) = 0 /\ Line(Peer(d)) = 1
    BY <1>2, <1>3, Peers
  <2>5. WiredBy(d, at, off)
    BY <1>2, <1>3, <2>1, <2>3, <2>4 DEF WiredBy
  <2> QED
    BY <2>5 DEF Wired
<1>5. \A p \in Processes: Filled(p)
  BY <1>2 DEF Filled
<1>6. ReadsWholeMessages
  <2>1. \A p \in Processes: Results(p) = {}
    BY <1>2 DEF Results
  <2> QED
    BY <2>1 DEF ReadsWholeMessages
<1>7. Settled /\ NobodyPanicsAlone
  BY <1>2 DEF Settled, NobodyPanicsAlone
<1> QED
  BY <1>1, <1>4, <1>5, <1>6, <1>7 DEF Aligned

\* What is left to show for a step that ends no process.
LEMMA StepAligned ==
  ASSUME Aligned, Shape', UNCHANGED status, \A d \in Processes: Wired(d)' /\ Filled(d)', ReadsWholeMessages',
         \A q \in Processes: status[q] = "done" => Line(q)' = Line(q)
  PROVE  Aligned'
BY DEF Aligned, WholeReads, Settled, NobodyPanicsAlone

\* Every step keeps the two places and the bytes between them aligned.
LEMMA NextAligned == Aligned /\ [Next]_vars => Aligned'
<1> SUFFICES ASSUME Aligned, [Next]_vars PROVE Aligned'
  OBVIOUS
<1>0. Shape'
  BY NextShape DEF Aligned
<1>1. ASSUME NEW p \in Processes, Write(p) \/ WriteToNobody(p) \/ Read(p) \/ (ReadEnded(p) /\ GoesOn(p))
      PROVE  Aligned'
  <2>1. status[p] = "up" /\ UNCHANGED status /\ (Advance(p) \/ UNCHANGED pc) /\ pc[p] <= Len(Script[p])
    BY <1>1 DEF Write, WriteToNobody, Read, ReadEnded, Returns, Running
  <2>2. \A q \in Processes \ {p}: Line(q)' = Line(q)
    <3>1. CASE Advance(p)
      BY <2>1, <3>1, Advanced DEF Aligned, Shape
    <3>2. CASE UNCHANGED pc
      BY <3>2 DEF Line
    <3> QED
      BY <2>1, <3>1, <3>2
  <2>3. ReadsWholeMessages'
    <3>1. CASE Write(p) \/ WriteToNobody(p)
      BY <3>1 DEF Write, WriteToNobody, ReadsWholeMessages, Results, Aligned
    <3>2. CASE Read(p)
      BY <3>2, ReadWired
    <3>3. CASE ReadEnded(p) /\ GoesOn(p)
      BY <3>3, GoesOnWired DEF ReadEnded
    <3> QED
      BY <1>1, <3>1, <3>2, <3>3
  <2>4. \A d \in Processes: Wired(d)' /\ Filled(d)'
    <3>1. CASE Write(p)
      BY <3>1, WriteWired
    <3>2. CASE WriteToNobody(p)
      BY <3>2, WriteToNobodyWired
    <3>3. CASE Read(p)
      BY <3>3, ReadWired
    <3>4. CASE ReadEnded(p) /\ GoesOn(p)
      BY <3>4, GoesOnWired DEF ReadEnded
    <3> QED
      BY <1>1, <3>1, <3>2, <3>3, <3>4
  <2> QED
    BY <1>0, <2>1, <2>2, <2>3, <2>4, StepAligned
<1>2. ASSUME NEW p \in Processes, WriteFails(p) \/ (ReadEnded(p) /\ ~GoesOn(p))
      PROVE  Aligned'
  <2>1. status[p] = "up" /\ Ends(p, "panic")
    BY <1>2 DEF WriteFails, ReadEnded, Running
  <2>2. ~Fine
    BY <1>2, WriterHeard, ReaderServed DEF WriteFails, ReadEnded
  <2> QED
    BY <2>1, <2>2, EndsAligned
<1>3. ASSUME NEW p \in Processes, Finish(p)
      PROVE  Aligned'
  <2>1. status[p] = "up" /\ Ends(p, "done") /\ Line(p) = End
    <3>1. ~(pc[p] <= Len(Script[p]))
      <4>1. pc[p] \in Nat /\ Len(Script[p]) \in Nat /\ pc[p] > Len(Script[p])
        BY <1>3, ScriptLines, Counts DEF Finish, Aligned, Shape, Types
      <4> QED
        BY <4>1
    <3> QED
      BY <1>3, <3>1, InLine DEF Finish, Aligned, Shape
  <2> QED
    BY <2>1, EndsAligned
<1>4. ASSUME NEW p \in Processes, Crash(p)
      PROVE  Aligned'
  BY <1>4, EndsAligned DEF Crash
<1>5. CASE Answer
  <2>1. "server" \in Processes /\ status["server"] = "up" /\ Running("server", "answer")
        /\ pc["server"] <= Len(Script["server"])
    BY <1>5 DEF Answer, Running, Processes
  <2>2. CASE AllRequestsRead
    <3>1. Advance("server") /\ UNCHANGED <<status, sent, got, stream, results, blank>>
      BY <1>5, <2>2 DEF Answer
    <3>2. \A q \in Processes \ {"server"}: Line(q)' = Line(q)
      BY <2>1, <3>1, Advanced DEF Aligned, Shape
    <3>3. ReadsWholeMessages'
      BY <3>1 DEF ReadsWholeMessages, Results, Aligned
    <3>4. \A d \in Processes: Wired(d)' /\ Filled(d)'
      BY <2>1, <3>1, AnswerWired
    <3> QED
      BY <1>0, <2>1, <3>1, <3>2, <3>3, <3>4, StepAligned
  <2>3. CASE ~AllRequestsRead
    <3>1. Ends("server", "panic") /\ ~Fine
      BY <1>5, <2>1, <2>3, RequestsThere DEF Answer
    <3> QED
      BY <2>1, <3>1, EndsAligned
  <2> QED
    BY <2>2, <2>3
<1>6. CASE UNCHANGED vars
  <2>1. \A d \in Processes: Wired(d)' /\ Filled(d)'
    BY <1>6 DEF vars, Aligned, Wired, WiredBy, Filled, Linked, Fine, Line
  <2>2. ReadsWholeMessages' /\ UNCHANGED status /\ \A q \in Processes: Line(q)' = Line(q)
    BY <1>6 DEF vars, ReadsWholeMessages, Results, Aligned, Line
  <2> QED
    BY <1>0, <2>1, <2>2, StepAligned
<1> QED
  BY <1>1, <1>2, <1>3, <1>4, <1>5, <1>6 DEF Next, Step, Terminated

\* The byte streams stay aligned, however the connection cuts them and
\* whoever crashes: a read returns the message its process waits for, whole,
\* or nothing because the peer is gone (more_utils.go:95-126).
THEOREM ReadsAligned == WholeReads => (Spec => []ReadsWholeMessages)
<1>1. Init /\ WholeReads => Aligned
  BY InitAligned
<1>2. Aligned /\ [Next]_vars => Aligned'
  BY NextAligned
<1>3. Aligned => ReadsWholeMessages
  BY DEF Aligned
<1> QED
  BY <1>1, <1>2, <1>3, PTL DEF Spec

\* Without a crash no process panics: no write meets a process that has
\* left, no read the end of the connection, and a process that leaves drops
\* nothing that is still to be read (main.go:99, server.go:143-146).
THEOREM NoLonePanic == WholeReads => (Spec => []NobodyPanicsAlone)
<1>1. Aligned => NobodyPanicsAlone
  BY DEF Aligned
<1> QED
  BY <1>1, InitAligned, NextAligned, PTL DEF Spec

-----------------------------------------------------------------------------
\* The client decodes a hint or the response to a real query as it reads it.
Decoded(p, l) ==
  /\ p = "client" /\ Loops(KindAt(l))
  /\ KindAt(l) = "offline" \/ (KindAt(l) = "response" /\ NumberAt(l) \notin blank)

\* A process has recorded what it has read, and not gone on without what it
\* had to decode.
Recorded(p) ==
  \A l \in 1 .. Line(p) - 1: WriterOf(l) = Peer(p) =>
     \E r \in Results(p): r[1] = KindAt(l) /\ r[2] = NumberAt(l) /\ (Decoded(p, l) => r[3] # <<>>)

\* The server writes responses only after it has decoded the requests.
Answers ==
  /\ Line("server") > Answering => AllRequestsRead
  /\ \A k \in 1 .. Len(stream["server"]): stream["server"][k][1] = "response" => Line("server") > Answering

Kept == Shape /\ (\A p \in Processes: Recorded(p)) /\ Answers

\* At the start nobody has results.
LEMMA InitKept == Init => Kept
<1> SUFFICES ASSUME Init PROVE Kept
  OBVIOUS
<1>1. \A p \in Processes: Line(p) = 1 /\ stream[p] = <<>>
  BY Counts DEF Init, Line, LineAt
<1>2. Line("server") = 1 /\ stream["server"] = <<>>
  BY <1>1 DEF Processes
<1>3. Answers
  BY <1>2, Counts DEF Answers
<1>4. \A p \in Processes: Recorded(p)
  BY <1>1 DEF Recorded
<1> QED
  BY <1>3, <1>4, InitShape DEF Kept

\* A process that goes on from a line that it does not read.
LEMMA RecordedOn ==
  ASSUME Shape, NEW p \in Processes, Recorded(p), Results(p)' = Results(p), UNCHANGED blank,
         \/ Line(p)' = Line(p)
         \/ WriterOf(Line(p)) # Peer(p) /\ Line(p)' = After(p, Line(p))
  PROVE  Recorded(p)'
<1>1. Line(p) \in 1 .. End
  BY InLine DEF Shape
<1>2. ASSUME NEW l \in 1 .. Line(p)' - 1, WriterOf(l) = Peer(p)
      PROVE  l \in 1 .. Line(p) - 1
  <2>1. CASE Line(p)' = Line(p)
    BY <1>2, <2>1
  <2>2. CASE WriterOf(Line(p)) # Peer(p) /\ Line(p)' = After(p, Line(p))
    <3>1. CASE Line(p)' = Line(p) + 1
      BY <1>1, <1>2, <2>2, <3>1
    <3>2. CASE Line(p)' = Line(p) + 2 /\ Line(p) + 1 = Answering
      <4>1. WriterOf(Answering) # Peer(p)
        BY Counts, Peers DEF WriterOf, Processes
      <4> QED
        BY <1>1, <1>2, <2>2, <3>2, <4>1
    <3> QED
      BY <2>2, <3>1, <3>2 DEF After
  <2> QED
    BY <2>1, <2>2
<1> QED
  BY <1>2 DEF Recorded, Decoded

\* A process that goes on from a line that it has read.
LEMMA RecordedRead ==
  ASSUME Shape, NEW p \in Processes, Recorded(p), pc[p] <= Len(Script[p]), WriterOf(Line(p)) = Peer(p),
         UNCHANGED blank, NEW bytes, Returns(p, bytes), Decoded(p, Line(p)) => bytes # <<>>
  PROVE  Recorded(p)'
<1>1. Line(p) \in 1 .. End /\ Kind(p) = KindAt(Line(p)) /\ Number(p) = NumberAt(Line(p))
  BY InLine DEF Shape
<1>2. Line(p)' = After(p, Line(p))
  BY Advanced DEF Returns, Shape
<1>3. Results(p)' = Results(p) \cup {<<Kind(p), Number(p), bytes>>}
  BY Recording DEF Shape
<1>4. PICK r: r = <<Kind(p), Number(p), bytes>>
  OBVIOUS
<1>5. r[1] = KindAt(Line(p)) /\ r[2] = NumberAt(Line(p)) /\ (Decoded(p, Line(p)) => r[3] # <<>>)
  BY <1>1, <1>4
<1>6. ASSUME NEW l \in 1 .. Line(p)' - 1, WriterOf(l) = Peer(p)
      PROVE  l \in 1 .. Line(p) - 1 \/ l = Line(p)
  <2>1. WriterOf(Answering) # Peer(p)
    BY Counts, Peers DEF WriterOf, Processes
  <2> QED
    BY <1>1, <1>2, <1>6, <2>1 DEF After
<1>7. ASSUME NEW l \in 1 .. Line(p)' - 1, WriterOf(l) = Peer(p)
      PROVE  \E x \in Results(p)': x[1] = KindAt(l) /\ x[2] = NumberAt(l) /\ (Decoded(p, l) => x[3] # <<>>)
  <2>1. CASE l \in 1 .. Line(p) - 1
    BY <1>3, <1>7, <2>1 DEF Recorded
  <2>2. CASE l = Line(p)
    BY <1>3, <1>4, <1>5, <2>2
  <2> QED
    BY <1>6, <1>7, <2>1, <2>2
<1> QED
  BY <1>7 DEF Recorded, Decoded

\* A step in which the server neither reaches the responses nor, behind
\* them, reads, and writes them only there.
LEMMA AnswersSame ==
  ASSUME Answers, Line("server")' > Answering <=> Line("server") > Answering,
         Line("server") > Answering => results'["server"] = results["server"],
         \A k \in 1 .. Len(stream'["server"]):
            \/ \E j \in 1 .. Len(stream["server"]): stream'["server"][k] = stream["server"][j]
            \/ stream'["server"][k][1] = "response" => Line("server") > Answering
  PROVE  Answers'
<1>1. Line("server")' > Answering => AllRequestsRead'
  BY DEF Answers, AllRequestsRead
<1>2. \A k \in 1 .. Len(stream'["server"]): stream'["server"][k][1] = "response" => Line("server") > Answering
  BY DEF Answers
<1> QED
  BY <1>1, <1>2 DEF Answers

\* What is left of a stream was in it.
LEMMA CutSame ==
  ASSUME NEW s \in Seq(Bytes), NEW m \in 1 .. Len(s) + 1, NEW n \in 0 .. Len(s), m <= n + 1,
         NEW t, t = SubSeq(s, m, n)
  PROVE  \A k \in 1 .. Len(t): \E j \in 1 .. Len(s): t[k] = s[j]
<1>1. Len(t) = n - m + 1 /\ \A i \in 1 .. n - m + 1: t[i] = s[m + i - 1]
  BY Cut
<1>2. \A k \in 1 .. n - m + 1: m + k - 1 \in 1 .. Len(s)
  OBVIOUS
<1> QED
  BY <1>1, <1>2

\* The server's line in a step of process p.
LEMMA ServerLine ==
  ASSUME Shape, NEW p \in Processes, Advance(p) \/ UNCHANGED pc, pc[p] <= Len(Script[p])
  PROVE  /\ Line("server")' = Line("server") \/ (p = "server" /\ Line("server")' = Line("server") + 1)
         /\ \A q \in Processes \ {p}: Line(q)' = Line(q)
         /\ Line(p)' = Line(p) \/ Line(p)' = After(p, Line(p))
<1>1. CASE Advance(p)
  <2>1. Line(p)' = After(p, Line(p)) /\ \A q \in Processes \ {p}: Line(q)' = Line(q)
    BY <1>1, Advanced DEF Shape
  <2> QED
    BY <2>1 DEF After, Processes
<1>2. CASE UNCHANGED pc
  BY <1>2 DEF Line
<1> QED
  BY <1>1, <1>2

\* A write changes no results.
LEMMA WritesKept ==
  ASSUME Kept, Shape', NEW p \in Processes, Write(p) \/ WriteToNobody(p)
  PROVE  Kept'
<1>1. /\ WriterOf(Line(p)) = p /\ Line(p) \in 1 .. End - 1 /\ pc[p] <= Len(Script[p])
      /\ (Advance(p) \/ UNCHANGED pc) /\ UNCHANGED <<results, blank>>
  BY AtWork DEF Kept, Shape, Write, WriteToNobody
<1>2. /\ Line("server")' = Line("server") \/ (p = "server" /\ Line("server")' = Line("server") + 1)
      /\ \A q \in Processes \ {p}: Line(q)' = Line(q)
      /\ Line(p)' = Line(p) \/ Line(p)' = After(p, Line(p))
  BY <1>1, ServerLine DEF Kept
<1>3. ASSUME NEW q \in Processes
      PROVE  Recorded(q)'
  <2>1. Results(q)' = Results(q)
    BY <1>1 DEF Results
  <2>2. p # Peer(p) /\ Recorded(q)
    BY Peers DEF Kept
  <2>3. CASE q = p
    BY <1>1, <1>2, <2>1, <2>2, <2>3, RecordedOn DEF Kept
  <2>4. CASE q # p
    BY <1>1, <1>2, <2>1, <2>2, <2>4, RecordedOn DEF Kept
  <2> QED
    BY <2>3, <2>4
<1>4. Line("server")' > Answering <=> Line("server") > Answering
  <2>1. p = "server" => Line("server") \in Nat /\ (Line("server") < Answering - 1 \/ Line("server") > Answering)
    BY <1>1, Counts DEF WriterOf
  <2> QED
    BY <1>2, <2>1, Counts
<1>5. \A k \in 1 .. Len(stream'["server"]):
         \/ \E j \in 1 .. Len(stream["server"]): stream'["server"][k] = stream["server"][j]
         \/ stream'["server"][k][1] = "response" => Line("server") > Answering
  <2>1. PICK s, t: s = stream["server"] /\ t = stream'["server"]
    OBVIOUS
  <2>2. s \in Seq(Bytes) /\ stream \in [Processes -> Seq(Bytes)]
    BY <2>1 DEF Kept, Shape, Types, Processes
  <2>3. CASE Write(p)
    <3>1. PICK b: b = <<KindAt(Line(p)), NumberAt(Line(p)), sent[p] + 1>>
      OBVIOUS
    <3>2. b \in Bytes /\ stream' = [stream EXCEPT ![p] = Append(stream[p], b)]
      BY <2>3, <3>1, WriteStep DEF Kept
    <3>3. CASE p = "server"
      <4>1. t = Append(s, b)
        BY <2>1, <2>2, <3>2, <3>3
      <4>2. b[1] = "response" => Line("server") > Answering
        BY <1>1, <3>1, <3>3, Counts DEF KindAt
      <4>3. \A k \in 1 .. Len(t): (k \in 1 .. Len(s) /\ t[k] = s[k]) \/ t[k] = b
        BY <2>2, <3>2, <4>1
      <4> QED
        BY <2>1, <4>2, <4>3
    <3>4. CASE p # "server"
      BY <2>1, <2>2, <3>2, <3>4
    <3> QED
      BY <3>3, <3>4
  <2>4. CASE WriteToNobody(p)
    <3>1. PICK kept \in 0 .. Len(stream[Peer(p)]): stream' = [stream EXCEPT ![Peer(p)] = SubSeq(stream[Peer(p)], 1, kept)]
      BY <2>4 DEF WriteToNobody
    <3>2. CASE Peer(p) = "server"
      <4>1. kept \in 0 .. Len(s) /\ t = SubSeq(s, 1, kept)
        BY <2>1, <2>2, <3>1, <3>2, Peers
      <4>2. \A k \in 1 .. Len(t): \E j \in 1 .. Len(s): t[k] = s[j]
        <5>1. 1 \in 1 .. Len(s) + 1 /\ 1 <= kept + 1
          BY <2>2
        <5> QED
          BY <2>2, <4>1, <5>1, CutSame
      <4> QED
        BY <2>1, <4>2
    <3>3. CASE Peer(p) # "server"
      BY <2>1, <2>2, <3>1, <3>3
    <3> QED
      BY <3>2, <3>3
  <2> QED
    BY <2>3, <2>4
<1>6. Answers'
  BY <1>1, <1>4, <1>5, AnswersSame DEF Kept
<1> QED
  BY <1>3, <1>6 DEF Kept

\* A message read becomes the result that its line stands for.
LEMMA ReadsKept ==
  ASSUME Kept, Shape', NEW p \in Processes, Read(p) \/ (ReadEnded(p) /\ GoesOn(p))
  PROVE  Kept'
<1>1. /\ WriterOf(Line(p)) = Peer(p) /\ Line(p) \in 1 .. End - 1 /\ pc[p] <= Len(Script[p])
      /\ Kind(p) = KindAt(Line(p)) /\ Number(p) = NumberAt(Line(p)) /\ UNCHANGED blank
  BY AtWork DEF Kept, Shape, Read, ReadEnded
<1>2. \/ UNCHANGED <<pc, results>>
      \/ \E bytes: Returns(p, bytes) /\ (Decoded(p, Line(p)) => bytes # <<>>)
  <2>1. CASE Read(p)
    <3>1. PICK n \in 1 .. Len(stream[Peer(p)]), bytes \in Seq(Bytes):
            /\ Len(bytes) = Len(got[p]) + n
            /\ (UNCHANGED <<pc, results>>) \/ Returns(p, bytes)
      BY <2>1, ReadStep DEF Kept
    <3>2. Len(got[p]) \in Nat
      BY DEF Kept, Shape, Types
    <3>3. bytes # <<>>
      BY <3>1, <3>2
    <3> QED
      BY <3>1, <3>3
  <2>2. CASE ReadEnded(p) /\ GoesOn(p)
    <3>1. Returns(p, <<>>)
      BY <2>2 DEF ReadEnded
    <3>2. ~Decoded(p, Line(p))
      BY <1>1, <2>2 DEF GoesOn, Decoded
    <3> QED
      BY <3>1, <3>2
  <2> QED
    BY <2>1, <2>2
<1>3. \A q \in Processes: Recorded(q)'
  <2>1. CASE UNCHANGED <<pc, results>>
    <3>1. \A q \in Processes: Line(q)' = Line(q) /\ Results(q)' = Results(q)
      BY <2>1 DEF Line, Results
    <3> QED
      BY <1>1, <3>1, RecordedOn DEF Kept
  <2>2. ASSUME NEW bytes, Returns(p, bytes), Decoded(p, Line(p)) => bytes # <<>>
        PROVE  \A q \in Processes: Recorded(q)'
    <3>1. Recorded(p)'
      BY <1>1, <2>2, RecordedRead DEF Kept
    <3>2. ASSUME NEW q \in Processes \ {p}
          PROVE  Recorded(q)'
      <4>1. Results(q)' = Results(q)
        BY <2>2, Recording DEF Kept, Shape
      <4>2. Line(q)' = Line(q)
        BY <1>1, <2>2, Advanced DEF Returns, Kept, Shape
      <4> QED
        BY <1>1, <4>1, <4>2, RecordedOn DEF Kept
    <3> QED
      BY <3>1, <3>2
  <2> QED
    BY <1>2, <2>1, <2>2
<1>4. Answers'
  <2>1. p = "server" => Line("server") \in Nat /\ Line("server") < Answering
    BY <1>1, Counts DEF WriterOf, Peer
  <2>2. /\ Line("server")' = Line("server") \/ (p = "server" /\ Line("server")' = Line("server") + 1)
        /\ p # "server" => results'["server"] = results["server"]
    <3>1. Advance(p) \/ UNCHANGED pc
      BY <1>2 DEF Returns
    <3>2. p # "server" => results'["server"] = results["server"]
      <4>1. CASE UNCHANGED <<pc, results>>
        BY <4>1
      <4>2. ASSUME NEW bytes, Returns(p, bytes)
            PROVE  p # "server" => results'["server"] = results["server"]
        BY <4>2 DEF Returns, Kept, Shape, Types, Processes
      <4> QED
        BY <1>2, <4>1, <4>2
    <3> QED
      BY <1>1, <3>1, <3>2, ServerLine DEF Kept
  <2>3. Line("server")' > Answering <=> Line("server") > Answering
    BY <2>1, <2>2, Counts
  <2>4. \A k \in 1 .. Len(stream'["server"]): \E j \in 1 .. Len(stream["server"]): stream'["server"][k] = stream["server"][j]
    <3>1. PICK s, t: s = stream["server"] /\ t = stream'["server"]
      OBVIOUS
    <3>2. s \in Seq(Bytes) /\ stream \in [Processes -> Seq(Bytes)]
      BY <3>1 DEF Kept, Shape, Types, Processes
    <3>3. CASE UNCHANGED stream
      BY <3>3
    <3>4. CASE Read(p)
      <4>1. PICK n \in 1 .. Len(stream[Peer(p)]):
              stream' = [stream EXCEPT ![Peer(p)] = SubSeq(stream[Peer(p)], n + 1, Len(stream[Peer(p)]))]
        BY <3>4, ReadStep DEF Kept
      <4>2. CASE Peer(p) = "server"
        <5>1. n \in 1 .. Len(s) /\ t = SubSeq(s, n + 1, Len(s))
          BY <3>1, <3>2, <4>1, <4>2, Peers
        <5>2. n + 1 \in 1 .. Len(s) + 1 /\ Len(s) \in 0 .. Len(s) /\ n + 1 <= Len(s) + 1
          BY <3>2, <5>1
        <5>3. \A k \in 1 .. Len(t): \E j \in 1 .. Len(s): t[k] = s[j]
          BY <3>2, <5>1, <5>2, CutSame
        <5> QED
          BY <3>1, <5>3
      <4>3. CASE Peer(p) # "server"
        BY <3>1, <3>2, <4>1, <4>3
      <4> QED
        BY <4>2, <4>3
    <3> QED
      BY <3>3, <3>4 DEF ReadEnded
  <2>5. Line("server") > Answering => results'["server"] = results["server"]
    BY <2>1, <2>2, Counts
  <2> QED
    BY <2>3, <2>4, <2>5, AnswersSame DEF Kept
<1> QED
  BY <1>3, <1>4 DEF Kept

\* A process that ends takes no further results.
LEMMA EndsKept ==
  ASSUME Kept, NEW p \in Processes, NEW how \in {"done", "panic", "crashed"}, Ends(p, how)
  PROVE  Kept'
<1>1. Shape'
  BY EndsShape DEF Kept
<1>2. PICK kept \in 0 .. Len(stream[p]): stream' = [stream EXCEPT ![p] = SubSeq(stream[p], 1, kept)]
  BY DEF Ends
<1>3. UNCHANGED <<results, blank>> /\ \A q \in Processes: Line(q)' = Line(q) /\ Results(q)' = Results(q)
  BY DEF Ends, Line, Results
<1>4. \A q \in Processes: Recorded(q)'
  BY <1>3, RecordedOn DEF Kept
<1>5. \A k \in 1 .. Len(stream'["server"]): \E j \in 1 .. Len(stream["server"]): stream'["server"][k] = stream["server"][j]
  <2>1. PICK s, t: s = stream["server"] /\ t = stream'["server"]
    OBVIOUS
  <2>2. s \in Seq(Bytes) /\ stream \in [Processes -> Seq(Bytes)]
    BY <2>1 DEF Kept, Shape, Types, Processes
  <2>3. CASE p = "server"
    <3>1. kept \in 0 .. Len(s) /\ t = SubSeq(s, 1, kept)
      BY <1>2, <2>1, <2>2, <2>3
    <3>2. 1 \in 1 .. Len(s) + 1 /\ 1 <= kept + 1
      BY <2>2
    <3> QED
      BY <2>1, <2>2, <3>1, <3>2, CutSame
  <2>4. CASE p # "server"
    BY <1>2, <2>1, <2>2, <2>4
  <2> QED
    BY <2>3, <2>4
<1>6. Answers'
  BY <1>3, <1>5, AnswersSame DEF Kept, Processes
<1> QED
  BY <1>1, <1>4, <1>6 DEF Kept

\* Every step keeps what is known of the results.
LEMMA NextKept == Kept /\ [Next]_vars => Kept'
<1> SUFFICES ASSUME Kept, [Next]_vars PROVE Kept'
  OBVIOUS
<1>0. Shape'
  BY NextShape DEF Kept
<1>1. ASSUME NEW p \in Processes, WriteFails(p) \/ Finish(p) \/ Crash(p) \/ (ReadEnded(p) /\ ~GoesOn(p))
      PROVE  Kept'
  BY <1>1, EndsKept DEF WriteFails, Finish, Crash, ReadEnded
<1>2. ASSUME NEW p \in Processes, Write(p) \/ WriteToNobody(p) \/ Read(p) \/ (ReadEnded(p) /\ GoesOn(p))
      PROVE  Kept'
  BY <1>0, <1>2, WritesKept, ReadsKept
<1>3. CASE Answer /\ AllRequestsRead
  <2>1. "server" \in Processes /\ pc["server"] <= Len(Script["server"]) /\ Line("server") = Answering
    BY <1>3, AtWork DEF Answer, Processes, Kept, Shape
  <2>2. Advance("server") /\ UNCHANGED <<stream, results, blank>>
    BY <1>3 DEF Answer
  <2>3. Line("server")' = After("server", Answering) /\ \A q \in Processes \ {"server"}: Line(q)' = Line(q)
    BY <2>1, <2>2, Advanced DEF Kept, Shape
  <2>4. Answers'
    <3>1. Line("server")' > Answering
      BY <2>3, Counts DEF After
    <3> QED
      BY <1>3, <2>2, <3>1 DEF Answers, AllRequestsRead
  <2>5. ASSUME NEW q \in Processes
        PROVE  Recorded(q)'
    <3>1. Results(q)' = Results(q) /\ Recorded(q)
      BY <2>2 DEF Results, Kept
    <3>2. WriterOf(Answering) # Peer(q)
      BY Counts, Peers DEF WriterOf, Processes
    <3>3. Line(q)' = Line(q) \/ (WriterOf(Line(q)) # Peer(q) /\ Line(q)' = After(q, Line(q)))
      BY <2>1, <2>3, <3>2
    <3> QED
      BY <2>2, <3>1, <3>3, RecordedOn DEF Kept
  <2> QED
    BY <1>0, <2>4, <2>5 DEF Kept
<1>4. CASE Answer /\ ~AllRequestsRead
  BY <1>4, EndsKept DEF Answer, Processes
<1>5. CASE UNCHANGED vars
  <2>1. UNCHANGED <<stream, results, blank>> /\ \A q \in Processes: Line(q)' = Line(q) /\ Results(q)' = Results(q)
    BY <1>5 DEF vars, Line, Results
  <2>2. \A q \in Processes: Recorded(q)'
    BY <2>1, RecordedOn DEF Kept
  <2>3. Answers'
    BY <2>1 DEF Answers, AllRequestsRead, Kept, Processes
  <2> QED
    BY <1>0, <2>2, <2>3 DEF Kept
<1> QED
  BY <1>1, <1>2, <1>3, <1>4, <1>5 DEF Next, Step, Terminated

\* A process's record of a whole message.
LEMMA WholeRecord ==
  ASSUME Aligned, NEW p \in Processes, NEW r \in Results(p), r[3] # <<>>
  PROVE  <<r[1], r[2], Whole(r[1], r[2])>> \in Results(p)
<1>1. PICK k \in 1 .. Len(results[p]): r = results[p][k]
  BY DEF Results
<1>2. results[p] \in Seq(Messages)
  BY DEF Aligned, Shape, Types
<1>3. r \in Messages
  BY <1>1, <1>2
<1>4. r = <<r[1], r[2], r[3]>>
  BY <1>3 DEF Messages
<1>5. r[3] = Whole(r[1], r[2])
  BY DEF Aligned, ReadsWholeMessages
<1> QED
  BY <1>4, <1>5

\* A client that reports a count has every hint, and the response to every
\* query that is not blank, whole: a server that dies never makes it report a
\* smaller intersection (client.go:68-80, more_utils.go:116).
THEOREM CountsComplete ==
  WholeReads /\ Loops("offline") /\ Loops("response") => (Spec => []CountsOnlyAnswers)
<1> DEFINE Sizes == WholeReads /\ Loops("offline") /\ Loops("response")
           Inv == Aligned /\ Kept /\ Loops("offline") /\ Loops("response")
<1>1. Init /\ Sizes => Inv
  BY InitAligned, InitKept
<1>2. Inv /\ [Next]_vars => Inv'
  BY NextAligned, NextKept DEF Loops, Size
<1>3. Inv => CountsOnlyAnswers
  <2> SUFFICES ASSUME Inv, status["client"] = "done"
               PROVE  /\ \A b \in 0 .. CuckooSize - 1: <<"offline", b, Whole("offline", b)>> \in Results("client")
                      /\ \A i \in Requests \ blank: <<"response", i, Whole("response", i)>> \in Results("client")
    BY DEF CountsOnlyAnswers
  <2>1. "client" \in Processes /\ Peer("client") = "server" /\ Line("client") = End /\ Recorded("client")
    BY DEF Processes, Peer, Aligned, Settled, Kept
  <2>2. ASSUME NEW b \in 0 .. CuckooSize - 1
        PROVE  <<"offline", b, Whole("offline", b)>> \in Results("client")
    <3> DEFINE l == 2 * b + 3
    <3>1. l \in 1 .. End - 1 /\ WriterOf(l) = "server" /\ KindAt(l) = "offline" /\ NumberAt(l) = b
      BY Counts DEF Greeting, WriterOf, KindAt, NumberAt
    <3>2. Decoded("client", l)
      BY <3>1 DEF Decoded
    <3> HIDE DEF l
    <3>3. PICK r \in Results("client"): r[1] = "offline" /\ r[2] = b /\ r[3] # <<>>
      BY <2>1, <3>1, <3>2 DEF Recorded
    <3> QED
      BY <2>1, <3>3, WholeRecord
  <2>3. ASSUME NEW i \in Requests \ blank
        PROVE  <<"response", i, Whole("response", i)>> \in Results("client")
    <3> DEFINE l == Answering + 1 + i
    <3>1. l \in 1 .. End - 1 /\ WriterOf(l) = "server" /\ KindAt(l) = "response" /\ NumberAt(l) = i
      BY Counts DEF Requests, End, WriterOf, KindAt, NumberAt
    <3>2. Decoded("client", l)
      BY <3>1 DEF Decoded
    <3> HIDE DEF l
    <3>3. PICK r \in Results("client"): r[1] = "response" /\ r[2] = i /\ r[3] # <<>>
      BY <2>1, <3>1, <3>2 DEF Recorded
    <3> QED
      BY <2>1, <3>3, WholeRecord
  <2> QED
    BY <2>2, <2>3
<1> HIDE DEF Inv
<1> QED
  BY <1>1, <1>2, <1>3, PTL DEF Spec

\* A response leaves the server only after it has read all requests, whole
\* (server.go:110-122).
THEOREM AnswersComplete ==
  WholeReads /\ Loops("request") => (Spec => []AnswersWholeRequests)
<1> DEFINE Sizes == WholeReads /\ Loops("request")
           Inv == Aligned /\ Kept /\ Loops("request")
<1>1. Init /\ Sizes => Inv
  BY InitAligned, InitKept
<1>2. Inv /\ [Next]_vars => Inv'
  BY NextAligned, NextKept DEF Loops, Size
<1>3. Inv => AnswersWholeRequests
  <2> SUFFICES ASSUME Inv, NEW k \in 1 .. Len(stream["server"]), stream["server"][k][1] = "response",
                      NEW i \in Requests
               PROVE  <<"request", i, Whole("request", i)>> \in Results("server")
    BY DEF AnswersWholeRequests
  <2>1. "server" \in Processes /\ Peer("server") = "client" /\ Recorded("server")
        /\ Line("server") > Answering /\ AllRequestsRead
    BY DEF Processes, Peer, Kept, Answers
  <2> DEFINE l == Greeting + 1 + i
  <2>2. l \in 1 .. Line("server") - 1 /\ WriterOf(l) = "client" /\ KindAt(l) = "request" /\ NumberAt(l) = i
    <3>1. Line("server") \in 1 .. End
      BY <2>1, InLine DEF Kept, Shape
    <3> QED
      BY <2>1, <3>1, Counts DEF Requests, Answering, WriterOf, KindAt, NumberAt
  <2> HIDE DEF l
  <2>3. PICK r \in Results("server"): r[1] = "request" /\ r[2] = i
    BY <2>1, <2>2 DEF Recorded
  <2>4. r[3] # <<>>
    BY <2>1, <2>3 DEF AllRequestsRead, Results
  <2> QED
    BY <2>1, <2>3, <2>4, WholeRecord
<1> HIDE DEF Inv
<1> QED
  BY <1>1, <1>2, <1>3, PTL DEF Spec
=============================================================================
