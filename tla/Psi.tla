-------------------------------- MODULE Psi --------------------------------
(***************************************************************************)
(* The whole protocol, from the two datasets to the count the client       *)
(* reports: the oblivious PRF, the server's tables (CuckooTable), the      *)
(* client's vector (CuckooVector), the files they are handed on in, the    *)
(* PIR database and the client's queries to it (src/go).                   *)
(*                                                                         *)
(* A point of the group is named by the element it was hashed from and the *)
(* keys it is encrypted under, in either order; its hash by the same: but  *)
(* for a collision of 80-bit hashes different points have different ones.  *)
(* What PIR recovers is taken to be the column that was asked for.         *)
(***************************************************************************)
EXTENDS Integers, Sequences, FiniteSets

CONSTANTS Element,     \* what the datasets hold
          NClient,     \* size of the client's dataset
          NServer,     \* size of the server's
          NBins, NHashes, NBuckets, MaxInsert,
          BucketsPerCol

ASSUME PsiAssumption ==
         /\ {NClient, NServer, MaxInsert} \subseteq Nat
         /\ {NBins, NHashes, NBuckets, BucketsPerCol} \subseteq Nat \ {0}
         /\ IsFiniteSet(Element)

Bins == 0 .. NBins - 1

VARIABLES clientOf,   \* the client's dataset: item -> element
          serverOf,   \* the server's: entry -> element
          hashes,     \* cuckoo_hash: element -> hash number -> bin
          bucket,     \* Hashtable::hash: element -> bucket
          rows, width, inserted, padded,                  \* of CuckooTable
          slots, next, hand, attemps, queried, filling,   \* of CuckooVector
          encrypted,  \* Client::encrypted: item -> point
          toServer, toClient,   \* messages on the channel of the OPRF
          serverStage,          \* "offline", "online" or "written"
          results,    \* item -> OPRF result
          stage,      \* "offline", "ready", "oprf", "vector", "pir", "done" or "failed"
          answered,   \* responses the client has processed
          found       \* RunClient's found

inputs     == <<clientOf, serverOf, hashes, bucket>>
tableVars  == <<rows, width, inserted, padded>>
vectorVars == <<slots, next, hand, attemps, queried, filling>>
oprfVars   == <<encrypted, toServer, toClient, serverStage, results>>
countVars  == <<answered, found>>
vars == <<inputs, tableVars, vectorVars, oprfVars, stage, countVars>>

Server == INSTANCE CuckooTable
            WITH NEntries <- NServer,
                 binOf <- [e \in 1 .. NServer |-> hashes[serverOf[e]]],
                 bucketOf <- [e \in 1 .. NServer |-> bucket[serverOf[e]]]

Client == INSTANCE CuckooVector
            WITH NItems <- NClient, table <- slots, phase <- filling,
                 hashOf <- [i \in 1 .. NClient |-> hashes[results[i].of]]

\* Elements are drawn at random, and nothing removes those drawn twice.
Datasets(n) == [1 .. n -> Element]

\* The byte that says that the server is ready.
Ready == <<>>

Point(e) == [of |-> e, under |-> {}]
Encrypted(p, key) == [p EXCEPT !.under = @ \cup {key}]

\* Mutant: the client hashes the points as they come.
StillBlinded(p) == p

\* Multiplied by the inverse of the client's key.
Unblinded(p) == [p EXCEPT !.under = @ \ {"client"}]

\* What Server::encrypt makes of its entry e.
ServerResult(e) == Encrypted(Point(serverOf[e]), "server")

Init ==
  /\ clientOf \in Datasets(NClient) /\ serverOf \in Datasets(NServer)
  /\ hashes \in [Element -> [0 .. NHashes - 1 -> Bins]]
  /\ bucket \in [Element -> 0 .. NBuckets - 1]
  /\ rows = [b \in Bins |-> [k \in 0 .. NBuckets - 1 |-> <<>>]]
  /\ width = [b \in Bins |-> 0]
  /\ inserted = 0 /\ padded = 0
  /\ slots = [b \in Bins |-> Client!Empty]
  /\ queried = [b \in Bins |-> Client!Empty]
  /\ attemps = 0
  /\ IF NClient = 0 THEN next = 0 /\ hand = Client!Empty /\ filling = "split"
                    ELSE next = 1 /\ hand = 1 /\ filling = "insert"
  /\ encrypted = <<>> /\ results = <<>>
  /\ toServer = <<>> /\ toClient = <<>>
  /\ serverStage = "offline" /\ stage = "offline" /\ answered = 0 /\ found = 0

\* Server::offline, after which the client is told.
FillTables ==
  /\ serverStage = "offline"
  /\ UNCHANGED inputs
  /\ Server!Insert \/ Server!PadBin
  /\ IF Server!Finished' THEN serverStage' = "online" /\ toClient' = Append(toClient, Ready)
                         ELSE UNCHANGED <<serverStage, toClient>>
  /\ UNCHANGED vectorVars /\ UNCHANGED <<encrypted, toServer, results, stage, countVars>>

\* Client::offline.
EncryptDataset ==
  /\ stage = "offline" /\ stage' = "ready"
  /\ encrypted' = [i \in 1 .. NClient |-> Encrypted(Point(clientOf[i]), "client")]
  /\ UNCHANGED <<inputs, tableVars, vectorVars, toServer, toClient, serverStage, results, countVars>>

\* The client has waited for the ready byte and sends its request.
Request ==
  /\ stage = "ready" /\ toClient # <<>>
  /\ toClient' = Tail(toClient) /\ toServer' = Append(toServer, encrypted)
  /\ stage' = "oprf"
  /\ UNCHANGED <<inputs, tableVars, vectorVars, encrypted, serverStage, results, countVars>>

\* Server::online: each point is encrypted in its place; then the tables are
\* written to their files.
Respond ==
  /\ serverStage = "online" /\ toServer # <<>>
  /\ toServer' = Tail(toServer)
  /\ toClient' = Append(toClient, [i \in DOMAIN Head(toServer) |-> Encrypted(Head(toServer)[i], "server")])
  /\ serverStage' = "written"
  /\ UNCHANGED <<inputs, tableVars, vectorVars, encrypted, results, stage, countVars>>

\* Client::online goes on with the response, whose i-th point is its i-th item.
Decrypt ==
  /\ stage = "oprf" /\ toClient # <<>>
  /\ toClient' = Tail(toClient)
  /\ results' = [i \in DOMAIN Head(toClient) |-> Unblinded(Head(toClient)[i])]
  /\ stage' = "vector"
  /\ UNCHANGED <<inputs, tableVars, vectorVars, encrypted, toServer, serverStage, countVars>>

\* The end of Client::online: without cuckoo hashing the results and queries
\* are handed on as they are; else the vector is filled and split.  Its
\* exception ends the run.
FillVector ==
  /\ stage = "vector" /\ NBins > 1
  /\ UNCHANGED inputs /\ UNCHANGED oprfVars
  /\ \/ \E h \in 0 .. NHashes - 1: Client!Place(h) \/ Client!Evict(h)
     \/ Client!Throw
     \/ Client!Split
  /\ stage' = IF filling' = "thrown" THEN "failed" ELSE IF filling' = "done" THEN "pir" ELSE stage
  /\ UNCHANGED tableVars /\ UNCHANGED countVars

SkipVector ==
  /\ stage = "vector" /\ NBins = 1
  /\ stage' = "pir"
  /\ UNCHANGED <<inputs, oprfVars, tableVars, vectorVars, countVars>>

-----------------------------------------------------------------------------
\* Query i goes to one bin: the only one, or the i-th.
NQueries == IF NBins = 1 THEN NClient ELSE NBins
BinAsked(i)  == IF NBins = 1 THEN 0 ELSE i
ItemAsked(i) == IF NBins = 1 THEN i + 1 ELSE queried[i]

\* The hashtable of bin b as its file has it, and as CreateDatabase stacks it
\* into columns of Height entries.
FileEntry(b, n) == rows[b][n \div width[b]][(n % width[b]) + 1]
Height(b) == BucketsPerCol * width[b]
NColumns(b) == (NBuckets * width[b]) \div Height(b)

\* Mutant: the remainder is taken for the quotient.
PlaceInColumn(k) == k % BucketsPerCol

\* ComputeQuery: the column that holds bucket k.
Translated(k) == k \div BucketsPerCol

Column(b, c) == [r \in 1 .. Height(b) |-> FileEntry(b, c * Height(b) + r - 1)]

\* What query i recovers.
Recovered(i) == Column(BinAsked(i), Translated(bucket[results[ItemAsked(i)].of]))

\* ReadResponse: the entries that are not padding and equal the OPRF result.
Matches(i) ==
  {r \in DOMAIN Recovered(i):
     /\ Recovered(i)[r] # Server!Pad
     /\ ServerResult(Recovered(i)[r]) = results[ItemAsked(i)]}

\* SkipRecover.
Blank(i) == NBins > 1 /\ ItemAsked(i) = Client!Empty

\* Mutant: the columns must hold more than all buckets.
DimsRoomy(b) == width[b] > 0 /\ NColumns(b) * Height(b) > NBuckets * width[b]

\* GetDatabaseDims divides by the height and panics unless the columns hold
\* all buckets; neither side gets any further.
DimsFit(b) == width[b] > 0 /\ NColumns(b) * Height(b) >= NBuckets * width[b]

SetupPanics ==
  /\ stage = "pir" /\ answered = 0
  /\ \E b \in Bins: ~DimsFit(b)
  /\ stage' = "failed"
  /\ UNCHANGED <<inputs, oprfVars, tableVars, vectorVars, countVars>>

ReadResponse ==
  /\ stage = "pir" /\ \A b \in Bins: DimsFit(b)
  /\ answered < NQueries
  /\ found' = IF Blank(answered) THEN found ELSE found + Cardinality(Matches(answered))
  /\ answered' = answered + 1
  /\ UNCHANGED <<inputs, oprfVars, tableVars, vectorVars, stage>>

ReportFound ==
  /\ stage = "pir" /\ \A b \in Bins: DimsFit(b)
  /\ answered = NQueries
  /\ stage' = "done"
  /\ UNCHANGED <<inputs, oprfVars, tableVars, vectorVars, countVars>>

Terminated == stage \in {"done", "failed"} /\ UNCHANGED vars

Next == \/ FillTables \/ EncryptDataset \/ Request \/ Respond \/ Decrypt
        \/ FillVector \/ SkipVector \/ SetupPanics \/ ReadResponse \/ ReportFound \/ Terminated

\* Each process runs on, and up to the vector they wait for each other.
Spec == Init /\ [][Next]_vars /\ WF_vars(Next)

-----------------------------------------------------------------------------
NoDuplicates == /\ \A i, j \in 1 .. NClient: clientOf[i] = clientOf[j] => i = j
                /\ \A d, e \in 1 .. NServer: serverOf[d] = serverOf[e] => d = e

\* The items the client has asked about in its first n queries.
AskedAbout(n) == {ItemAsked(i): i \in {j \in 0 .. n - 1: ~Blank(j)}}

\* After every response the count is the number of the server's entries that
\* equal an item asked for, item by item, and without duplicates therefore
\* that of the shared elements: whatever the evictions did and however the
\* buckets fill, the bin, the bucket and the column that are asked for are
\* those the server has put the element in, once, under the one key that is
\* left (client.cc:55-71, client.go:68-74, 149-158, 176-211).
CountsShared ==
  /\ found = Cardinality({m \in AskedAbout(answered) \X (1 .. NServer): clientOf[m[1]] = serverOf[m[2]]})
  /\ NoDuplicates => found = Cardinality({clientOf[i]: i \in AskedAbout(answered)}
                                            \cap {serverOf[e]: e \in 1 .. NServer})

\* A run fails only for a reason known before the first query: a vector that
\* cannot be filled, a bin without entries, or columns that do not divide the
\* hashtable (cuckoo.cc:62-64, database.go:230-234).
FailsForAReason ==
  stage = "failed" =>
     \/ filling = "thrown"
     \/ NBuckets % BucketsPerCol # 0
     \/ \E b \in Bins: \A e \in 1 .. NServer: b \notin Server!Candidates(e)

Ideal == INSTANCE Intersection
           WITH client <- clientOf, server <- serverOf,
                outcome <- IF stage = "done" THEN <<"count", found>>
                           ELSE IF stage = "failed" THEN <<"failed">> ELSE <<>>

\* The protocol implements the ideal intersection: it ends, and it reports
\* how much the datasets share or fails (README.md, main.go:78-88).
ComputesIntersection == Ideal!Spec
=============================================================================
