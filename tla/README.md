# Unbalanced PSI: specifications

TLA+ modules, TLC configurations and TLAPS proofs for this repository: private
set intersection between a client with a small dataset and a server with a
large one, built from an oblivious PRF (C++, `src/src/`) and single-server PIR
(Go, `src/go/`), and driven by `src/benchmark.py`.

    tlc -config MC_Psi.cfg MC_Psi         # model-check one module
    tlapm CuckooVectorProofs.tla          # check one module's proofs

`PROJECT.json` lists components, runs, hazards and theorems, and for every
definition the lines it models.

## 1. The system

A trial is five processes: a generator of datasets, then two pairs of parties,
one pair after the other. What one leaves to the next lies in files under `out/`.

    datagen --> server.db, client.db
    oprf --server <-- coproto socket --> oprf --client
        |  server.edb                        |  client.edb, queries.db
    pir --server  -- TCP, the server dials --> pir --client --> SUCCESS | FAILURE

| component (source) | state | operations | interacts with |
|---|---|---|---|
| client cuckoo vector (`cuckoo.cc` CuckooVector, `client.cc`) | `table` of optional items; the item in hand and `attemps` of a call | `insert` with its eviction walk, exception after `MAX_INSERT`, `split` | filled by `Client::online`; `split` becomes `queries.db`, `client.edb` |
| server encryption (`server.cc` offline) | dataset, futures, `encrypted` | batches to `std::async` threads, `get` in order, concatenation | hands its output to the table |
| server cuckoo table (`cuckoo.cc` CuckooTable, `hashtable.cc`) | a hashtable per bin; rows per bucket, `width` | `insert`, `pad`, `to_file` | `server.edb`, read by the PIR server |
| OPRF exchange (`oprf.cc`, `client.cc`, `server.cc`, apsi) | both keys, `encrypted` | hash to the curve, encrypt; ready byte, request, response; decrypt | its results are placed by vector and table |
| PIR server (`server.go`) | a `ServerState` per bin; global `bufPrgReader`, mutex, WaitGroup, a channel per request | `CreateServerState`, `CreateAnswer`, serial or in goroutines | the vendored scheme; the connection |
| PIR connection (`client.go`, `server.go`, `more_utils.go`) | two byte streams, each side's place in its script | `ReadOverNetwork`, `WriteOverNetwork`, ready bytes | both processes |
| PIR client (`client.go`) | a `ClientState` per bin, `SkipRecover`, `found` | `CreateClientState`, `ComputeQuery`, `ReadResponse` | `queries.db`, `client.edb` |
| SimplePIR (`protocol.go`, `params.go`, `database.go`, `simple_pir.go`, `matrix.go`, `pir.c`) | parameters, database, hint, secret | `GetParams`, `CreateDatabase`, `Setup`, `Query`, `Answer`, `RecoverColumn` | called by both processes |
| modulus switching (`more_utils.go`) | packing buffer | `ModuloSwitch`, `ModuloSwitchLength`, `ModuloSwitchBack` | every hint and answer |
| experiment driver (`benchmark.py`, `datagen.cc`, `main.go`, `oprf.cc`) | `out/`, the five processes, their output, the log | empty, start, wait for, parse; parse a log again | all processes |

What is hard in it, and what makes each part correct (every hazard is in
`PROJECT.json` with its line and the properties that cover it):

* **Agreement on places.** OPRF responses carry no names, only positions. An element is placed on two sides by different code:
  the server puts it into *every* bin of its hashes, the client in *one* of
  them, after any number of evictions; the client asks for a bucket, which turns
  into a column of a database the server stacked from rows it padded. A wrong
  bin, an entry lost in `resize`, an entry put twice into a bucket, or a wrong
  stride is a wrong count, with no error anywhere. *Correct:* the count is the
  size of the intersection, or the run fails.
* **Parallelism.** Encryption threads share a dataset by index arithmetic;
  goroutines that build the bins share the *global* generator of the library;
  those that multiply share the hint, and those that answer the database, which
  has changed its form in between. *Correct:* every element is encrypted once
  and in order; every matrix is the expansion of its own seed; hint and answers
  are the products they should be; no goroutine is left behind.
* **Byte streams.** TCP cuts messages anywhere, buffers are finite, nobody sets
  a deadline, errors of short reads are ignored, and the peer may die.
  *Correct:* whole messages or none; a count only from whole answers; both end.
* **Arithmetic at the edges.** 32-bit wrap-around, a 33-bit sum that is rounded,
  odd moduli, squished columns, packing without gaps with random rounding.
  *Correct:* the client recovers the column it asked for, and panics only for
  reasons that can be named.
* **Processes and files.** A process may fail between two files, or leave an
  old one; the driver sees almost no failure. *Correct:* SUCCESS is about the
  files of this trial; statistics read from a log are those of the live run; an
  experiment ends.

Divergences between code and text are in section 6.

## 2. Modules

| module | models | composed with |
|---|---|---|
| `ItemStore` | *abstract:* what a caller of `insert` may rely on | implemented by `CuckooVector` |
| `CuckooVector` | CuckooVector and the fill loop of `Client::online` | instance `Client` in `Psi` |
| `ServerEncrypt` | the threads of `Server::offline` | |
| `CuckooTable` | CuckooTable and Hashtable: insert, pad | instance `Server` in `Psi` |
| `Intersection` | *abstract:* what the two parties promise together | implemented by `Psi` |
| `Psi` | OPRF exchange, table, vector, files, databases, queries, counting | |
| `MC_Psi` | both ways to run it, with cuckoo hashing and without | two instances of `Psi` |
| `PirServer` | goroutines, mutex, generator and channels of `RunServer` | |
| `PirSession` | the conversation of the two PIR processes | |
| `SimplePir`, `MC_SimplePir` | one bin's parameters, hint, query, answer, recovery | |
| `PirKernels` | how the server computes hint and answers: goroutines, blocks, the change of the database | its products are the sums of `SimplePir` |
| `ModuloSwitch` | packing and unpacking | rounding is restated in `SimplePir` |
| `Sums` | sums and powers, as recursive functions | used by `SimplePir` and `ModuloSwitch` |
| `Trial` | the driver, five processes, `out/`, the log | |
| `CuckooVectorProofs`, `CuckooTableProofs`, `PirServerProofs`, `PirSessionProofs`, `TrialProofs` | theorems about the module they are named for | each extends its module |
| `ParallelProofs` | theorems about the two parallel loops, of the threads that encrypt and the goroutines that multiply | extends `ServerEncrypt` and `PirKernels` |
| `ArithmeticProofs` | theorems about the two computations on words, and about sums, powers and bits | extends `SimplePir` and `ModuloSwitch` |
| `PsiProofs` | theorems about `Psi` | instances of `CuckooTableProofs` and `CuckooVectorProofs`, with the substitutions `Psi` makes |

Correspondence of state and actions to the code, where the names do not say it:

* **CuckooVector.** An item is the (result, query) tuple of one client element,
  named by its place in the dataset; two elements with equal results are two
  items with equal hashes. `cuckoo_hash` is any function (`hashOf`), chosen in
  `Init`. `Place` is the first free hash of the inner loop, `Evict` the swap
  with a random one (`attemps` is tested before it is incremented, hence
  `MaxInsert + 1` swaps), `Throw` the exception, `Split` what becomes the files.
* **ServerEncrypt.** `EncryptAlone` is the path of one thread; `Launch` the loop
  of `std::async`, `Encrypt(i)` one element in thread `i`, `Join` a `get()`.
  What a thread writes is named by the place it read. `EncryptionSpec` starts where
  the batches fit (`BatchesFit`), `SpecAnySizes` anywhere.
* **CuckooTable.** `rows[b][k]` is bucket `k` of bin `b`, newest entry first.
  An entry is named by its place in the server's dataset; zero is padding.
* **Psi.** A point of the group is a record of the element it was hashed from
  and the keys it is encrypted under; `EncryptDataset`, `Request`, `Respond` and
  `Decrypt` are the messages of `Client` and `Server` and what is computed
  between them. Results are paired with items by position, as in the code.
  `FillTables` and `FillVector` run the two component modules and conjoin their
  actions; `SkipVector` is the run without cuckoo hashing. `FileEntry`, `Column`
  and `Translated` are the file layout of `Hashtable::to_file`, the stacking of
  `CreateDatabase` and the division of `ComputeQuery`. Datasets are functions
  from places to elements, so an element may be in one twice, as `datagen` draws
  them; hashes of different points are taken to differ.
* **PirServer.** `builder[b]` is where the `CreateServerState` of bin `b` is:
  waiting for the mutex, holding it, having redirected the global generator,
  reading from it, multiplying. A seed is the name of the bin that drew it, and a matrix is
  the sequence of (seed, position) pairs it was read from, so a read from a
  foreign or advanced stream shows.
* **PirSession.** Each process has a script of reads and writes, generated from
  the loops of `RunClient` and `RunServer`. A byte is named by its message and
  its place there. `Write` puts any number of bytes that fit, `Read` takes any
  number that are there; a read of a small message takes *one* `Read` call.
  `Crash` ends a process; its kernel may lose a suffix of what it had sent.
* **SimplePir.** All arithmetic modulo `2^Logq` with the wrap-arounds of the
  code; -1 of a secret and a negative error are the large words they become.
  Seeds, secrets, errors and roundings are chosen in the actions. A panic of
  either process, at the check that raises it, is the phase "panic".
* **PirKernels.** A number is named by how it came about: an element of the
  hint is the sequence of products added into it, and a product by the places
  of its two factors and the form the database was in. `+=` in the shared hint
  is two steps, `Load` and `Store`. `Lanes` is the eight of `matMulVecPacked`.
* **ModuloSwitch.** `floating`, `floatingBits` and `outputIndex` are the
  variables of the function; each element is rounded up or down by choice.
  Shifts are products and quotients, and `Or` is the number whose bits are those of either side,
  so that they can be reasoned about. An element is assumed to have more than two
  bytes (`MOD_SWITCH_BITS` is 19): of shorter ones the length could fall short.
* **Trial.** A process is a script of steps, of which "create" opens the file that
  the next step is named for, and that one closes it; a file is named by the trial that
  wrote it, the number of entries on disk, and whether a write of it failed (`Close`;
  no process sees that). `HearEnd` is a peer that is gone: the PIR client panics, or
  decodes zeros for an answer that is missing. A fault is a kill or a failing write. What a party says is one message
  per phase here (the OPRF exchange is Psi's, the connection PirSession's). A
  step "print" stands for the lines with a process's metrics; `output` is which
  processes have printed theirs, and the verdict. `results` is what the live run
  collects, `FromLogs` what `--from-logs` makes of `log`.

## 3. Runs

All values are small, and chosen so that the case the property is about
happens; the second column says where it does.

| run | bounds, and why they are enough | shows |
|---|---|---|
| `cuckoo_vector` | 4 items, 4 bins, 2 hashes, `MaxInsert` 3: all hash functions, so chains that pass through three bins, return to one, and cycles that end in the exception | nothing lost, doubled or misplaced; crowded hashes throw; loop ends; implements `ItemStore` |
| `server_encrypt` | sizes to 8, 1-4 threads: even batches, a shorter and an empty last one | no read outside, output in order |
| `server_encrypt_uneven` | the same, without `BatchesFit` | **violation** (section 6) |
| `cuckoo_table` | 3 entries, 3 bins, 2 hashes, 2 buckets: hashes of an entry that agree, buckets of unequal length, empty bins | once per bin, and nothing lost to `resize`; rectangular |
| `pir_server` | 3 bins, 1-2 threads, 2 reads per matrix: two builders in one phase while a third is unstarted; answers in any order | own seed only; announced when built; responses in order; all goroutines and the server end |
| `pir_session` | 2 bins, messages of 3 bytes, chunks of 2, 2 bytes of buffer: every message is larger than the buffer; one crash of either process at any point | aligned reads; counts only from whole answers; answers after all requests; no panic without a crash; both end |
| `pir_session_small` | a response of 2 bytes, below the chunk of 3 | **violation** (section 6) |
| `psi` | 2 + 2 of 3 elements, duplicates among them; with 2 bins, 2 hashes, 2 buckets, `MaxInsert` 1, and with 1 bin, 4 buckets, 2 to a column: every overlap, shared buckets and columns, evictions, failed fills, empty bins | implements `Intersection`; exact count after every response, duplicates counted per pair; failures have known reasons |
| `modulo_switch` | 8-bit words, 5-bit elements, up to 5 elements from 0, two middle values and the largest: an element at every bit offset of a byte, over word ends, and carries | stays inside the computed length; comes back rounded; noise |
| `simple_pir` | 10-bit words, 3 squished to an element, 8 geometries of up to 6 columns, an automatic, an even and an out-of-range modulus, all secrets, errors within and beyond the tolerable | recovery wherever the noise is tolerable; parameters fit; panics for named reasons |
| `pir_kernels` | 3 rows and columns, 2 LWE columns, 2 values squished to an element, blocks of 2 rows, 2 requests: three rows multiplied at once, a last column and a last block that are not full | hint and answers are the products; nothing reaches the wrong row; the database changes only after the hint |
| `trial` | 2 trials, files of 2 entries, 2 dials, 2 faults (kills, or writes that fail unnoticed): a failure in the first trial and in the second; empty, half and whole files; a first trial without a verdict | SUCCESS is about this trial's files, named losses excepted; logs and live run agree, one case excepted; the experiment ends, three waits excepted |

Bounds by name: `MaxSize`, `MaxThreads` (thread counts), `MaxInsert`
(`MAX_INSERT`), `Reads` (buffer refills per matrix), `Capacity` (bytes in
transit), `MaxCrashes`, `MaxFaults`, `Retries` (`CONNECTION_RETRIES`), `MaxLen`,
`Lanes` (rows of a block), `NRequests`.
Only `MaxCrashes`, `MaxFaults`, `MaxSize`, `MaxThreads` and `MaxLen` have no
counterpart in the code; they limit the number of cases, not what happens in
one of them.

Each property also has a mutant in `PROJECT.json`: a change of one definition
that a plausible mistake in the code would amount to, and under which TLC
finds the property violated.

### Fairness

* `CuckooVector`, `CuckooTable`, `ModuloSwitch`, `SimplePir`: one thread
  that takes its next step, `WF(Next)`; in `Psi` two processes whose steps either
  commute or wait for each other, and of which neither can go on for ever, so
  that `WF(Next)` runs both to their ends. No fairness is placed on *which* hash an
  eviction picks: `FillEnds` rests on the bound, not on luck.
* `ServerEncrypt`: `std::launch::async` makes a thread of the operating system
  of each batch, so each is fair on its own.
* `PirServer`: the Go scheduler runs what can run; weak fairness per goroutine
  suffices, because the builder that holds the mutex always lets go of it and
  every builder takes it once.
* `PirSession`: both processes run on and their kernels deliver. Crashes are
  not fair: they may happen or not.
* `Trial`: each process runs on. Kills, exceptions and failing writes are not fair.
* `PirKernels` states none: its properties are safety properties.

## 4. What is proved

For all values of the constants, from the assumption that each module states
about them (positive numbers of bins, hashes, buckets, threads, trials; the others
natural numbers; the elements finitely many). Every invariant is proved the same
way: `Init => Inv`, one lemma per action, or per conjunct for `PirServer`, and a
temporal conclusion.

**CuckooVectorProofs.** `TypeOK /\ PlacedAtOwnHash /\ Conserved` is inductive.
Placement alone is not: that the bins and the hand hold distinct items is what makes an
eviction exchange two of them. `VectorCrowdedThrows` derives from it that a
filled vector is an injection from items into their candidate bins, hence the
pigeonhole condition for *every* set of items. `VectorStoresItems` is the
refinement: placing the item in hand completes the call (a step of
`ItemStore!Accept`), an eviction is a stutter although it changes the vector,
because the evicted item is in the hand; the exception is `Refuse`.
`VectorBinsStayFull` is proved though no run checks it.

**ParallelProofs: encryption.** `EncryptionTypeOK /\ BatchesFit /\ PartsInBatch /\
OutputUpToJoined`: thread `i` has encrypted a prefix of its batch, and the
output is the batches joined so far. The arithmetic is in the lemma
`BatchesTile`: consecutive batches meet, and the last one ends with the
dataset. `BatchesFit` is the assumption of the theorems, and what
`server_encrypt_uneven` shows to be necessary. `EncryptBatchesDisjoint` is
proved though no run checks it.

**CuckooTableProofs.** `TypeOK /\ RowsFit /\ PadsLast /\ RowsHonest /\
RowsComplete`. No row is longer than its hashtable's width (`RowsFit`), which
is what makes `resize` harmless; padding appears only after the last insertion;
rows hold only entries that belong there, once; and all of them. From it also
follows `TablePadKeepsEntries`, which no run checks. For `TableRectangular` it is
strengthened by `RowsPadded` (a padded bin has rows of its width) and `RowsTight`
(some row of an unpadded one has that length, so that the width is the maximum
and not only a bound).

**PirServerProofs.** `TypeOK`, `Counted` (the WaitGroup counts exactly the
builders that run), `InOrder` (how far started, announced and read have come),
`Exclusive` (who holds the mutex, and that only it is between seeding and the
end of its expansion), `Expanding` (a stream's position is the length of the
matrix read from it, and a reader is its own bin's), and for the online phase
`Stages`, `Answerers` and `Aligned`. `SeedGivesMatrix` needs `Exclusive`: a second
builder would redirect the global between the two steps of the first.

**ParallelProofs: products.** `TypeOK /\ HintInv /\ AnswerInv`, which say exactly what has
been added so far: element `c` of a row's hint has one product more once `j` has
passed it (`HintSoFar`), what a goroutine holds is still what is in the hint
(`HoldsLatest`, the freedom from races), no product is left when the database
changes (`SquishedLast`), and lanes and answers are equal to their closed forms
(`LanesSoFar`, `AnswersSoFar`). `HintSumGrows` and `RowProductsGrow` say that one step
of a loop leads from one closed form to the next; that the flat index is block
times width plus column is in `TypeOK`, because the answers rest on it.

**PirSessionProofs.** Three layers. `Shape` is the typing, with what a stream
holds described as bytes of messages of the sender's script. `Aligned` adds, for
each direction, that the writer's place, the bytes under way and the reader's place
fit together (`Wired`): what is still in the stream is the segment of the
sender's script between the two, so a read that waits for its whole
message gets exactly that. A process that is done has come to the end of its script
(`Settled`), so that nothing is under way to it that it would drop, and nobody
panics alone. `Kept` says which results a process has
at each line of its script, from which the two statements about counts and
answers follow. The hypotheses are part of the statements: `WholeReads`, every message is
read in a loop or is a single byte (the ready bytes), as where
hints, requests and answers reach `CHUNK_SIZE` (512 bytes); the run `pir_session`
satisfies it, and `pir_session_small` shows that it is needed. `CountsComplete`
and `AnswersComplete` also name the messages that must be read in a loop:
of a one-byte message nobody would notice that it is missing.

**PsiProofs.** `Typed`, the table's and the vector's own invariants (lemmas of the
two component modules, taken over through the instances), `Exchanged` (after each
message of the OPRF every place holds the point of its own element, under
the keys the code has applied so far), `Walked` (the vector was filled from exactly the client's items),
`Tally` (`found` counts the pairs of bins answered so far and places of their
buckets that match) and `FailsForAReason`. The heart is the lemma
`Lookup`: for an item that is not a blank, the column that `Translated` asks for
contains each equal entry exactly once, by `OncePerBin` and `Rectangular` of the table, the
placement of the vector and the arithmetic of stacking (`ColumnEntry`,
`BucketEntry`, `ColumnsDivide`). `PairsAdd` turns it into the growth of the count.
`CountIsShared` and `FailuresHaveReasons` hold for every number of bins, one
included, hence for both instances whose conjunctions the run `psi` checks
(`CountsSharedBoth`, `FailsForAReasonBoth`); `PsiImplementsIntersection` is the
safety half of `ComputesIntersection`.

**TrialProofs.** One conjunct per process says what its place in its script tells:
which files it has completed, which it has read, and of the PIR processes what
the other must have done (`PirServerAt`, `PirClientAt`). `SuccessIsReal` is a chain
through all five: a verdict means that the client has heard the server twice,
having asked every query or none, or that the server was killed (what it said is lost
only then); the server speaks only after it has read a whole hashtable; its
file exists only if the OPRF server has read its dataset; a file that was
closed is complete or has lost entries to a failing write (`Holds`); the client's `queries.db`
exists only if its `client.edb` was closed, and its dataset only if the server's was. `Phased` keeps processes of different phases
apart. `LogsTellTheSame` rests on `Logs`, in which one conjunct is there for
the proof's sake: a trial that some SUCCESS comes after has a *first* such
SUCCESS, which holds step by step and would else need an induction.
The proof attempt found that the model kept a server from being killed once the
client had skipped a response (`Abort`); it does no longer.

**ArithmeticProofs: SimplePIR.** The assumptions are `PirAssumption` (positive widths, three
elements fit in a word, moduli of the table can be squished, no bin without
buckets) and `InputAssumption` (datasets are bytes, draws are words). The
inductive invariant has a conjunct per phase: `Chosen` (parameters),
`Built` (the hint is that of the seed), `Sent` (what the client has is some
rounding of it), `Asked`, `Answered`, and so on: each says that a variable is
the closed form of the inputs, so that nothing later disturbs it. The rest is
arithmetic, in four layers.

* *Sums and powers* are recursive functions. That a function of that form exists for every
  length, and what it computes, is an induction; the library's theorem for it
  takes an operator, so the lemma `Induction` states it of a *set* of numbers,
  from the well-foundedness of less-than. From it follow `SumAdds`,
  `SumTimes`, `SumExchange` (a double sum in either order, which is why the
  client can multiply the hint by its secret instead of the server's matrix) and
  `PowerAdds`.
* *Congruence* (`Alike`): every product and sum of words is congruent to the
  one over the integers, with secrets and errors read with their signs (`Signed`).
* *Squishing*: three digits come out of an element again (`Unsquished`), so the
  packed product of the server is the plain one (`AnswerRow`).
* *Rounding*: a row of the response, less the hint's part, is congruent to the
  marked element plus the noise. The 33-bit sum of `RecoverColumn` may have wrapped around
  up to twice, each time off by what `Q` leaves modulo `p`; `Decoded` shows that
  rounding still finds the element as long as the noise is `Tolerable`.

`ColumnRecovered` joins them; `ParametersFit` and `PanicsExplained` come from the
invariant's first conjuncts. The proof needed two changes of the model: the
exception in `RecoversColumn` for entries that are split and yet make up columns of one
entry (section 6), and the assumption that moduli of the table fit the squishing, which
`params.csv` satisfies.

**ArithmeticProofs: packing.** A number is known by its bits (`SameBits`), and the
operators are what they do to bits: `BitJoined` (a number made of low and high bits),
`BitTimes`, `BitDivided`, `BitCut` for the shifts and the cut to a word, `OrBits`.
`IsPacked(p)` says what bit `p` of the message should be: that of its element, or the
one bit too many of the element before, when that was rounded up to `2^Bits`. The inductive invariant
(`PackingInv`) is that the words written have these bits (`Written`), that those afloat
have them too *and* one more, the carry, beyond `floatingBits` (`Afloat`), and after the
flush that all of the message has (`Complete`). The carry at the place `floatingBits` is what
makes it inductive: it is not counted, and the next element is put on top of it
(`JoinedPacked`); behind the last element it is dropped. `Room` is the arithmetic of the
length: each word written, and the four bytes from the last element on, are inside.
Four bytes of the message are again a word with the bits at their place
(`WordBits`), hence `CameBack`; `PackingNoise` follows with `OrOne` (a
set last bit adds at most one) and `NoiseOf` (rounding, carry and cut, around the modulus).

Only model-checked:

* liveness (`FillEnds`, `ServerEnds`, `BothEnd`, `TrialEnds`), and the liveness in
  `ComputesIntersection`: out of the prover's reach;
* `CountsSharedBoth` and `FailsForAReasonBoth` of the instance `MC_Psi`: they are
  `CountIsShared` and `FailuresHaveReasons`, twice.

## 5. What is not modelled

* **Cryptography**: that OPRF results are pseudo-random, that the LWE samples
  hide the query, the curve arithmetic of apsi. Different points have different
  hashes here, and the cuckoo hashes are arbitrary functions.
* **Distributions** (AES in `rand.go`, `gauss.go`): which values are drawn is a
  choice; what becomes of a drawn value as a word is in `SimplePir`.
  How often an insertion fails or a noise is intolerable is not a question
  these models answer; what happens then is.
* **`double_pir.go`, `pir.go`, `logging.go`**: parts of the adopted library the
  program never calls; likewise the unused operations of `matrix.go`,
  `database.go`, `simple_pir.go` and `pir.c`.
* **Arithmetic of the kernels**: that `matMulVecPacked` takes three values out of
  an element is in `SimplePir`, how it goes through rows and columns in
  `PirKernels`, where numbers are names.
  The carry of `ModuloSwitch` is not in `SimplePir`, where every element is
  rounded on its own.
* **Parts of a message in `Trial`**: there it arrives or not; cut messages and reads
  are `PirSession`'s. A response is at its client whole, or zeros are decoded
  for it, and what was found in it is counted or missed.
* **The pipe of the PIR client.** The driver reads the server's output to its end, then the
  client's. With 600 bins or more the client's would fill its pipe (64 KB), a fourth
  wait; no parameter file of the repository goes beyond 384 bins.
* **Sessions in which nothing is asked** (no queries): the server's statistics
  would panic (`server.go:73`); `PirServer` and `PirSession` assume at least one
  query.
* The arithmetic of the statistics, timing, the wording of what is printed, build
  and deployment files, parameter files. The tests were read for what they
  expect; `Overfill` became `CrowdedThrows`.

## 6. Where code and text disagree

Shown by a run:

* **`server.cc:23`** (`server_encrypt_uneven`). The batch is rounded *up* and
  every thread but the last takes a whole one. With 5 elements and 4 threads the
  third thread reads behind the vector and its garbage becomes entries. The
  parameter files use sizes far above the thread counts, for which
  `BatchesFit` holds.
* **`more_utils.go:99`** (`pir_session_small`). A message below `CHUNK_SIZE`
  is one `conn.Read` whose count is ignored. If TCP delivers half of it, the
  other half is taken for the start of the next message.

Met while modelling, with no run of their own:

* `utils_test.go:40` allows a switched value to be "exact or 1 more"; after a
  value rounded up to `2^MOD_SWITCH_BITS` the carry lands on the last bit of
  the next element, which may be two units off (`more_utils.go:197`).
  `ComesBackRounded` states exactly this exception.
* `benchmark.py:168` raises "failure when running oprf" if `serr or cerr`;
  standard error is not piped, so both are always `None`. `Trial` has the
  driver go on, and `SuccessIsReal` names what can come of it: with a single
  bin, an expected overlap of zero and an OPRF client that died with an empty
  `queries.db`, the trial reports SUCCESS without having asked anything. With
  part of the queries there it does so only if the PIR server dies too.
* `client.go:70` decodes what `ReadOverNetwork` returns; below `CHUNK_SIZE` (the
  geometry of `params/10.ini` and `correctness.ini`) that is zeros once the server is dead
  (`more_utils.go:97-101`). Where no overlap is expected, or only responses without
  one are missing, SUCCESS is reported without them: the exception "the server was
  killed" in `SuccessIsReal`.
* `utils.h:87-106`, `utils.cc:37-44` and `hashtable.cc:32-40` look at whether a file opened,
  not whether it was written. A process that exits normally may leave a short
  file; most end in a panic or in a wait, but a dataset that lost entries, or a single
  bin's queries, may go unnoticed where nothing is expected: `lost` in `SuccessIsReal`.
* `benchmark.py:140` does not look at how `datagen` ended. `SuccessIsReal` names
  what can come of it: with an expected overlap of zero, a
  trial about part of the client's dataset reports SUCCESS.
* `README.md:86-91` has `--from-logs` report the statistics of an earlier run. The
  log is split at SUCCESS (`benchmark.py:51`), so the metrics of a trial that
  printed no verdict are added to those of the trial after it. `LogsAgree`
  states exactly this exception.
* `database.go:53` says that digits are "stacked vertically"; `CreateDatabase`
  lays them out across columns, and `RecoverColumn` fits neither once an entry takes
  more than one element (`protocol.go:143`). It panics (`PanicsForAReason`), but for
  columns of a single entry, where it returns an entry made of the wrong elements:
  the exception in `RecoversColumn`.
* `cuckoo.h:21` says an element is added "once for each cuckoo hash"; the code
  skips a bin it is already in (`cuckoo.cc:27`), which `OncePerBin` needs.
* `hashtable.h:36` promises padding with "random elements"; it is zeros.
* `utils.h:70` has the overlap a *minimum*; `main.go:79` compares exactly.
* `run.sh` passes options that no program parses.

## 7. Plan

The order was: the client's vector; the server's side; the PIR server; the
connection; the composition; the arithmetic; the driver; then the OPRF exchange
and duplicates in the composition, the server's products, and the generator and
the log in the driver; then the proofs, component by component, the composition
and the driver last. What is left:

1. `PirServer` and `ServerEncrypt`: abstract specifications of their own (a
   function from requests to responses, a map over a sequence), with the
   refinement proved from the invariants there are.
2. The message of `SimplePir` packed by `ModuloSwitch`, so that its carries are part
   of the noise that `ColumnRecovered` tolerates.
