---------------------------- MODULE StorageProofs ----------------------------
(* What holds of stored files for any keys, contents, jobs and numbers of   *)
(* requests: a user's files stay within the quota and a move loses nothing. *)
EXTENDS MCStorage, Sums

JobRow == [input : Contents \cup {None}, bytes : Nat, weighed : BOOLEAN]

\* The requests, and what each may be doing.
ClientRecords ==
    [op : {"save", "move", "prompt", "create"},
     step : {"look", "head", "weigh", "put", "remove", "insert", "copy", "bytes"},
     src : Keys \cup {None}, dest : Keys \cup Jobs, content : Contents, replaced : Nat,
     disturbed : BOOLEAN]

Steps(op) ==
    IF op = "save" THEN {"look", "head", "weigh", "put"}
    ELSE IF op = "move" THEN {"look", "put", "remove"}
    ELSE {"weigh", "insert", "copy", "bytes"}

Submits(q) == q.op \in {"prompt", "create"}

Shaped(q) ==
    /\ q.step \in Steps(q.op)
    /\ q.op = "save" => q.dest \in Keys
    /\ q.op = "move" => q.src \in Saved /\ q.dest \in Saved
    /\ q.op = "move" /\ q.step = "remove" => q.src # q.dest
    /\ Submits(q) => q.dest \in Jobs /\ q.replaced = 0

FilesTyped ==
    /\ file \in [Keys -> Contents \cup {None}]
    /\ job \in [Jobs -> JobRow \cup {None}]
    /\ client \in [Clients -> ClientRecords \cup {Calm}]
    /\ asked \in Nat /\ halved \in BOOLEAN /\ squeezed \in BOOLEAN
    /\ \A x \in Clients : client[x] # Calm => Shaped(client[x])

\* What a submission has done to its job's row, and it is the only one.
RowFits(q) ==
    /\ q.step \in {"weigh", "insert"} => job[q.dest] = None
    /\ q.step = "copy" =>
         job[q.dest] = [input |-> None, bytes |-> 0, weighed |-> q.op = "create"]
    /\ q.step = "bytes" => job[q.dest] # None /\ job[q.dest].input = q.content

Submissions ==
    /\ \A x \in Clients : client[x] # Calm /\ Submits(client[x]) => RowFits(client[x])
    /\ \A x, y \in Clients :
         /\ client[x] # Calm /\ Submits(client[x])
         /\ client[y] # Calm /\ Submits(client[y]) /\ client[x].dest = client[y].dest
         => x = y

\* A row is charged for its input, unless the charge is still to come.
Charged ==
    ~halved =>
        \A j \in Jobs : job[j] # None =>
            \/ job[j].bytes = Bytes(job[j].input)
            \/ \E x \in Clients : On(x, "bytes") /\ client[x].dest = j

\* A file that is being moved undisturbed is where it was read, or where it goes.
MoveStands(q) ==
    q.op = "move" =>
        /\ q.step \in {"look", "put"} => file[q.src] = q.content
        /\ q.step = "remove" => file[q.dest] = q.content

\* What a user has, by key and by job; the sums over all of them.
SizesOf(F) == [k \in Keys |-> Bytes(F[k])]
ChargesOf(J) == [j \in Jobs |-> IF J[j] = None THEN 0 ELSE J[j].bytes]
InputsOf(J) == [j \in Jobs |-> IF J[j] = None THEN 0
                               ELSE IF J[j].weighed THEN Bytes(J[j].input) ELSE 0]
FilesTotal(F, S) == Totals(SizesOf(F), Keys)[S]
Charges(J) == Totals(ChargesOf(J), Jobs)[Jobs]
Inputs(J) == Totals(InputsOf(J), Jobs)[Jobs]
UsageOf(F, J) == FilesTotal(F, Keys) + Charges(J)

\* What was weighed and not disturbed since has room.
Room(q) ==
    /\ q.op = "save" /\ q.step = "weigh" => q.replaced = Bytes(file[q.dest])
    /\ q.op = "save" /\ q.step = "put" =>
         UsageOf(file, job) - Bytes(file[q.dest]) + Bytes(q.content) <= Quota
    /\ q.op = "create" /\ q.step \in {"insert", "copy"} =>
         UsageOf(file, job) + Bytes(q.content) <= Quota

Undisturbed ==
    \A x \in Clients :
        client[x] # Calm /\ ~client[x].disturbed => MoveStands(client[x]) /\ Room(client[x])

FilesInv == FilesTyped /\ Submissions /\ Charged /\ Undisturbed /\ QuotaKept

----------------------------------------------------------------------------
(* The sums of Files, read as totals *)

LEMMA KeysFinite ==
    /\ IsFiniteSet(Keys) /\ IsFiniteSet(Jobs) /\ Staged \in SUBSET Keys /\ Saved \in SUBSET Keys
    /\ Staged \cup Saved = Keys /\ Staged \cap Saved = {}
PROOF BY FilesAssumption, FS_Union DEF FilesAssumption, Keys

LEMMA BytesAre == \A c \in Contents \cup {None} : Bytes(c) \in Nat
PROOF BY FilesAssumption DEF FilesAssumption, Bytes

LEMMA SizesTyped ==
    ASSUME NEW F \in [Keys -> Contents \cup {None}] PROVE SizesOf(F) \in [Keys -> Nat]
PROOF BY BytesAre DEF SizesOf

LEMMA ChargesTyped ==
    ASSUME NEW J \in [Jobs -> JobRow \cup {None}]
    PROVE  ChargesOf(J) \in [Jobs -> Nat] /\ InputsOf(J) \in [Jobs -> Nat]
PROOF BY BytesAre DEF ChargesOf, InputsOf, JobRow

FileSum(F, S) == MapThenSumSet(LAMBDA k : Bytes(F[k]), S)

LEMMA FileSumIs ==
    ASSUME NEW F \in [Keys -> Contents \cup {None}], NEW S \in SUBSET Keys
    PROVE  FileSum(F, S) = FilesTotal(F, S)
<1> DEFINE Eq(sum) == sum = [s \in SUBSET S |-> IF s = {} THEN 0 ELSE Bytes(F[Pick(s)]) + sum[Rest(s)]]
           it == CHOOSE sum : Eq(sum)
<1>1. FileSum(F, S) = it[S]
    BY DEF FileSum, MapThenSumSet, MapThenFoldSet, Pick, Rest
<1>2. ASSUME NEW sum PROVE Eq(sum) <=> Folds(sum, SizesOf(F), S)
    <2>1. \A s \in SUBSET S : s # {} => SizesOf(F)[Pick(s)] = Bytes(F[Pick(s)])
        BY DEF Pick, SizesOf
    <2> QED
        BY <2>1 DEF Folds
<1>3. \E sum : Folds(sum, SizesOf(F), S)
    BY FoldExists, SizesTyped, KeysFinite
<1>4. Eq(it)
    BY <1>2, <1>3
<1> HIDE DEF it
<1>5. Folds(it, SizesOf(F), S)
    BY <1>2, <1>4
<1>6. it[S] = Totals(SizesOf(F), Keys)[S]
    BY <1>5, FoldIsTotal, SizesTyped, KeysFinite
<1> QED
    BY <1>1, <1>6 DEF FilesTotal

JobSum(J) == MapThenSumSet(LAMBDA j : J[j].bytes, {j \in Jobs : J[j] # None})
InputSum(J) ==
    MapThenSumSet(LAMBDA j : Bytes(J[j].input), {j \in {i \in Jobs : J[i] # None} : J[j].weighed})

\* What counts for nothing may be left out.
LEMMA LeftOut ==
    ASSUME NEW W, IsFiniteSet(W), NEW f \in [W -> Nat], NEW S \in SUBSET W,
           \A w \in W \ S : f[w] = 0
    PROVE  Totals(f, W)[S] = Totals(f, W)[W]
<1>1. PICK D \in SUBSET W : D = W \ S /\ S \cup D = W /\ S \cap D = {}
    <2>1. W \ S \in SUBSET W /\ S \cup (W \ S) = W /\ S \cap (W \ S) = {}
        OBVIOUS
    <2> QED
        BY <2>1
<1>2. Totals(f, W)[S \cup D] = Totals(f, W)[S] + Totals(f, W)[D]
    BY <1>1, TotalsJoin
<1>3. Totals(f, W)[D] = 0
    BY <1>1, TotalsZero
<1>4. PICK n \in Nat : n = Totals(f, W)[S]
    BY TotalsAre
<1>5. Totals(f, W)[W] = n + 0
    BY <1>1, <1>2, <1>3, <1>4
<1> QED
    BY <1>4, <1>5

LEMMA JobSumIs ==
    ASSUME NEW J \in [Jobs -> JobRow \cup {None}]
    PROVE  JobSum(J) = Charges(J)
<1> DEFINE S == {j \in Jobs : J[j] # None}
           Eq(sum) == sum = [s \in SUBSET S |-> IF s = {} THEN 0 ELSE J[Pick(s)].bytes + sum[Rest(s)]]
           it == CHOOSE sum : Eq(sum)
<1>1. JobSum(J) = it[S]
    BY DEF JobSum, MapThenSumSet, MapThenFoldSet, Pick, Rest
<1>2. ASSUME NEW sum PROVE Eq(sum) <=> Folds(sum, ChargesOf(J), S)
    <2>1. \A s \in SUBSET S : s # {} => ChargesOf(J)[Pick(s)] = J[Pick(s)].bytes
        BY DEF Pick, ChargesOf
    <2> QED
        BY <2>1 DEF Folds
<1>3. \E sum : Folds(sum, ChargesOf(J), S)
    BY FoldExists, ChargesTyped, KeysFinite
<1>4. Eq(it)
    BY <1>2, <1>3
<1> HIDE DEF it
<1>5. Folds(it, ChargesOf(J), S)
    BY <1>2, <1>4
<1>6. it[S] = Totals(ChargesOf(J), Jobs)[S]
    BY <1>5, FoldIsTotal, ChargesTyped, KeysFinite
<1>7. \A j \in Jobs \ S : ChargesOf(J)[j] = 0
    BY DEF ChargesOf
<1>8. Totals(ChargesOf(J), Jobs)[S] = Charges(J)
    BY <1>7, LeftOut, ChargesTyped, KeysFinite DEF Charges
<1> QED
    BY <1>1, <1>6, <1>8 DEF Charges

LEMMA InputSumIs ==
    ASSUME NEW J \in [Jobs -> JobRow \cup {None}]
    PROVE  InputSum(J) = Inputs(J)
<1> DEFINE S == {j \in {i \in Jobs : J[i] # None} : J[j].weighed}
           Eq(sum) == sum = [s \in SUBSET S |->
                          IF s = {} THEN 0 ELSE Bytes(J[Pick(s)].input) + sum[Rest(s)]]
           it == CHOOSE sum : Eq(sum)
<1>1. InputSum(J) = it[S]
    BY DEF InputSum, MapThenSumSet, MapThenFoldSet, Pick, Rest
<1>2. ASSUME NEW sum PROVE Eq(sum) <=> Folds(sum, InputsOf(J), S)
    <2>1. \A s \in SUBSET S : s # {} => InputsOf(J)[Pick(s)] = Bytes(J[Pick(s)].input)
        BY DEF Pick, InputsOf
    <2> QED
        BY <2>1 DEF Folds
<1>3. \E sum : Folds(sum, InputsOf(J), S)
    BY FoldExists, ChargesTyped, KeysFinite
<1>4. Eq(it)
    BY <1>2, <1>3
<1> HIDE DEF it
<1>5. Folds(it, InputsOf(J), S)
    BY <1>2, <1>4
<1>6. it[S] = Totals(InputsOf(J), Jobs)[S]
    BY <1>5, FoldIsTotal, ChargesTyped, KeysFinite
<1>7. \A j \in Jobs \ S : InputsOf(J)[j] = 0
    BY DEF InputsOf
<1>8. Totals(InputsOf(J), Jobs)[S] = Inputs(J)
    BY <1>7, LeftOut, ChargesTyped, KeysFinite DEF Inputs
<1> QED
    BY <1>1, <1>6, <1>8 DEF Inputs

LEMMA UsageIs == ASSUME FilesTyped PROVE Usage = UsageOf(file, job)
<1>1. Usage = FileSum(file, Staged) + FileSum(file, Saved) + JobSum(job)
    BY DEF Usage, PrefixBytes, UserJobBytes, Live, FileSum, JobSum
<1>2. FileSum(file, Staged) = FilesTotal(file, Staged) /\ FileSum(file, Saved) = FilesTotal(file, Saved)
    BY FileSumIs, KeysFinite DEF FilesTyped
<1>3. JobSum(job) = Charges(job)
    BY JobSumIs DEF FilesTyped
<1>4. FilesTotal(file, Keys) = FilesTotal(file, Staged) + FilesTotal(file, Saved)
    BY TotalsJoin, SizesTyped, KeysFinite DEF FilesTotal, FilesTyped
<1> QED
    BY <1>1, <1>2, <1>3, <1>4 DEF UsageOf

\* Kept, as a function of what it depends on.
HalfMoved(C) == {C[x].src : x \in {y \in Clients : C[y] # Calm /\ C[y].step = "remove"}}
KeptOf(F, J, C) == FilesTotal(F, Keys \ HalfMoved(C)) + Inputs(J)

LEMMA KeptSums == Kept = FileSum(file, Keys \ HalfMoved(client)) + InputSum(job)
PROOF BY DEF Kept, PrefixBytes, Live, On, FileSum, InputSum, HalfMoved

LEMMA KeptIs == ASSUME FilesTyped PROVE Kept = KeptOf(file, job, client)
PROOF BY KeptSums, FileSumIs, InputSumIs DEF FilesTyped, KeptOf

LEMMA KeptIsNext == ASSUME FilesTyped' PROVE Kept' = KeptOf(file', job', client')
<1>1. (Kept = FileSum(file, Keys \ HalfMoved(client)) + InputSum(job))'
    BY KeptSums, PTL
<1> QED
    BY <1>1, FileSumIs, InputSumIs DEF FilesTyped, KeptOf

----------------------------------------------------------------------------
(* How the sums change *)

LEMMA TotalsTyped ==
    ASSUME NEW F \in [Keys -> Contents \cup {None}], NEW J \in [Jobs -> JobRow \cup {None}],
           NEW S \in SUBSET Keys
    PROVE  /\ FilesTotal(F, S) \in Nat /\ FilesTotal(F, S) <= FilesTotal(F, Keys)
           /\ FilesTotal(F, Keys) \in Nat
           /\ Charges(J) \in Nat /\ Inputs(J) \in Nat
           /\ UsageOf(F, J) \in Nat
<1>1. SizesOf(F) \in [Keys -> Nat] /\ IsFiniteSet(Keys) /\ Keys \in SUBSET Keys
    BY SizesTyped, KeysFinite
<1>2. ChargesOf(J) \in [Jobs -> Nat] /\ InputsOf(J) \in [Jobs -> Nat] /\ IsFiniteSet(Jobs)
      /\ Jobs \in SUBSET Jobs
    BY ChargesTyped, KeysFinite
<1>3. FilesTotal(F, S) \in Nat /\ FilesTotal(F, Keys) \in Nat
    BY <1>1, TotalsAre DEF FilesTotal
<1>4. FilesTotal(F, S) <= FilesTotal(F, Keys)
    BY <1>1, TotalsLess DEF FilesTotal
<1>5. Charges(J) \in Nat /\ Inputs(J) \in Nat
    BY <1>2, TotalsAre DEF Charges, Inputs
<1> QED
    BY <1>3, <1>4, <1>5 DEF UsageOf

\* A write changes what is summed by what it replaces and what it brings.
Rewrites(G, F, k, c) == G = [F EXCEPT ![k] = c]

LEMMA WriteCounts ==
    ASSUME NEW F \in [Keys -> Contents \cup {None}], NEW k \in Keys,
           NEW c \in Contents \cup {None}, NEW S \in SUBSET Keys, NEW G, Rewrites(G, F, k, c)
    PROVE  /\ k \notin S => FilesTotal(G, S) = FilesTotal(F, S)
           /\ k \in S => FilesTotal(G, S) = FilesTotal(F, S) - Bytes(F[k]) + Bytes(c)
<1>1. G \in [Keys -> Contents \cup {None}] /\ G[k] = c /\ \A l \in Keys \ {k} : G[l] = F[l]
    BY DEF Rewrites
<1>2. /\ SizesOf(F) \in [Keys -> Nat] /\ SizesOf(G) \in [Keys -> Nat] /\ IsFiniteSet(Keys)
      /\ \A l \in Keys \ {k} : SizesOf(F)[l] = SizesOf(G)[l]
      /\ SizesOf(F)[k] = Bytes(F[k]) /\ SizesOf(G)[k] = Bytes(c)
    BY <1>1, SizesTyped, KeysFinite DEF SizesOf
<1>3. ASSUME k \notin S PROVE FilesTotal(G, S) = FilesTotal(F, S)
    BY <1>2, <1>3, TotalsAgree DEF FilesTotal
<1>4. ASSUME k \in S PROVE FilesTotal(G, S) = FilesTotal(F, S) - Bytes(F[k]) + Bytes(c)
    BY <1>2, <1>4, TotalsChange DEF FilesTotal
<1> QED
    BY <1>3, <1>4

\* One file is no larger than all of them.
LEMMA OneFile ==
    ASSUME NEW F \in [Keys -> Contents \cup {None}], NEW k \in Keys, NEW S \in SUBSET Keys, k \in S
    PROVE  Bytes(F[k]) <= FilesTotal(F, S) /\ FilesTotal(F, S \ {k}) = FilesTotal(F, S) - Bytes(F[k])
<1>1. SizesOf(F) \in [Keys -> Nat] /\ IsFiniteSet(Keys) /\ SizesOf(F)[k] = Bytes(F[k])
    BY SizesTyped, KeysFinite DEF SizesOf
<1>2. FilesTotal(F, S) = Bytes(F[k]) + FilesTotal(F, S \ {k})
    BY <1>1, TotalsAre DEF FilesTotal
<1>3. FilesTotal(F, S \ {k}) \in Nat /\ Bytes(F[k]) \in Nat
    <2>1. S \ {k} \in SUBSET Keys
        OBVIOUS
    <2> QED
        BY <1>1, <2>1, TotalsAre DEF FilesTotal
<1> QED
    BY <1>2, <1>3

LEMMA LeastOfTwo == ASSUME NEW a1 \in Nat, NEW b1 \in Nat, a1 <= b1 PROVE Min({a1, b1}) = a1
PROOF BY DEF Min

\* What the quota's check lets through has room.
LEMMA Fits ==
    ASSUME NEW used \in Nat, NEW replaced \in Nat, NEW incoming \in Nat, replaced <= used,
           ~Over(used, replaced, incoming)
    PROVE  used - replaced + incoming <= Quota
<1>1. Min({replaced, used}) = replaced
    BY LeastOfTwo
<1>2. Quota \in Nat
    BY FilesAssumption DEF FilesAssumption
<1> QED
    BY <1>1, <1>2 DEF Over

\* The rows are charged for at least what is kept of what was weighed.
LEMMA InputsAreCharged ==
    ASSUME FilesTyped, Charged, ~halved, ~Uncounted
    PROVE  Inputs(job) <= Charges(job)
<1>1. job \in [Jobs -> JobRow \cup {None}]
    BY DEF FilesTyped
<1>2. InputsOf(job) \in [Jobs -> Nat] /\ ChargesOf(job) \in [Jobs -> Nat] /\ IsFiniteSet(Jobs)
      /\ Jobs \in SUBSET Jobs
    BY <1>1, ChargesTyped, KeysFinite
<1>3. ASSUME NEW j \in Jobs PROVE InputsOf(job)[j] <= ChargesOf(job)[j]
    <2>1. job[j] # None => job[j].bytes = Bytes(job[j].input)
        BY DEF Charged, Uncounted
    <2>2. InputsOf(job)[j] \in {0, ChargesOf(job)[j]} /\ ChargesOf(job)[j] \in Nat
        BY <1>2, <2>1 DEF InputsOf, ChargesOf
    <2> QED
        BY <2>2
<1> QED
    BY <1>2, <1>3, TotalsMonotone DEF Charges, Inputs

\* A row that is new, or goes, or is charged.
LEMMA RowChanges ==
    ASSUME NEW J \in [Jobs -> JobRow \cup {None}], NEW j \in Jobs, NEW r \in JobRow \cup {None},
           NEW H, Rewrites(H, J, j, r)
    PROVE  /\ H \in [Jobs -> JobRow \cup {None}]
           /\ Charges(H) = Charges(J) - ChargesOf(J)[j] + ChargesOf(H)[j]
           /\ Inputs(H) = Inputs(J) - InputsOf(J)[j] + InputsOf(H)[j]
           /\ ChargesOf(J)[j] \in Nat /\ InputsOf(J)[j] \in Nat
           /\ ChargesOf(H)[j] \in Nat /\ InputsOf(H)[j] \in Nat
<1>1. H \in [Jobs -> JobRow \cup {None}] /\ H[j] = r /\ \A i \in Jobs \ {j} : H[i] = J[i]
    BY DEF Rewrites
<1>2. /\ ChargesOf(J) \in [Jobs -> Nat] /\ ChargesOf(H) \in [Jobs -> Nat]
      /\ InputsOf(J) \in [Jobs -> Nat] /\ InputsOf(H) \in [Jobs -> Nat]
      /\ IsFiniteSet(Jobs) /\ Jobs \in SUBSET Jobs
    BY <1>1, ChargesTyped, KeysFinite
<1>3. \A i \in Jobs \ {j} : ChargesOf(J)[i] = ChargesOf(H)[i] /\ InputsOf(J)[i] = InputsOf(H)[i]
    BY <1>1 DEF ChargesOf, InputsOf
<1>4. Charges(H) = Charges(J) - ChargesOf(J)[j] + ChargesOf(H)[j]
    BY <1>2, <1>3, TotalsChange DEF Charges
<1>5. Inputs(H) = Inputs(J) - InputsOf(J)[j] + InputsOf(H)[j]
    BY <1>2, <1>3, TotalsChange DEF Inputs
<1> QED
    BY <1>1, <1>2, <1>4, <1>5

----------------------------------------------------------------------------
(* Steps of one request that write nothing *)

LEMMA NotCalm == Calm \notin ClientRecords
PROOF BY DEF Calm, ClientRecords

LEMMA OwnStep ==
    ASSUME FilesInv, NEW x \in Clients, NEW q \in ClientRecords \cup {Calm},
           file' = file, job' = job, client' = [client EXCEPT ![x] = q],
           asked' \in Nat, halved' \in BOOLEAN, squeezed' = squeezed, halved => halved',
           q # Calm => Shaped(q) /\ q.step \notin {"remove", "bytes"},
           q # Calm /\ Submits(q) =>
             /\ RowFits(q)
             /\ \A y \in Clients \ {x} :
                  client[y] # Calm /\ Submits(client[y]) => client[y].dest # q.dest,
           q # Calm /\ ~q.disturbed => MoveStands(q) /\ Room(q),
           ~halved' => ~On(x, "remove") /\ ~On(x, "bytes")
    PROVE  FilesInv'
<1>1. FilesTyped /\ client'[x] = q /\ (\A y \in Clients \ {x} : client'[y] = client[y])
      /\ client \in [Clients -> ClientRecords \cup {Calm}]
      /\ client' \in [Clients -> ClientRecords \cup {Calm}]
    BY DEF FilesInv, FilesTyped
<1>2. FilesTyped'
    BY <1>1 DEF FilesTyped
<1>3. Submissions'
    <2>1. \A y \in Clients : client'[y] # Calm /\ Submits(client'[y]) => RowFits(client'[y])
        BY <1>1 DEF FilesInv, Submissions
    <2>2. \A y, z \in Clients :
            /\ client'[y] # Calm /\ Submits(client'[y])
            /\ client'[z] # Calm /\ Submits(client'[z]) /\ client'[y].dest = client'[z].dest
            => y = z
        BY <1>1 DEF FilesInv, Submissions
    <2> QED
        BY <2>1, <2>2 DEF Submissions, RowFits
<1>4. Charged'
    <2>1. SUFFICES ASSUME ~halved', NEW j \in Jobs, job[j] # None, job[j].bytes # Bytes(job[j].input)
                   PROVE  \E y \in Clients : (On(y, "bytes"))' /\ client'[y].dest = j
        BY DEF Charged
    <2>2. PICK y \in Clients : On(y, "bytes") /\ client[y].dest = j
        BY <2>1 DEF FilesInv, Charged
    <2>3. y # x
        BY <2>1, <2>2
    <2> QED
        BY <1>1, <2>2, <2>3 DEF On
<1>5. Undisturbed'
    <2>1. ASSUME NEW y \in Clients, client'[y] # Calm, ~client'[y].disturbed
          PROVE  MoveStands(client'[y]) /\ Room(client'[y])
        BY <1>1, <2>1 DEF FilesInv, Undisturbed
    <2> QED
        BY <2>1 DEF Undisturbed, MoveStands, Room
<1>6. QuotaKept'
    <2>1. SUFFICES ASSUME ~squeezed', ~halved' PROVE Kept' <= Quota
        BY DEF QuotaKept
    <2>2. Kept <= Quota
        BY <2>1 DEF FilesInv, QuotaKept
    <2>3. HalfMoved(client') = HalfMoved(client)
        <3>1. \A y \in Clients :
                (client'[y] # Calm /\ client'[y].step = "remove")
                  <=> (client[y] # Calm /\ client[y].step = "remove")
            BY <1>1, <2>1 DEF On
        <3>2. \A y \in Clients : client[y] # Calm /\ client[y].step = "remove" => client'[y].src = client[y].src
            BY <1>1, <2>1 DEF On
        <3> QED
            BY <3>1, <3>2 DEF HalfMoved
    <2>4. Kept' = Kept
        BY <1>1, <1>2, <2>3, KeptIs, KeptIsNext DEF KeptOf
    <2> QED
        BY <2>2, <2>4
<1> QED
    BY <1>2, <1>3, <1>4, <1>5, <1>6 DEF FilesInv

\* A request that is taken.
LEMMA AskStep ==
    ASSUME FilesInv, NEW x \in Clients, NEW q \in ClientRecords,
           client[x] = Calm, asked' = asked + 1, client' = [client EXCEPT ![x] = q],
           UNCHANGED <<file, job, halved, squeezed>>,
           Shaped(q), q.step \notin {"remove", "bytes"}, MoveStands(q), Room(q),
           Submits(q) => RowFits(q) /\ Submitted(q.dest)
    PROVE  FilesInv'
<1>1. asked' \in Nat /\ halved' \in BOOLEAN
    BY DEF FilesInv, FilesTyped
<1>2. ~On(x, "remove") /\ ~On(x, "bytes")
    BY DEF On
<1>3. Submits(q) => \A y \in Clients \ {x} : client[y] # Calm => client[y].dest # q.dest
    BY DEF Submitted
<1> QED
    BY <1>1, <1>2, <1>3, OwnStep

LEMMA StartSaveKeeps ==
    ASSUME FilesInv, NEW x \in Clients, NEW k \in Keys, NEW c \in Contents, NEW careful \in BOOLEAN,
           StartSave(x, k, c, careful)
    PROVE  FilesInv'
<1>1. PICK q \in ClientRecords :
        /\ q = [op |-> "save", step |-> IF careful THEN "look" ELSE "head", src |-> k, dest |-> k,
                content |-> c, replaced |-> 0, disturbed |-> FALSE]
        /\ q.op = "save" /\ q.step \in {"look", "head"} /\ q.dest = k
    <2> DEFINE n == [op |-> "save", step |-> IF careful THEN "look" ELSE "head", src |-> k, dest |-> k,
                            content |-> c, replaced |-> 0, disturbed |-> FALSE]
    <2>1. /\ n \in ClientRecords
          /\ n.op = "save" /\ n.step \in {"look", "head"} /\ n.dest = k
        BY DEF ClientRecords
    <2> QED
        BY <2>1
<1>2. Shaped(q) /\ q.step \notin {"remove", "bytes"} /\ MoveStands(q) /\ Room(q) /\ ~Submits(q)
    BY <1>1 DEF Shaped, Steps, MoveStands, Room, Submits
<1> QED
    BY <1>1, <1>2, AskStep DEF StartSave, Ask

LEMMA StartMoveKeeps ==
    ASSUME FilesInv, NEW x \in Clients, NEW k \in Saved, NEW d \in Saved, NEW careful \in BOOLEAN,
           StartMove(x, k, d, careful)
    PROVE  FilesInv'
<1>1. k \in Keys /\ d \in Keys /\ file[k] \in Contents
    BY KeysFinite DEF FilesInv, FilesTyped, StartMove
<1>2. PICK q \in ClientRecords :
        /\ q = [op |-> "move", step |-> IF careful /\ k # d THEN "look" ELSE "put", src |-> k,
                dest |-> d, content |-> file[k], replaced |-> 0, disturbed |-> FALSE]
        /\ q.op = "move" /\ q.step \in {"look", "put"} /\ q.src = k /\ q.dest = d
        /\ q.content = file[k]
    <2> DEFINE n == [op |-> "move", step |-> IF careful /\ k # d THEN "look" ELSE "put", src |-> k,
                            dest |-> d, content |-> file[k], replaced |-> 0, disturbed |-> FALSE]
    <2>1. /\ n \in ClientRecords
          /\ n.op = "move" /\ n.step \in {"look", "put"} /\ n.src = k /\ n.dest = d
          /\ n.content = file[k]
        BY <1>1 DEF ClientRecords
    <2> QED
        BY <2>1
<1>3. Shaped(q) /\ q.step \notin {"remove", "bytes"} /\ MoveStands(q) /\ Room(q) /\ ~Submits(q)
    BY <1>2 DEF Shaped, Steps, MoveStands, Room, Submits
<1> QED
    BY <1>2, <1>3, AskStep DEF StartMove, Ask

LEMMA StartPromptKeeps ==
    ASSUME FilesInv, NEW x \in Clients, NEW j \in Jobs, NEW k \in Staged, StartPrompt(x, j, k)
    PROVE  FilesInv'
<1>1. k \in Keys /\ Resolved(k) \in Contents
    BY KeysFinite, FilesAssumption DEF FilesInv, FilesTyped, StartPrompt, Resolved, FilesAssumption
<1>2. PICK q \in ClientRecords :
        /\ q = [op |-> "prompt", step |-> "insert", src |-> k, dest |-> j,
                content |-> Resolved(k), replaced |-> 0, disturbed |-> FALSE]
        /\ q.op = "prompt" /\ q.step = "insert" /\ q.dest = j /\ q.replaced = 0
    <2> DEFINE n == [op |-> "prompt", step |-> "insert", src |-> k, dest |-> j,
                            content |-> Resolved(k), replaced |-> 0, disturbed |-> FALSE]
    <2>1. /\ n \in ClientRecords
          /\ n.op = "prompt" /\ n.step = "insert" /\ n.dest = j /\ n.replaced = 0
        BY <1>1 DEF ClientRecords
    <2> QED
        BY <2>1
<1>3. Shaped(q) /\ q.step \notin {"remove", "bytes"} /\ MoveStands(q) /\ Room(q)
    BY <1>2 DEF Shaped, Steps, MoveStands, Room, Submits
<1>4. RowFits(q) /\ Submitted(q.dest)
    BY <1>2 DEF StartPrompt, Unused, RowFits
<1> QED
    BY <1>2, <1>3, <1>4, AskStep DEF StartPrompt, Ask

LEMMA StartCreateKeeps ==
    ASSUME FilesInv, NEW x \in Clients, NEW j \in Jobs, NEW c \in Contents, StartCreate(x, j, c)
    PROVE  FilesInv'
<1>2. PICK q \in ClientRecords :
        /\ q = [op |-> "create", step |-> "weigh", src |-> None, dest |-> j,
                content |-> c, replaced |-> 0, disturbed |-> FALSE]
        /\ q.op = "create" /\ q.step = "weigh" /\ q.dest = j /\ q.replaced = 0
    <2> DEFINE n == [op |-> "create", step |-> "weigh", src |-> None, dest |-> j,
                            content |-> c, replaced |-> 0, disturbed |-> FALSE]
    <2>1. /\ n \in ClientRecords
          /\ n.op = "create" /\ n.step = "weigh" /\ n.dest = j /\ n.replaced = 0
        BY DEF ClientRecords
    <2> QED
        BY <2>1
<1>3. Shaped(q) /\ q.step \notin {"remove", "bytes"} /\ MoveStands(q) /\ Room(q)
    BY <1>2 DEF Shaped, Steps, MoveStands, Room, Submits
<1>4. RowFits(q) /\ Submitted(q.dest)
    BY <1>2 DEF StartCreate, Unused, RowFits
<1> QED
    BY <1>2, <1>3, <1>4, AskStep DEF StartCreate, Ask

\* A request that only moves on, or ends.
LEMMA MovesOn ==
    ASSUME FilesInv, NEW x \in Clients, NEW q \in ClientRecords \cup {Calm}, client[x] # Calm,
           client' = [client EXCEPT ![x] = q], UNCHANGED <<file, job, asked, halved, squeezed>>,
           ~On(x, "remove") /\ ~On(x, "bytes"),
           q # Calm =>
             /\ Shaped(q) /\ q.op = client[x].op /\ q.dest = client[x].dest
             /\ q.step \notin {"remove", "bytes"}
             /\ Submits(q) => RowFits(q)
             /\ ~q.disturbed => MoveStands(q) /\ Room(q)
    PROVE  FilesInv'
<1>1. asked' \in Nat /\ halved' \in BOOLEAN
    BY DEF FilesInv, FilesTyped
<1>2. q # Calm /\ Submits(q) =>
        \A y \in Clients \ {x} : client[y] # Calm /\ Submits(client[y]) => client[y].dest # q.dest
    BY DEF FilesInv, Submissions, Submits
<1> QED
    BY <1>1, <1>2, OwnStep

LEMMA LookKeeps == ASSUME FilesInv, NEW x \in Clients, Look(x) PROVE FilesInv'
<1>1. PICK p \in ClientRecords : p = client[x] /\ p # Calm /\ p.step = "look" /\ Shaped(p)
                                 /\ (~p.disturbed => MoveStands(p))
    BY NotCalm DEF Look, On, FilesInv, FilesTyped, Undisturbed
<1>2. p.op \in {"save", "move"} /\ ~On(x, "remove") /\ ~On(x, "bytes")
    BY <1>1 DEF Shaped, Steps, On, ClientRecords
<1>3. CASE file[p.dest] # None
    <2>1. client' = [client EXCEPT ![x] = Calm]
        BY <1>1, <1>3 DEF Look, Done
    <2> QED
        BY <1>1, <1>2, <2>1, MovesOn DEF Look
<1>4. CASE file[p.dest] = None
    <2>1. PICK q \in ClientRecords :
            /\ q = [p EXCEPT !.step = IF p.op = "move" THEN "put" ELSE "head"]
            /\ q.op = p.op /\ q.dest = p.dest /\ q.src = p.src /\ q.content = p.content
            /\ q.disturbed = p.disturbed
            /\ q.step \in {"put", "head"} /\ (p.op = "move" <=> q.step = "put")
        <3> DEFINE n == [p EXCEPT !.step = IF p.op = "move" THEN "put" ELSE "head"]
        <3>1. /\ n \in ClientRecords
              /\ n.op = p.op /\ n.dest = p.dest /\ n.src = p.src /\ n.content = p.content
              /\ n.disturbed = p.disturbed
              /\ n.step \in {"put", "head"} /\ (p.op = "move" <=> n.step = "put")
            BY DEF ClientRecords
        <3> QED
            BY <3>1
    <2>2. client' = [client EXCEPT ![x] = q]
        BY <1>1, <1>4, <2>1 DEF Look, To
    <2>3. /\ Shaped(q) /\ q.step \notin {"remove", "bytes"} /\ ~Submits(q)
          /\ ~q.disturbed => MoveStands(q) /\ Room(q)
        BY <1>1, <1>2, <2>1 DEF Shaped, Steps, MoveStands, Room, Submits
    <2> QED
        BY <1>1, <1>2, <2>1, <2>2, <2>3, MovesOn DEF Look
<1> QED
    BY <1>3, <1>4

LEMMA HeadReplacedKeeps == ASSUME FilesInv, NEW x \in Clients, HeadReplaced(x) PROVE FilesInv'
<1>1. PICK p \in ClientRecords : p = client[x] /\ p # Calm /\ p.step = "head" /\ Shaped(p)
    BY NotCalm DEF HeadReplaced, On, FilesInv, FilesTyped
<1>2. p.op = "save" /\ p.dest \in Keys /\ ~On(x, "remove") /\ ~On(x, "bytes")
    BY <1>1 DEF Shaped, Steps, On, ClientRecords
<1>3. Bytes(file[p.dest]) \in Nat
    BY <1>2, BytesAre DEF FilesInv, FilesTyped
<1>4. PICK q \in ClientRecords :
        /\ q = [p EXCEPT !.replaced = Bytes(file[p.dest]), !.step = "weigh"]
        /\ q.op = p.op /\ q.dest = p.dest /\ q.step = "weigh" /\ q.replaced = Bytes(file[p.dest])
    <2> DEFINE n == [p EXCEPT !.replaced = Bytes(file[p.dest]), !.step = "weigh"]
    <2>1. /\ n \in ClientRecords
          /\ n.op = p.op /\ n.dest = p.dest /\ n.step = "weigh" /\ n.replaced = Bytes(file[p.dest])
        BY <1>3 DEF ClientRecords
    <2> QED
        BY <2>1
<1>5. client' = [client EXCEPT ![x] = q]
    BY <1>1, <1>4 DEF HeadReplaced
<1>6. Shaped(q) /\ q.step \notin {"remove", "bytes"} /\ ~Submits(q) /\ MoveStands(q) /\ Room(q)
    BY <1>2, <1>4 DEF Shaped, Steps, MoveStands, Room, Submits
<1>7. UNCHANGED <<file, job, asked, halved, squeezed>>
    BY DEF HeadReplaced
<1> QED
    BY <1>1, <1>2, <1>4, <1>5, <1>6, <1>7, MovesOn

LEMMA WeighedFits ==
    ASSUME FilesTyped, NEW r \in Nat, r <= UsageOf(file, job), NEW c \in Contents,
           ~Over(Usage, r, Bytes(c))
    PROVE  /\ UsageOf(file, job) - r + Bytes(c) <= Quota
           /\ r = 0 => UsageOf(file, job) + Bytes(c) <= Quota
<1>1. UsageOf(file, job) \in Nat /\ Bytes(c) \in Nat
    BY TotalsTyped, BytesAre, KeysFinite DEF FilesTyped
<1>2. UsageOf(file, job) - r + Bytes(c) <= Quota
    BY <1>1, UsageIs, Fits
<1>3. Quota \in Nat
    BY FilesAssumption DEF FilesAssumption
<1> QED
    BY <1>1, <1>2, <1>3

\* What is replaced is part of what is there.
LEMMA ReplacedIsUsed ==
    ASSUME FilesTyped, NEW k \in Keys PROVE Bytes(file[k]) <= UsageOf(file, job)
<1>1. Bytes(file[k]) <= FilesTotal(file, Keys)
    BY OneFile DEF FilesTyped
<1>2. FilesTotal(file, Keys) \in Nat /\ Charges(job) \in Nat
    BY TotalsTyped, KeysFinite DEF FilesTyped
<1>3. Bytes(file[k]) \in Nat
    BY BytesAre DEF FilesTyped
<1> QED
    BY <1>1, <1>2, <1>3 DEF UsageOf

LEMMA WeighKeeps == ASSUME FilesInv, NEW x \in Clients, Weigh(x) PROVE FilesInv'
<1>1. PICK p \in ClientRecords : p = client[x] /\ p # Calm /\ p.step = "weigh" /\ Shaped(p)
                                 /\ (~p.disturbed => Room(p))
                                 /\ (Submits(p) => RowFits(p))
    BY NotCalm DEF Weigh, On, FilesInv, FilesTyped, Undisturbed, Submissions
<1>2. p.op # "move" /\ ~On(x, "remove") /\ ~On(x, "bytes")
    BY <1>1 DEF Shaped, Steps, On
<1>3. CASE Over(Usage, p.replaced, Bytes(p.content))
    <2>1. client' = [client EXCEPT ![x] = Calm]
        BY <1>1, <1>3 DEF Weigh, Done
    <2> QED
        BY <1>1, <1>2, <2>1, MovesOn DEF Weigh
<1>4. CASE ~Over(Usage, p.replaced, Bytes(p.content))
    <2>1. PICK q \in ClientRecords :
            /\ q = [p EXCEPT !.step = IF p.op = "save" THEN "put" ELSE "insert"]
            /\ q.op = p.op /\ q.dest = p.dest /\ q.replaced = p.replaced /\ q.content = p.content
            /\ q.disturbed = p.disturbed
            /\ q.step \in {"put", "insert"} /\ (p.op = "save" <=> q.step = "put")
        <3> DEFINE n == [p EXCEPT !.step = IF p.op = "save" THEN "put" ELSE "insert"]
        <3>1. /\ n \in ClientRecords
              /\ n.op = p.op /\ n.dest = p.dest /\ n.replaced = p.replaced /\ n.content = p.content
              /\ n.disturbed = p.disturbed
              /\ n.step \in {"put", "insert"} /\ (p.op = "save" <=> n.step = "put")
            BY DEF ClientRecords
        <3> QED
            BY <3>1
    <2>2. client' = [client EXCEPT ![x] = q]
        BY <1>1, <1>4, <2>1 DEF Weigh, To
    <2>3. /\ Shaped(q) /\ q.step \notin {"remove", "bytes"}
          /\ Submits(q) => RowFits(q)
          /\ MoveStands(q)
        BY <1>1, <1>2, <2>1 DEF Shaped, Steps, MoveStands, Submits, RowFits, ClientRecords
    <2>4. ASSUME ~q.disturbed PROVE Room(q)
        <3>1. p.replaced \in Nat /\ p.content \in Contents
            BY DEF ClientRecords
        <3>2. p.op = "save" => p.replaced = Bytes(file[p.dest]) /\ p.dest \in Keys
            BY <1>1, <2>1, <2>4 DEF Room, Shaped
        <3>3. p.op = "save" => p.replaced <= UsageOf(file, job)
            BY <3>2, ReplacedIsUsed DEF FilesInv
        <3>4. p.op = "create" => p.replaced = 0
            BY <1>1 DEF Shaped, Submits
        <3>5. p.op = "save" => UsageOf(file, job) - p.replaced + Bytes(p.content) <= Quota
            BY <1>4, <3>1, <3>3, WeighedFits DEF FilesInv
        <3>6. p.op = "create" => UsageOf(file, job) + Bytes(p.content) <= Quota
            <4>1. 0 \in Nat /\ 0 <= UsageOf(file, job)
                BY TotalsTyped, KeysFinite DEF FilesInv, FilesTyped
            <4> QED
                BY <1>4, <3>1, <3>4, <4>1, WeighedFits DEF FilesInv
        <3> QED
            BY <2>1, <3>2, <3>5, <3>6 DEF Room
    <2>5. UNCHANGED <<file, job, asked, halved, squeezed>>
        BY DEF Weigh
    <2> QED
        BY <1>1, <1>2, <2>1, <2>2, <2>3, <2>4, <2>5, MovesOn
<1> QED
    BY <1>3, <1>4

LEMMA AbortKeeps == ASSUME FilesInv, NEW x \in Clients, Abort(x) PROVE FilesInv'
<1>1. halved' \in BOOLEAN /\ (halved => halved') /\ asked' \in Nat
    BY DEF Abort, FilesInv, FilesTyped
<1>2. ~halved' => ~On(x, "remove") /\ ~On(x, "bytes")
    BY DEF Abort, On
<1> QED
    BY <1>1, <1>2, OwnStep DEF Abort, Done

----------------------------------------------------------------------------
(* Steps that write *)

\* The requests a write comes in the way of are disturbed, and nothing else.
LEMMA DisturbIs ==
    ASSUME FilesTyped, NEW x, NEW q \in ClientRecords \cup {Calm}, NEW hit \in SUBSET Asking,
           Disturb(x, q, hit)
    PROVE  /\ client' \in [Clients -> ClientRecords \cup {Calm}]
           /\ x \in Clients => client'[x] = q
           /\ \A y \in Clients \ {x} :
                /\ client[y] = Calm => client'[y] = Calm
                /\ client[y] # Calm =>
                     /\ client[y] \in ClientRecords /\ client'[y] \in ClientRecords
                     /\ client'[y] # Calm
                     /\ ~client'[y].disturbed => y \notin hit /\ client'[y] = client[y]
                     /\ client'[y].op = client[y].op /\ client'[y].step = client[y].step
                     /\ client'[y].src = client[y].src /\ client'[y].dest = client[y].dest
                     /\ client'[y].content = client[y].content
                     /\ client'[y].replaced = client[y].replaced
<1>1. ASSUME NEW y \in Clients \ {x}, client[y] # Calm
      PROVE  /\ client[y] \in ClientRecords /\ client'[y] \in ClientRecords
             /\ client'[y] # Calm
             /\ ~client'[y].disturbed => y \notin hit /\ client'[y] = client[y]
             /\ client'[y].op = client[y].op /\ client'[y].step = client[y].step
             /\ client'[y].src = client[y].src /\ client'[y].dest = client[y].dest
             /\ client'[y].content = client[y].content
             /\ client'[y].replaced = client[y].replaced
    <2>1. PICK p \in ClientRecords : p = client[y]
        BY <1>1 DEF FilesTyped
    <2>2. client'[y] = IF y \in hit THEN [p EXCEPT !.disturbed = TRUE] ELSE p
        BY <1>1, <2>1 DEF Disturb
    <2> DEFINE n == [p EXCEPT !.disturbed = TRUE]
    <2>3. /\ n \in ClientRecords /\ n.disturbed /\ n.op = p.op /\ n.step = p.step /\ n.src = p.src
          /\ n.dest = p.dest /\ n.content = p.content /\ n.replaced = p.replaced
        BY DEF ClientRecords
    <2> HIDE DEF n
    <2>4. client'[y] = IF y \in hit THEN n ELSE p
        BY <2>2 DEF n
    <2>5. CASE y \in hit
        BY <2>1, <2>3, <2>4, <2>5, NotCalm
    <2>6. CASE y \notin hit
        BY <2>1, <2>4, <2>6, NotCalm
    <2> QED
        BY <2>5, <2>6
<1>2. \A y \in Clients \ {x} : client[y] = Calm => client'[y] = Calm
    BY DEF Disturb, Asking
<1>3. x \in Clients => client'[x] = q
    BY DEF Disturb
<1>4. client' \in [Clients -> ClientRecords \cup {Calm}]
    <2>1. client' = [y \in Clients |-> client'[y]]
        BY DEF Disturb
    <2>2. \A y \in Clients : client'[y] \in ClientRecords \cup {Calm}
        BY <1>1, <1>2, <1>3
    <2> QED
        BY <2>1, <2>2
<1> QED
    BY <1>1, <1>2, <1>3, <1>4

LEMMA WriteTyped ==
    ASSUME FilesTyped, NEW x, NEW q \in ClientRecords \cup {Calm}, NEW hit \in SUBSET Asking,
           Disturb(x, q, hit),
           file' \in [Keys -> Contents \cup {None}], job' \in [Jobs -> JobRow \cup {None}],
           UNCHANGED <<asked, halved>>, squeezed' \in BOOLEAN, q # Calm => Shaped(q)
    PROVE  FilesTyped'
<1>1. \A y \in Clients \ {x} : client'[y] # Calm => Shaped(client'[y])
    <2>1. ASSUME NEW y \in Clients \ {x}, client'[y] # Calm PROVE Shaped(client'[y])
        <3>1. client[y] # Calm /\ Shaped(client[y])
            BY <2>1, DisturbIs DEF FilesTyped
        <3> QED
            BY <2>1, <3>1, DisturbIs DEF Shaped, Submits
    <2> QED
        BY <2>1
<1>2. ASSUME NEW y \in Clients, y = x, client'[y] # Calm PROVE Shaped(client'[y])
    <2>1. client'[x] = q
        BY <1>2, DisturbIs
    <2> QED
        BY <1>2, <2>1
<1>3. \A y \in Clients : client'[y] # Calm => Shaped(client'[y])
    BY <1>1, <1>2
<1> QED
    BY <1>3, DisturbIs DEF FilesTyped, Shaped, Submits

\* What remains to be shown of a write: the row of its job, the charges, and
\* the quota.
LEMMA WriteStep ==
    ASSUME FilesInv, NEW x, NEW q \in ClientRecords \cup {Calm}, NEW hit \in SUBSET Asking,
           Disturb(x, q, hit), FilesTyped',
           x \in Clients /\ q # Calm =>
             /\ client[x] # Calm /\ q.op = client[x].op /\ q.dest = client[x].dest
             /\ Submits(q) => RowFits(q)'
             /\ ~q.disturbed => (MoveStands(q) /\ Room(q))',
           \A y \in Clients \ {x} :
             client[y] # Calm /\ Submits(client[y]) => job'[client[y].dest] = job[client[y].dest],
           \A y \in Asking \ ({x} \cup hit) :
             ~client[y].disturbed /\ client'[y] = client[y] =>
               (MoveStands(client[y]) /\ Room(client[y]))',
           Charged', QuotaKept'
    PROVE  FilesInv'
<1>1. FilesTyped
    BY DEF FilesInv
<1>2. ASSUME NEW y \in Clients, client'[y] # Calm, Submits(client'[y])
      PROVE  /\ client[y] # Calm /\ Submits(client[y]) /\ client[y].dest = client'[y].dest
             /\ (RowFits(client[y]))'
    <2>1. CASE y = x
        <3>1. client'[y] = q /\ q # Calm /\ Submits(q) /\ client[y] # Calm /\ Submits(client[y])
              /\ client[y].dest = q.dest /\ RowFits(q)'
            BY <1>1, <1>2, <2>1, DisturbIs DEF Submits
        <3> QED
            BY <3>1 DEF RowFits
    <2>2. CASE y # x
        <3>1. client[y] # Calm /\ Submits(client[y]) /\ client[y].dest = client'[y].dest
              /\ client'[y].op = client[y].op /\ client'[y].step = client[y].step
              /\ client'[y].content = client[y].content
            BY <1>1, <1>2, <2>2, DisturbIs DEF Submits
        <3>2. RowFits(client[y]) /\ job'[client[y].dest] = job[client[y].dest]
            BY <2>2, <3>1 DEF FilesInv, Submissions
        <3> QED
            BY <3>1, <3>2 DEF RowFits
    <2> QED
        BY <2>1, <2>2
<1>3. Submissions'
    <2>1. \A y \in Clients : client'[y] # Calm /\ Submits(client'[y]) => (RowFits(client[y]))'
        BY <1>2
    <2>2. \A y, z \in Clients :
            /\ client'[y] # Calm /\ Submits(client'[y])
            /\ client'[z] # Calm /\ Submits(client'[z]) /\ client'[y].dest = client'[z].dest
            => y = z
        BY <1>2 DEF FilesInv, Submissions
    <2> QED
        BY <2>1, <2>2 DEF Submissions, Submits, RowFits
<1>4. Undisturbed'
    <2>1. ASSUME NEW y \in Clients, client'[y] # Calm, ~client'[y].disturbed, y = x
          PROVE  (MoveStands(q) /\ Room(q))' /\ client'[y] = q
        BY <1>1, <2>1, DisturbIs
    <2>2. ASSUME NEW y \in Clients, client'[y] # Calm, ~client'[y].disturbed, y # x
          PROVE  (MoveStands(client[y]) /\ Room(client[y]))' /\ client'[y] = client[y]
        <3>0. y \in Clients \ {x}
            BY <2>2
        <3>1. client[y] # Calm /\ y \notin hit /\ client'[y] = client[y]
            BY <1>1, <2>2, <3>0, DisturbIs
        <3> QED
            BY <2>2, <3>1 DEF Asking
    <2> QED
        BY <2>1, <2>2 DEF Undisturbed, MoveStands, Room
<1> QED
    BY <1>3, <1>4 DEF FilesInv

\* Those a write leaves alone: moves of other files, if it adds; and whoever
\* does not replace what goes, if it takes away.
LEMMA AddingStands ==
    ASSUME FilesInv, NEW k, NEW hit, Weighing \subseteq hit,
           \A l \in Keys : file'[l] = file[l] \/ (l = k /\ Moving(k) \subseteq hit),
           NEW y \in Asking, y \notin hit, ~client[y].disturbed, client'[y] = client[y]
    PROVE  (MoveStands(client[y]) /\ Room(client[y]))'
<1>1. PICK p \in ClientRecords : p = client[y] /\ Shaped(p) /\ MoveStands(p)
    BY DEF Asking, FilesInv, FilesTyped, Undisturbed
<1>2. p.op = "move" /\ p.src \in Keys /\ p.dest \in Keys
    BY <1>1, KeysFinite DEF Weighing, Shaped
<1>3. file'[p.src] = file[p.src] /\ file'[p.dest] = file[p.dest] /\ client'[y] = p
    BY <1>1, <1>2 DEF Moving
<1> QED
    BY <1>1, <1>2, <1>3 DEF MoveStands, Room

\* Which files are moved half way, after a write.
LEMMA HalfMovedIs ==
    ASSUME FilesTyped, NEW x, NEW q \in ClientRecords \cup {Calm}, NEW hit \in SUBSET Asking,
           Disturb(x, q, hit)
    PROVE  /\ (x \in Clients => ~On(x, "remove") /\ (q = Calm \/ q.step # "remove"))
                => HalfMoved(client') = HalfMoved(client)
           /\ x \in Clients /\ ~On(x, "remove") /\ q # Calm /\ q.step = "remove"
                => HalfMoved(client') = HalfMoved(client) \cup {q.src}
           /\ x \in Clients /\ On(x, "remove") /\ q = Calm
                => /\ client[x].src \in HalfMoved(client)
                   /\ HalfMoved(client') \subseteq HalfMoved(client)
                   /\ HalfMoved(client) \subseteq HalfMoved(client') \cup {client[x].src}
<1> DEFINE At(C, y) == C[y] # Calm /\ C[y].step = "remove"
<1>1. \A y \in Clients \ {x} :
        /\ At(client', y) <=> At(client, y)
        /\ At(client, y) => client'[y].src = client[y].src
    BY DisturbIs
<1>2. x \in Clients => client'[x] = q /\ (On(x, "remove") <=> At(client, x))
    BY DisturbIs DEF On
<1>3. \A k : k \in HalfMoved(client) <=> \E y \in Clients : At(client, y) /\ client[y].src = k
    BY DEF HalfMoved
<1>4. \A k : k \in HalfMoved(client') <=> \E y \in Clients : At(client', y) /\ client'[y].src = k
    BY DEF HalfMoved
<1>5. ASSUME x \in Clients => ~On(x, "remove") /\ (q = Calm \/ q.step # "remove")
      PROVE  HalfMoved(client') = HalfMoved(client)
    <2>1. \A y \in Clients : At(client', y) <=> At(client, y)
        BY <1>1, <1>2, <1>5
    <2>2. \A y \in Clients : At(client, y) => client'[y].src = client[y].src
        BY <1>1, <1>2, <1>5
    <2> HIDE DEF At
    <2>3. \A k : k \in HalfMoved(client') <=> k \in HalfMoved(client)
        BY <1>3, <1>4, <2>1, <2>2
    <2> QED
        BY <2>3
<1>6. ASSUME x \in Clients, ~On(x, "remove"), q # Calm, q.step = "remove"
      PROVE  HalfMoved(client') = HalfMoved(client) \cup {q.src}
    <2>1. At(client', x) /\ ~At(client, x) /\ client'[x].src = q.src
        BY <1>2, <1>6
    <2> HIDE DEF At
    <2>3. \A k : k \in HalfMoved(client') <=> k \in HalfMoved(client) \/ k = q.src
        BY <1>1, <1>3, <1>4, <2>1, <1>6
    <2> QED
        BY <2>3
<1>7. ASSUME x \in Clients, On(x, "remove"), q = Calm
      PROVE  /\ client[x].src \in HalfMoved(client)
             /\ HalfMoved(client') \subseteq HalfMoved(client)
             /\ HalfMoved(client) \subseteq HalfMoved(client') \cup {client[x].src}
    <2>1. ~At(client', x) /\ At(client, x)
        BY <1>2, <1>7
    <2> HIDE DEF At
    <2> QED
        BY <1>1, <1>3, <1>4, <2>1, <1>7
<1> QED
    BY <1>5, <1>6, <1>7

\* A submission that has its charge to write still has it.
LEMMA StillToCharge ==
    ASSUME FilesTyped, NEW x, NEW q \in ClientRecords \cup {Calm}, NEW hit \in SUBSET Asking,
           Disturb(x, q, hit),
           NEW y \in Clients, y # x, On(y, "bytes")
    PROVE  (On(y, "bytes"))' /\ client'[y].dest = client[y].dest
<1>1. y \in Clients \ {x} /\ client[y] # Calm /\ client[y].step = "bytes"
    BY DEF On
<1>2. client'[y] # Calm /\ client'[y].step = client[y].step /\ client'[y].dest = client[y].dest
    BY <1>1, DisturbIs
<1> QED
    BY <1>1, <1>2 DEF On

\* Charges stay right where a write leaves the rows alone.
LEMMA ChargedStays ==
    ASSUME FilesInv, NEW x, NEW q \in ClientRecords \cup {Calm}, NEW hit \in SUBSET Asking,
           Disturb(x, q, hit),
           job' = job, halved' = halved, x \in Clients => ~On(x, "bytes")
    PROVE  Charged'
<1>1. SUFFICES ASSUME ~halved, NEW j \in Jobs, job[j] # None, job[j].bytes # Bytes(job[j].input)
               PROVE  \E y \in Clients : (On(y, "bytes"))' /\ client'[y].dest = j
    BY DEF Charged
<1>2. PICK y \in Clients : On(y, "bytes") /\ client[y].dest = j
    BY <1>1 DEF FilesInv, Charged
<1>3. y # x
    BY <1>2
<1> QED
    BY <1>2, <1>3, StillToCharge DEF FilesInv

LEMMA PutKeeps == ASSUME FilesInv, NEW x \in Clients, Put(x) PROVE FilesInv'
<1>1. PICK p \in ClientRecords : p = client[x] /\ p # Calm /\ p.step = "put" /\ Shaped(p)
                                 /\ (~p.disturbed => MoveStands(p) /\ Room(p))
    BY NotCalm DEF Put, On, FilesInv, FilesTyped, Undisturbed
<1>2. /\ p.op \in {"save", "move"} /\ ~On(x, "remove") /\ ~On(x, "bytes")
      /\ p.dest \in Keys /\ p.content \in Contents /\ p.replaced \in Nat
      /\ p.op = "move" => p.src \in Keys
    BY <1>1, KeysFinite DEF Shaped, Steps, On, ClientRecords
<1> DEFINE hit == Weighing \cup Moving(p.dest)
<1>0. hit \in SUBSET Asking
    BY DEF Weighing, Moving
<1>3. PICK q \in ClientRecords \cup {Calm} :
        /\ Disturb(x, q, hit)
        /\ q # Calm => /\ p.op = "move" /\ p.src # p.dest /\ q.op = p.op /\ q.step = "remove"
                       /\ q.src = p.src /\ q.dest = p.dest /\ q.content = p.content
        /\ q = Calm => p.op = "save" \/ p.src = p.dest
    <2>1. CASE Leaves(p)
        <3> DEFINE n == [p EXCEPT !.step = "remove"]
        <3>1. /\ n \in ClientRecords /\ n.op = p.op /\ n.step = "remove"
              /\ n.src = p.src /\ n.dest = p.dest /\ n.content = p.content
            BY DEF ClientRecords
        <3>2. Disturb(x, n, hit)
            BY <1>1, <2>1 DEF Put
        <3> QED
            BY <2>1, <3>1, <3>2, NotCalm DEF Leaves
    <2>2. CASE ~Leaves(p)
        <3>1. Disturb(x, Calm, hit)
            BY <1>1, <2>2 DEF Put
        <3> QED
            BY <1>2, <2>2, <3>1 DEF Leaves
    <2> QED
        BY <2>1, <2>2
<1>4. /\ file' = [file EXCEPT ![p.dest] = p.content] /\ file' \in [Keys -> Contents \cup {None}]
      /\ job' = job /\ UNCHANGED <<asked, halved>>
      /\ squeezed' = (squeezed \/ p.disturbed \/ (p.op = "save" /\ Uncounted) \/ MovedToo(p)) /\ squeezed' \in BOOLEAN
      /\ file'[p.dest] = p.content
    <2>1. file \in [Keys -> Contents \cup {None}] /\ squeezed \in BOOLEAN
        BY DEF FilesInv, FilesTyped
    <2>2. /\ file' = [file EXCEPT ![p.dest] = p.content] /\ job' = job /\ UNCHANGED <<asked, halved>>
          /\ squeezed' = (squeezed \/ p.disturbed \/ (p.op = "save" /\ Uncounted) \/ MovedToo(p))
        BY <1>1 DEF Put, Written
    <2>3. p.disturbed \in BOOLEAN
        BY DEF ClientRecords
    <2> QED
        BY <1>2, <2>1, <2>2, <2>3
<1>5. q # Calm => Shaped(q)
    BY <1>1, <1>3 DEF Shaped, Steps, Submits
<1>12. \A y \in Asking \ ({x} \cup hit) :
         ~client[y].disturbed /\ client'[y] = client[y] => (MoveStands(client[y]) /\ Room(client[y]))'
    <2>1. \A l \in Keys : file'[l] = file[l] \/ l = p.dest
        BY <1>4 DEF FilesInv, FilesTyped
    <2> QED
        BY <2>1, AddingStands
<1> HIDE DEF hit
<1>6. FilesTyped'
    BY <1>0, <1>3, <1>4, <1>5, WriteTyped DEF FilesInv, FilesTyped
<1>7. Charged'
    BY <1>0, <1>2, <1>3, <1>4, ChargedStays
<1>8. QuotaKept'
    <2>1. SUFFICES ASSUME ~squeezed', ~halved' PROVE Kept' <= Quota
        BY DEF QuotaKept
    <2>2. /\ ~squeezed /\ ~halved /\ ~p.disturbed /\ (p.op = "save" => ~Uncounted) /\ ~MovedToo(p)
          /\ Kept <= Quota
        BY <1>4, <2>1 DEF FilesInv, QuotaKept
    <2>3. PICK F \in [Keys -> Contents \cup {None}] : F = file
        BY DEF FilesInv, FilesTyped
    <2>4. PICK S \in SUBSET Keys : S = Keys \ HalfMoved(client)
        BY Zenon
    <2>5. PICK R \in SUBSET Keys : R = Keys \ HalfMoved(client')
        BY Zenon
    <2>6. PICK inputs \in Nat : inputs = Inputs(job)
        BY TotalsTyped, KeysFinite DEF FilesInv, FilesTyped
    <2>7. Kept = FilesTotal(F, S) + inputs /\ Kept' = FilesTotal(file', R) + inputs
        BY <1>4, <1>6, <2>3, <2>4, <2>5, <2>6, KeptIs, KeptIsNext DEF FilesInv, KeptOf
    <2>8. Bytes(p.content) \in Nat /\ Bytes(F[p.dest]) \in Nat /\ Quota \in Nat
        BY <1>2, BytesAre, FilesAssumption DEF FilesAssumption
    <2>9. \A T \in SUBSET Keys :
             /\ p.dest \notin T => FilesTotal(file', T) = FilesTotal(F, T)
             /\ p.dest \in T =>
                  FilesTotal(file', T) = FilesTotal(F, T) - Bytes(F[p.dest]) + Bytes(p.content)
        <3>1. PICK k \in Keys, c \in Contents \cup {None} : k = p.dest /\ c = p.content
            BY <1>2
        <3>2. file' = [F EXCEPT ![k] = c]
            BY <1>4, <2>3, <3>1
        <3>3. Rewrites(file', F, k, c)
            BY <3>2 DEF Rewrites
        <3> QED
            BY <3>1, <3>3, WriteCounts
    <2>10. CASE p.op = "save"
        <3>1. UsageOf(file, job) - Bytes(file[p.dest]) + Bytes(p.content) <= Quota
            BY <1>1, <2>2, <2>10 DEF Room
        <3>2. PICK charges \in Nat : charges = Charges(job) /\ inputs <= charges
            BY <2>2, <2>6, <2>10, InputsAreCharged, TotalsTyped, KeysFinite DEF FilesInv, FilesTyped
        <3>3. PICK all \in Nat : all = FilesTotal(F, Keys)
            BY TotalsTyped, KeysFinite DEF FilesInv, FilesTyped
        <3>4. UsageOf(file, job) = all + charges
            BY <2>3, <3>2, <3>3 DEF UsageOf
        <3>5. FilesTotal(file', Keys) = all - Bytes(F[p.dest]) + Bytes(p.content)
            BY <1>2, <2>9, <3>3
        <3>6. PICK left \in Nat : left = FilesTotal(file', R) /\ left <= FilesTotal(file', Keys)
            BY <1>4, TotalsTyped DEF FilesInv, FilesTyped
        <3> QED
            BY <2>3, <2>7, <2>8, <3>1, <3>2, <3>4, <3>5, <3>6
    <2>11. CASE p.op = "move" /\ p.src = p.dest
        <3>1. q = Calm
            BY <1>3, <2>11
        <3>2. HalfMoved(client') = HalfMoved(client)
            BY <1>0, <1>2, <1>3, <3>1, HalfMovedIs DEF FilesInv
        <3>3. file[p.dest] = p.content
            BY <1>1, <2>2, <2>11 DEF MoveStands
        <3>4. file' = F
            BY <1>2, <1>4, <2>3, <3>3
        <3> QED
            BY <2>2, <2>4, <2>5, <2>7, <3>2, <3>4
    <2>12. CASE p.op = "move" /\ p.src # p.dest
        <3>1. q # Calm /\ q.src = p.src /\ q.step = "remove"
            BY <1>3, <2>12
        <3>2. HalfMoved(client') = HalfMoved(client) \cup {p.src}
            BY <1>0, <1>2, <1>3, <3>1, HalfMovedIs DEF FilesInv
        <3>3. p.src \notin HalfMoved(client)
            BY <2>2, <2>12 DEF MovedToo, HalfMoved, On
        <3>4. p.src \in S /\ R = S \ {p.src}
            BY <1>2, <2>4, <2>5, <2>12, <3>2, <3>3
        <3>5. F[p.src] = p.content
            BY <1>1, <2>2, <2>3, <2>12 DEF MoveStands
        <3>6. FilesTotal(F, R) = FilesTotal(F, S) - Bytes(p.content)
            BY <1>2, <2>12, <3>4, <3>5, OneFile
        <3>7. p.dest \in R => FilesTotal(file', R) = FilesTotal(F, R) - Bytes(F[p.dest]) + Bytes(p.content)
            BY <2>5, <2>9
        <3>8. p.dest \notin R => FilesTotal(file', R) = FilesTotal(F, R)
            BY <2>5, <2>9
        <3>9. PICK before \in Nat : before = FilesTotal(F, S)
            BY TotalsTyped DEF FilesInv, FilesTyped
        <3>10. FilesTotal(file', R) <= before
            BY <2>8, <3>6, <3>7, <3>8, <3>9
        <3>11. PICK after \in Nat : after = FilesTotal(file', R)
            BY <1>4, TotalsTyped DEF FilesInv, FilesTyped
        <3> QED
            BY <2>2, <2>7, <2>8, <3>9, <3>10, <3>11
    <2> QED
        BY <1>2, <2>10, <2>11, <2>12
<1>9. q # Calm => MoveStands(q)' /\ Room(q)' /\ ~Submits(q)
    BY <1>3, <1>4 DEF MoveStands, Room, Submits
<1> QED
    BY <1>0, <1>1, <1>3, <1>4, <1>6, <1>7, <1>8, <1>9, <1>12, WriteStep

\* A file that goes.
LEMMA GoneCounts ==
    ASSUME FilesTyped, NEW k \in Keys, file' = [file EXCEPT ![k] = None], NEW S \in SUBSET Keys
    PROVE  /\ file' \in [Keys -> Contents \cup {None}]
           /\ FilesTotal(file, S) \in Nat /\ FilesTotal(file', S) \in Nat
           /\ FilesTotal(file', S) <= FilesTotal(file, S)
           /\ FilesTotal(file', S) = FilesTotal(file, S \ {k})
<1>1. PICK F \in [Keys -> Contents \cup {None}] : F = file
    BY DEF FilesTyped
<1>2. PICK G \in [Keys -> Contents \cup {None}] : G = file' /\ Rewrites(G, F, k, None)
    <2>1. file' \in [Keys -> Contents \cup {None}] /\ Rewrites(file', F, k, None)
        BY <1>1 DEF Rewrites
    <2> QED
        BY <2>1
<1>3. FilesTotal(F, S) \in Nat /\ FilesTotal(G, S) \in Nat /\ Bytes(F[k]) \in Nat /\ Bytes(None) = 0
    BY TotalsTyped, BytesAre DEF FilesTyped, Bytes
<1>4. None \in Contents \cup {None}
    OBVIOUS
<1>5. CASE k \in S
    <2>1. FilesTotal(G, S) = FilesTotal(F, S) - Bytes(F[k]) + Bytes(None)
        BY <1>2, <1>4, <1>5, WriteCounts
    <2>2. FilesTotal(F, S \ {k}) = FilesTotal(F, S) - Bytes(F[k])
        BY <1>5, OneFile
    <2> QED
        BY <1>1, <1>2, <1>3, <2>1, <2>2
<1>6. CASE k \notin S
    <2>1. FilesTotal(G, S) = FilesTotal(F, S)
        BY <1>2, <1>4, <1>6, WriteCounts
    <2>2. S \ {k} = S
        BY <1>6
    <2> QED
        BY <1>1, <1>2, <1>3, <2>1, <2>2
<1> QED
    BY <1>5, <1>6

LEMMA RemovalStands ==
    ASSUME FilesInv, NEW k \in Keys, file' = [file EXCEPT ![k] = None], job' = job,
           NEW y \in Asking, y \notin Moving(k) \cup Replacing(k), ~client[y].disturbed,
           client'[y] = client[y]
    PROVE  (MoveStands(client[y]) /\ Room(client[y]))'
<1>1. PICK p \in ClientRecords : p = client[y] /\ p = client'[y] /\ Shaped(p) /\ MoveStands(p) /\ Room(p)
    BY DEF Asking, FilesInv, FilesTyped, Undisturbed
<1>2. p.content \in Contents /\ p.op \in {"save", "move", "prompt", "create"}
    BY DEF ClientRecords
<1>3. CASE p.op = "move"
    <2>1. p.src \in Keys /\ p.dest \in Keys /\ p.src # k /\ p.dest # k
        BY <1>1, <1>3, KeysFinite DEF Moving, Shaped
    <2>2. file'[p.src] = file[p.src] /\ file'[p.dest] = file[p.dest]
        BY <2>1 DEF FilesInv, FilesTyped
    <2> QED
        BY <1>1, <1>3, <2>2 DEF MoveStands, Room
<1>4. CASE p.op # "move"
    <2>1. PICK all \in Nat, rest \in Nat, was \in Nat, charges \in Nat, size \in Nat :
            /\ all = FilesTotal(file, Keys) /\ rest = FilesTotal(file', Keys)
            /\ was = Bytes(file[k]) /\ charges = Charges(job) /\ size = Bytes(p.content)
            /\ rest = all - was
        <3>1. FilesTyped /\ Keys \in SUBSET Keys
            BY DEF FilesInv
        <3>2. /\ FilesTotal(file, Keys) \in Nat /\ FilesTotal(file', Keys) \in Nat
              /\ FilesTotal(file', Keys) = FilesTotal(file, Keys \ {k})
            BY <3>1, GoneCounts
        <3>3. FilesTotal(file, Keys \ {k}) = FilesTotal(file, Keys) - Bytes(file[k])
            BY <3>1, OneFile DEF FilesTyped
        <3>4. Bytes(file[k]) \in Nat /\ Bytes(p.content) \in Nat /\ Charges(job) \in Nat
            BY <1>2, <3>1, BytesAre, TotalsTyped, KeysFinite DEF FilesTyped
        <3> QED
            BY <3>2, <3>3, <3>4
    <2>2. PICK used \in Nat, now \in Nat :
            used = UsageOf(file, job) /\ now = UsageOf(file', job') /\ now = used - was
        BY <2>1 DEF UsageOf
    <2>3. Quota \in Nat
        BY FilesAssumption DEF FilesAssumption
    <2>4. used + size <= Quota => now + size <= Quota
        BY <2>1, <2>2, <2>3
    <2>5. CASE p.op # "save"
        BY <1>1, <1>4, <2>1, <2>2, <2>4, <2>5 DEF MoveStands, Room
    <2>6. CASE p.op = "save" /\ p.dest = k
        <3>1. Bytes(file'[k]) = 0 /\ p.step # "weigh"
            BY <1>1, <2>6 DEF Replacing, FilesInv, FilesTyped, Bytes
        <3>2. used - was + size <= Quota => now - 0 + size <= Quota
            BY <2>1, <2>2, <2>3
        <3> QED
            BY <1>1, <2>1, <2>2, <2>6, <3>1, <3>2 DEF MoveStands, Room
    <2>7. CASE p.op = "save" /\ p.dest # k
        <3>1. p.dest \in Keys /\ file'[p.dest] = file[p.dest]
            BY <1>1, <2>7 DEF Shaped, FilesInv, FilesTyped
        <3>2. PICK old \in Nat : old = Bytes(file[p.dest])
            BY <3>1, BytesAre DEF FilesInv, FilesTyped
        <3>3. used - old + size <= Quota => now - old + size <= Quota
            BY <2>1, <2>2, <2>3, <3>2
        <3> QED
            BY <1>1, <2>1, <2>2, <2>7, <3>1, <3>2, <3>3 DEF MoveStands, Room
    <2> QED
        BY <2>5, <2>6, <2>7
<1> QED
    BY <1>3, <1>4

LEMMA RemoveSourceKeeps == ASSUME FilesInv, NEW x \in Clients, RemoveSource(x) PROVE FilesInv'
<1>1. PICK p \in ClientRecords : p = client[x] /\ p # Calm /\ p.step = "remove" /\ Shaped(p)
    BY NotCalm DEF RemoveSource, On, FilesInv, FilesTyped
<1>2. On(x, "remove") /\ ~On(x, "bytes") /\ p.op = "move" /\ p.src \in Keys
    BY <1>1, KeysFinite DEF Shaped, Steps, On, ClientRecords
<1>3. /\ file' = [file EXCEPT ![p.src] = None] /\ job' = job /\ UNCHANGED <<asked, halved, squeezed>>
    BY <1>1 DEF RemoveSource, Written
<1>0. PICK hit \in SUBSET Asking : hit = Moving(p.src) \cup Replacing(p.src) /\ Disturb(x, Calm, hit)
    <2>1. Moving(p.src) \cup Replacing(p.src) \in SUBSET Asking
        BY DEF Moving, Replacing
    <2>2. Disturb(x, Calm, Moving(p.src) \cup Replacing(p.src))
        BY <1>1 DEF RemoveSource
    <2> QED
        BY <2>1, <2>2
<1>4. FilesTyped /\ file' \in [Keys -> Contents \cup {None}] /\ Calm \in ClientRecords \cup {Calm}
    BY <1>2, <1>3, GoneCounts DEF FilesInv
<1>5. FilesTyped'
    BY <1>0, <1>3, <1>4, WriteTyped DEF FilesTyped
<1>6. Charged'
    BY <1>0, <1>2, <1>3, <1>4, ChargedStays
<1>8. \A y \in Asking \ ({x} \cup hit) :
        ~client[y].disturbed /\ client'[y] = client[y] => (MoveStands(client[y]) /\ Room(client[y]))'
    BY <1>0, <1>2, <1>3, RemovalStands
<1>7. QuotaKept'
    <2>1. SUFFICES ASSUME ~squeezed', ~halved' PROVE Kept' <= Quota
        BY DEF QuotaKept
    <2>2. Kept <= Quota
        BY <1>3, <2>1 DEF FilesInv, QuotaKept
    <2>3. PICK S \in SUBSET Keys, R \in SUBSET Keys :
            S = Keys \ HalfMoved(client) /\ R = Keys \ HalfMoved(client')
        BY Zenon
    <2>4. R \ {p.src} = S
        <3>1. /\ p.src \in HalfMoved(client)
              /\ HalfMoved(client') \subseteq HalfMoved(client)
              /\ HalfMoved(client) \subseteq HalfMoved(client') \cup {p.src}
            BY <1>0, <1>1, <1>2, <1>3, <1>4, HalfMovedIs
        <3> QED
            BY <2>3, <3>1
    <2>5. FilesTotal(file', R) = FilesTotal(file, S)
        BY <1>2, <1>3, <1>4, <2>4, GoneCounts
    <2>6. Kept' = Kept
        BY <1>3, <1>4, <1>5, <2>3, <2>5, KeptIs, KeptIsNext DEF KeptOf
    <2> QED
        BY <2>2, <2>6
<1> QED
    BY <1>0, <1>1, <1>3, <1>4, <1>5, <1>6, <1>7, <1>8, WriteStep

LEMMA DeleteKeeps == ASSUME FilesInv, NEW k \in Keys, Delete(k) PROVE FilesInv'
<1>1. /\ file' = [file EXCEPT ![k] = None] /\ job' = job /\ UNCHANGED <<asked, halved, squeezed>>
      /\ None \notin Clients
    BY FilesAssumption DEF Delete, Written, FilesAssumption
<1>0. PICK hit \in SUBSET Asking : hit = Moving(k) \cup Replacing(k) /\ Disturb(None, Calm, hit)
    <2>1. Moving(k) \cup Replacing(k) \in SUBSET Asking
        BY DEF Moving, Replacing
    <2> QED
        BY <2>1 DEF Delete
<1>6. \A y \in Asking \ ({None} \cup hit) :
        ~client[y].disturbed /\ client'[y] = client[y] => (MoveStands(client[y]) /\ Room(client[y]))'
    BY <1>0, <1>1, RemovalStands
<1>2. FilesTyped /\ file' \in [Keys -> Contents \cup {None}] /\ Calm \in ClientRecords \cup {Calm}
    BY <1>1, GoneCounts DEF FilesInv
<1>3. FilesTyped'
    BY <1>0, <1>1, <1>2, WriteTyped DEF FilesTyped
<1>4. Charged'
    BY <1>0, <1>1, <1>2, ChargedStays
<1>5. QuotaKept'
    <2>1. SUFFICES ASSUME ~squeezed', ~halved' PROVE Kept' <= Quota
        BY DEF QuotaKept
    <2>2. Kept <= Quota
        BY <1>1, <2>1 DEF FilesInv, QuotaKept
    <2>3. PICK S \in SUBSET Keys : S = Keys \ HalfMoved(client)
        BY Zenon
    <2>4. HalfMoved(client') = HalfMoved(client)
        BY <1>0, <1>1, <1>2, HalfMovedIs
    <2>5. PICK before \in Nat, after \in Nat :
            before = FilesTotal(file, S) /\ after = FilesTotal(file', S) /\ after <= before
        BY <1>1, <1>2, GoneCounts
    <2>6. PICK inputs \in Nat : inputs = Inputs(job)
        BY <1>2, TotalsTyped, KeysFinite DEF FilesTyped
    <2>7. Kept = before + inputs /\ Kept' = after + inputs
        BY <1>1, <1>2, <1>3, <2>3, <2>4, <2>5, <2>6, KeptIs, KeptIsNext DEF KeptOf
    <2>8. Quota \in Nat
        BY FilesAssumption DEF FilesAssumption
    <2> QED
        BY <2>2, <2>5, <2>7, <2>8
<1> QED
    BY <1>0, <1>1, <1>2, <1>3, <1>4, <1>5, <1>6, WriteStep

\* A row that comes or goes and makes no more of what is used.
LEMMA RowStep ==
    ASSUME FilesInv, NEW x, NEW q \in ClientRecords \cup {Calm},
           client' \in [Clients -> ClientRecords \cup {Calm}], x \in Clients => client'[x] = q,
           \A y \in Clients \ {x} : client'[y] = client[y],
           UNCHANGED <<file, asked, halved, squeezed>>, job' \in [Jobs -> JobRow \cup {None}],
           UsageOf(file, job') <= UsageOf(file, job),
           Inputs(job') <= Inputs(job),
           x \in Clients =>
             /\ q # Calm /\ client[x] # Calm /\ q.op = client[x].op /\ q.dest = client[x].dest
             /\ Shaped(q) /\ q.step # "remove" /\ ~On(x, "remove")
             /\ Submits(q) => RowFits(q)'
             /\ ~q.disturbed => (MoveStands(q) /\ Room(q))',
           \A y \in Clients \ {x} :
             client[y] # Calm /\ Submits(client[y]) => job'[client[y].dest] = job[client[y].dest],
           Charged'
    PROVE  FilesInv'
<1>1. FilesTyped /\ FilesTyped'
    BY DEF FilesInv, FilesTyped, Shaped, Submits
<1>2. ASSUME NEW y \in Clients, client'[y] # Calm, Submits(client'[y])
      PROVE  /\ client[y] # Calm /\ Submits(client[y]) /\ client[y].dest = client'[y].dest
             /\ (RowFits(client[y]))'
    <2>1. CASE y = x
        BY <1>2, <2>1 DEF Submits, RowFits
    <2>2. CASE y # x
        <3>1. client[y] # Calm /\ Submits(client[y]) /\ client'[y] = client[y]
            BY <1>2, <2>2
        <3>2. RowFits(client[y]) /\ job'[client[y].dest] = job[client[y].dest]
            BY <2>2, <3>1 DEF FilesInv, Submissions
        <3> QED
            BY <3>1, <3>2 DEF RowFits
    <2> QED
        BY <2>1, <2>2
<1>3. Submissions'
    <2>1. \A y \in Clients : client'[y] # Calm /\ Submits(client'[y]) => (RowFits(client[y]))'
        BY <1>2
    <2>2. \A y, z \in Clients :
            /\ client'[y] # Calm /\ Submits(client'[y])
            /\ client'[z] # Calm /\ Submits(client'[z]) /\ client'[y].dest = client'[z].dest
            => y = z
        BY <1>2 DEF FilesInv, Submissions
    <2> QED
        BY <2>1, <2>2 DEF Submissions, Submits, RowFits
<1>4. Undisturbed'
    <2>1. ASSUME NEW y \in Clients, client'[y] # Calm, ~client'[y].disturbed
          PROVE  (MoveStands(client[y]) /\ Room(client[y]))'
        <3>1. CASE y = x
            BY <2>1, <3>1 DEF MoveStands, Room
        <3>2. CASE y # x
            <4>1. client'[y] = client[y] /\ client[y] \in ClientRecords
                  /\ MoveStands(client[y]) /\ Room(client[y])
                BY <2>1, <3>2 DEF FilesInv, Undisturbed, FilesTyped
            <4>2. PICK used \in Nat, now \in Nat :
                    used = UsageOf(file, job) /\ now = UsageOf(file, job') /\ now <= used
                BY <1>1, TotalsTyped, KeysFinite DEF FilesTyped
            <4>3. PICK in \in Nat, gone \in Nat :
                    /\ in = Bytes(client[y].content)
                    /\ client[y].op = "save" => gone = Bytes(file[client[y].dest])
                <5>1. Bytes(client[y].content) \in Nat
                    BY <4>1, BytesAre DEF ClientRecords
                <5>2. client[y].op = "save" => Bytes(file[client[y].dest]) \in Nat
                    BY <1>1, <2>1, <3>2, <4>1, BytesAre DEF FilesTyped, Shaped
                <5> QED
                    BY <5>1, <5>2
            <4>4. Quota \in Nat
                BY FilesAssumption DEF FilesAssumption
            <4>5. used - gone + in <= Quota => now - gone + in <= Quota
                BY <4>2, <4>3, <4>4
            <4>6. used + in <= Quota => now + in <= Quota
                BY <4>2, <4>3, <4>4
            <4> QED
                BY <4>1, <4>2, <4>3, <4>5, <4>6 DEF MoveStands, Room
        <3> QED
            BY <3>1, <3>2
    <2> QED
        BY <2>1 DEF Undisturbed, MoveStands, Room
<1>5. QuotaKept'
    <2>1. SUFFICES ASSUME ~squeezed', ~halved' PROVE Kept' <= Quota
        BY DEF QuotaKept
    <2>2. Kept <= Quota
        BY <2>1 DEF FilesInv, QuotaKept
    <2>3. HalfMoved(client') = HalfMoved(client)
        <3>1. \A y \in Clients :
                (client'[y] # Calm /\ client'[y].step = "remove")
                  <=> (client[y] # Calm /\ client[y].step = "remove")
            BY DEF On
        <3>2. \A y \in Clients :
                client[y] # Calm /\ client[y].step = "remove" => client'[y].src = client[y].src
            BY DEF On
        <3> QED
            BY <3>1, <3>2 DEF HalfMoved
    <2>4. PICK S \in SUBSET Keys : S = Keys \ HalfMoved(client)
        BY Zenon
    <2>5. PICK left \in Nat : left = FilesTotal(file, S)
        BY <1>1, TotalsTyped DEF FilesTyped
    <2>6. PICK inputs \in Nat, after \in Nat :
            /\ inputs = Inputs(job)
            /\ after = Inputs(job') /\ after <= inputs
        BY <1>1, TotalsTyped, KeysFinite DEF FilesTyped
    <2>7. Kept = left + inputs /\ Kept' = left + after
        BY <1>1, <2>3, <2>4, <2>5, <2>6, KeptIs, KeptIsNext DEF KeptOf
    <2>8. Quota \in Nat
        BY FilesAssumption DEF FilesAssumption
    <2> QED
        BY <2>2, <2>6, <2>7, <2>8
<1> QED
    BY <1>1, <1>3, <1>4, <1>5 DEF FilesInv

\* What one row changes of the sums.
LEMMA RowCounts ==
    ASSUME FilesTyped, NEW j \in Jobs, NEW r \in JobRow \cup {None}, Rewrites(job', job, j, r)
    PROVE  /\ job' \in [Jobs -> JobRow \cup {None}]
           /\ job'[j] = r /\ \A i \in Jobs \ {j} : job'[i] = job[i]
           /\ ChargesOf(job)[j] = (IF job[j] = None THEN 0 ELSE job[j].bytes)
           /\ ChargesOf(job')[j] = (IF r = None THEN 0 ELSE r.bytes)
           /\ InputsOf(job)[j] = (IF job[j] = None THEN 0
                                  ELSE IF job[j].weighed THEN Bytes(job[j].input) ELSE 0)
           /\ InputsOf(job')[j] = (IF r = None THEN 0
                                   ELSE IF r.weighed THEN Bytes(r.input) ELSE 0)
           /\ Charges(job') = Charges(job) - ChargesOf(job)[j] + ChargesOf(job')[j]
           /\ Inputs(job') = Inputs(job) - InputsOf(job)[j] + InputsOf(job')[j]
           /\ ChargesOf(job)[j] \in Nat /\ InputsOf(job)[j] \in Nat
           /\ ChargesOf(job')[j] \in Nat /\ InputsOf(job')[j] \in Nat
           /\ Charges(job) \in Nat /\ Inputs(job) \in Nat
           /\ Charges(job') \in Nat /\ Inputs(job') \in Nat
<1>1. PICK J \in [Jobs -> JobRow \cup {None}] : J = job
    BY DEF FilesTyped
<1>2. PICK H \in [Jobs -> JobRow \cup {None}] : H = job' /\ Rewrites(H, J, j, r)
    <2>1. job' \in [Jobs -> JobRow \cup {None}]
        BY <1>1 DEF Rewrites
    <2> QED
        BY <1>1, <2>1
<1>3. H[j] = r /\ \A i \in Jobs \ {j} : H[i] = J[i]
    BY <1>2 DEF Rewrites
<1>4. /\ Charges(H) = Charges(J) - ChargesOf(J)[j] + ChargesOf(H)[j]
      /\ Inputs(H) = Inputs(J) - InputsOf(J)[j] + InputsOf(H)[j]
      /\ ChargesOf(J)[j] \in Nat /\ InputsOf(J)[j] \in Nat
      /\ ChargesOf(H)[j] \in Nat /\ InputsOf(H)[j] \in Nat
    BY <1>2, RowChanges
<1>5. /\ Charges(J) \in Nat /\ Inputs(J) \in Nat
      /\ Charges(H) \in Nat /\ Inputs(H) \in Nat
    BY TotalsTyped, KeysFinite DEF FilesTyped
<1>6. /\ ChargesOf(J)[j] = (IF J[j] = None THEN 0 ELSE J[j].bytes)
      /\ InputsOf(J)[j] = (IF J[j] = None THEN 0
                           ELSE IF J[j].weighed THEN Bytes(J[j].input) ELSE 0)
      /\ ChargesOf(H)[j] = (IF r = None THEN 0 ELSE r.bytes)
      /\ InputsOf(H)[j] = (IF r = None THEN 0 ELSE IF r.weighed THEN Bytes(r.input) ELSE 0)
    BY <1>3 DEF ChargesOf, InputsOf
<1>7. /\ Charges(job') = Charges(job) - ChargesOf(job)[j] + ChargesOf(job')[j]
      /\ Inputs(job') = Inputs(job) - InputsOf(job)[j] + InputsOf(job')[j]
      /\ ChargesOf(job)[j] \in Nat /\ InputsOf(job)[j] \in Nat
      /\ ChargesOf(job')[j] \in Nat /\ InputsOf(job')[j] \in Nat
      /\ Charges(job) \in Nat /\ Inputs(job) \in Nat
      /\ Charges(job') \in Nat /\ Inputs(job') \in Nat
    BY <1>1, <1>2, <1>4, <1>5, Zenon
<1> QED
    BY <1>1, <1>2, <1>3, <1>6, <1>7, Zenon

LEMMA NotARow == None \notin JobRow
PROOF BY FilesAssumption DEF FilesAssumption, JobRow

LEMMA InsertKeeps == ASSUME FilesInv, NEW x \in Clients, Insert(x) PROVE FilesInv'
<1>1. PICK p \in ClientRecords : p = client[x] /\ p # Calm /\ p.step = "insert" /\ Shaped(p)
                                 /\ (~p.disturbed => MoveStands(p) /\ Room(p))
                                 /\ (Submits(p) => RowFits(p))
    BY NotCalm DEF Insert, On, FilesInv, FilesTyped, Undisturbed, Submissions
<1>2. /\ p.op \in {"prompt", "create"} /\ Submits(p) /\ p.dest \in Jobs /\ job[p.dest] = None
      /\ ~On(x, "remove") /\ ~On(x, "bytes")
    BY <1>1 DEF Shaped, Steps, On, ClientRecords, Submits, RowFits
<1>3. PICK r \in JobRow : r = [input |-> None, bytes |-> 0, weighed |-> p.op = "create"]
                          /\ r.input = None /\ r.bytes = 0 /\ r # None
    <2> DEFINE n == [input |-> None, bytes |-> 0, weighed |-> p.op = "create"]
    <2>1. n \in JobRow /\ n.input = None /\ n.bytes = 0
        BY DEF JobRow
    <2> QED
        BY <2>1, NotARow
<1>4. PICK q \in ClientRecords :
        /\ q = [p EXCEPT !.step = "copy"]
        /\ q.op = p.op /\ q.dest = p.dest /\ q.step = "copy" /\ q.content = p.content
        /\ q.replaced = p.replaced /\ q.disturbed = p.disturbed
    <2> DEFINE n == [p EXCEPT !.step = "copy"]
    <2>1. /\ n \in ClientRecords /\ n.op = p.op /\ n.dest = p.dest /\ n.step = "copy"
          /\ n.content = p.content /\ n.replaced = p.replaced /\ n.disturbed = p.disturbed
        BY DEF ClientRecords
    <2> QED
        BY <2>1
<1>5. /\ job' = [job EXCEPT ![p.dest] = r] /\ client' = [client EXCEPT ![x] = q]
      /\ UNCHANGED <<file, asked, halved, squeezed>>
    BY <1>1, <1>3, <1>4 DEF Insert, To
<1>6. /\ client' \in [Clients -> ClientRecords \cup {Calm}] /\ client'[x] = q
      /\ \A y \in Clients \ {x} : client'[y] = client[y]
      /\ FilesTyped /\ q # Calm
    BY <1>5, NotCalm DEF FilesInv, FilesTyped
<1>7. /\ job' \in [Jobs -> JobRow \cup {None}] /\ job'[p.dest] = r
      /\ \A i \in Jobs \ {p.dest} : job'[i] = job[i]
      /\ Charges(job') = Charges(job) /\ Inputs(job') = Inputs(job)
      /\ Charges(job) \in Nat /\ Inputs(job) \in Nat
    <2>1. PICK d \in Jobs : d = p.dest
        BY <1>2
    <2>2. Rewrites(job', job, d, r) /\ job[d] = None /\ r # None
        BY <1>2, <1>3, <1>5, <2>1 DEF Rewrites
    <2>3. /\ job' \in [Jobs -> JobRow \cup {None}] /\ job'[d] = r
          /\ \A i \in Jobs \ {d} : job'[i] = job[i]
          /\ ChargesOf(job)[d] = 0 /\ ChargesOf(job')[d] = r.bytes
          /\ InputsOf(job)[d] = 0
          /\ InputsOf(job')[d] = IF r.weighed THEN Bytes(r.input) ELSE 0
          /\ Charges(job') = Charges(job) - ChargesOf(job)[d] + ChargesOf(job')[d]
          /\ Inputs(job') = Inputs(job) - InputsOf(job)[d] + InputsOf(job')[d]
          /\ Charges(job) \in Nat /\ Inputs(job) \in Nat
        BY <1>6, <2>2, RowCounts
    <2>4. ChargesOf(job')[d] = 0 /\ InputsOf(job')[d] = 0
        BY <1>3, <2>3 DEF Bytes
    <2> QED
        BY <2>1, <2>3, <2>4
<1>8. \A y \in Clients \ {x} :
        client[y] # Calm /\ Submits(client[y]) => job'[client[y].dest] = job[client[y].dest]
    <2>1. ASSUME NEW y \in Clients \ {x}, client[y] # Calm, Submits(client[y])
          PROVE  job'[client[y].dest] = job[client[y].dest]
        <3>1. client[y].dest \in Jobs /\ client[y].dest # p.dest
            BY <1>1, <1>2, <2>1 DEF FilesInv, FilesTyped, Shaped, Submissions
        <3> QED
            BY <1>7, <3>1
    <2> QED
        BY <2>1
<1>9. Charged'
    <2>1. SUFFICES ASSUME ~halved, NEW j \in Jobs, job'[j] # None, job'[j].bytes # Bytes(job'[j].input)
                   PROVE  \E y \in Clients : (On(y, "bytes"))' /\ client'[y].dest = j
        BY <1>5 DEF Charged
    <2>2. j # p.dest
        BY <1>3, <1>7, <2>1 DEF Bytes
    <2>3. PICK y \in Clients : On(y, "bytes") /\ client[y].dest = j
        BY <1>7, <2>1, <2>2 DEF FilesInv, Charged
    <2>4. client'[y] = client[y]
        BY <1>2, <1>6, <2>3
    <2> QED
        BY <2>3, <2>4 DEF On
<1>10. UsageOf(file, job') = UsageOf(file, job) /\ UsageOf(file, job) \in Nat
    BY <1>6, <1>7, TotalsTyped, KeysFinite DEF UsageOf, FilesTyped
<1>11. Shaped(q) /\ RowFits(q)'
    BY <1>1, <1>2, <1>3, <1>4, <1>7 DEF Shaped, Steps, Submits, RowFits
<1>12. ~q.disturbed => (MoveStands(q) /\ Room(q))'
    BY <1>1, <1>2, <1>4, <1>5, <1>10 DEF MoveStands, Room
<1>13. /\ FilesInv /\ q \in ClientRecords \cup {Calm} /\ client[x] # Calm
       /\ q.op = client[x].op /\ q.dest = client[x].dest /\ q.step # "remove" /\ ~On(x, "remove")
       /\ UNCHANGED <<file, asked, halved, squeezed>> /\ job' \in [Jobs -> JobRow \cup {None}]
    BY <1>1, <1>2, <1>4, <1>5, <1>7
<1>14. UsageOf(file, job') <= UsageOf(file, job) /\ Inputs(job') <= Inputs(job)
    BY <1>7, <1>10
<1> QED
    BY <1>6, <1>8, <1>9, <1>11, <1>12, <1>13, <1>14, RowStep

LEMMA SweptKeeps == ASSUME FilesInv, NEW j \in Jobs, Swept(j) PROVE FilesInv'
<1>1. /\ Rewrites(job', job, j, None) /\ UNCHANGED <<file, client, asked, halved, squeezed>>
      /\ Submitted(j) /\ job[j] # None /\ None \notin Clients
    BY FilesAssumption DEF Swept, FilesAssumption, Rewrites
<1>2. /\ client' \in [Clients -> ClientRecords \cup {Calm}]
      /\ \A y \in Clients \ {None} : client'[y] = client[y]
      /\ FilesTyped /\ Calm \in ClientRecords \cup {Calm}
    BY <1>1 DEF FilesInv, FilesTyped
<1>3. /\ job' \in [Jobs -> JobRow \cup {None}] /\ job'[j] = None
      /\ \A i \in Jobs \ {j} : job'[i] = job[i]
      /\ Charges(job') = Charges(job) - ChargesOf(job)[j] + ChargesOf(job')[j]
      /\ Inputs(job') = Inputs(job) - InputsOf(job)[j] + InputsOf(job')[j]
      /\ ChargesOf(job)[j] \in Nat /\ InputsOf(job)[j] \in Nat
      /\ ChargesOf(job')[j] = 0 /\ InputsOf(job')[j] = 0
      /\ Charges(job) \in Nat /\ Inputs(job) \in Nat
    BY <1>1, <1>2, RowCounts
<1>4. Charges(job') <= Charges(job) /\ Inputs(job') <= Inputs(job) /\ Charges(job') \in Int
    BY <1>3
<1>5. UsageOf(file, job') <= UsageOf(file, job)
    <2>1. FilesTotal(file, Keys) \in Nat
        BY <1>2, TotalsTyped, KeysFinite DEF FilesTyped
    <2> QED
        BY <1>3, <1>4, <2>1 DEF UsageOf
<1>6. \A y \in Clients \ {None} :
        client[y] # Calm /\ Submits(client[y]) => job'[client[y].dest] = job[client[y].dest]
    <2>1. ASSUME NEW y \in Clients, client[y] # Calm, Submits(client[y])
          PROVE  job'[client[y].dest] = job[client[y].dest]
        <3>1. client[y].dest \in Jobs /\ client[y].dest # j
            BY <1>1, <2>1 DEF FilesInv, FilesTyped, Shaped, Submitted
        <3> QED
            BY <1>3, <3>1
    <2> QED
        BY <2>1
<1>7. Charged'
    <2>1. SUFFICES ASSUME ~halved, NEW i \in Jobs, job'[i] # None, job'[i].bytes # Bytes(job'[i].input)
                   PROVE  \E y \in Clients : (On(y, "bytes"))' /\ client'[y].dest = i
        BY <1>1 DEF Charged
    <2>2. i # j
        BY <1>3, <2>1
    <2>3. PICK y \in Clients : On(y, "bytes") /\ client[y].dest = i
        BY <1>3, <2>1, <2>2 DEF FilesInv, Charged
    <2> QED
        BY <1>1, <2>3 DEF On
<1> QED
    BY <1>1, <1>2, <1>3, <1>4, <1>5, <1>6, <1>7, RowStep

\* A row that a write of x changes: the other submissions have other rows.
LEMMA OtherRows ==
    ASSUME FilesInv, NEW x \in Clients, client[x] # Calm, Submits(client[x]),
           \A i \in Jobs \ {client[x].dest} : job'[i] = job[i]
    PROVE  \A y \in Clients \ {x} :
             client[y] # Calm /\ Submits(client[y]) => job'[client[y].dest] = job[client[y].dest]
<1>1. ASSUME NEW y \in Clients \ {x}, client[y] # Calm, Submits(client[y])
      PROVE  client[y].dest \in Jobs /\ client[y].dest # client[x].dest
    BY <1>1 DEF FilesInv, FilesTyped, Shaped, Submissions
<1> QED
    BY <1>1

LEMMA CopyKeeps == ASSUME FilesInv, NEW x \in Clients, Copy(x) PROVE FilesInv'
<1>1. PICK p \in ClientRecords : p = client[x] /\ p # Calm /\ p.step = "copy" /\ Shaped(p)
                                 /\ (~p.disturbed => Room(p))
                                 /\ (Submits(p) => RowFits(p))
    BY NotCalm DEF Copy, On, FilesInv, FilesTyped, Undisturbed, Submissions
<1>2. /\ p.op \in {"prompt", "create"} /\ Submits(p) /\ p.dest \in Jobs /\ p.content \in Contents
      /\ job[p.dest] = [input |-> None, bytes |-> 0, weighed |-> p.op = "create"]
      /\ ~On(x, "remove") /\ ~On(x, "bytes")
    BY <1>1 DEF Shaped, Steps, On, ClientRecords, Submits, RowFits
<1>3. PICK r \in JobRow : /\ r = [input |-> p.content, bytes |-> 0, weighed |-> p.op = "create"]
                          /\ r.input = p.content /\ r.bytes = 0 /\ (r.weighed <=> p.op = "create")
    <2> DEFINE n == [input |-> p.content, bytes |-> 0, weighed |-> p.op = "create"]
    <2>1. n \in JobRow /\ n.input = p.content /\ n.bytes = 0 /\ (n.weighed <=> p.op = "create")
        BY <1>2 DEF JobRow
    <2> QED
        BY <2>1
<1>4. PICK q \in ClientRecords :
        /\ q = [p EXCEPT !.step = "bytes"]
        /\ q.op = p.op /\ q.dest = p.dest /\ q.step = "bytes" /\ q.content = p.content
        /\ q.replaced = p.replaced /\ q.disturbed = p.disturbed
    <2> DEFINE n == [p EXCEPT !.step = "bytes"]
    <2>1. /\ n \in ClientRecords /\ n.op = p.op /\ n.dest = p.dest /\ n.step = "bytes"
          /\ n.content = p.content /\ n.replaced = p.replaced /\ n.disturbed = p.disturbed
        BY DEF ClientRecords
    <2> QED
        BY <2>1
<1>0. PICK hit \in SUBSET Asking : hit = Weighing
    BY DEF Weighing
<1>5. /\ job' = [job EXCEPT ![p.dest] = r] /\ Disturb(x, q, hit) /\ UNCHANGED <<file, asked, halved>>
      /\ squeezed' = (squeezed \/ (p.op = "create" /\ (p.disturbed \/ Uncounted)))
    <2>1. /\ job' = [job EXCEPT ![p.dest].input = p.content]
          /\ Disturb(x, [p EXCEPT !.step = "bytes"], Weighing) /\ UNCHANGED <<file, asked, halved>>
          /\ squeezed' = (squeezed \/ (p.op = "create" /\ (p.disturbed \/ Uncounted)))
        BY <1>1 DEF Copy
    <2>2. [job[p.dest] EXCEPT !.input = p.content] = r
        BY <1>2, <1>3
    <2> QED
        BY <1>0, <1>4, <2>1, <2>2
<1>6. /\ FilesTyped /\ q \in ClientRecords \cup {Calm} /\ client[x] # Calm /\ q # Calm
      /\ q.op = client[x].op /\ q.dest = client[x].dest /\ Submits(client[x])
      /\ Disturb(x, q, hit) /\ UNCHANGED <<file, asked, halved>> /\ client[x].dest = p.dest
    BY <1>1, <1>2, <1>4, <1>5, NotCalm DEF FilesInv
<1>7. /\ job' \in [Jobs -> JobRow \cup {None}] /\ job'[p.dest] = r
      /\ \A i \in Jobs \ {p.dest} : job'[i] = job[i]
      /\ Charges(job) \in Nat /\ Inputs(job) \in Nat
      /\ Inputs(job') = Inputs(job) + IF p.op = "create" THEN Bytes(p.content) ELSE 0
    <2>1. PICK d \in Jobs : d = p.dest
        BY <1>2
    <2>2. Rewrites(job', job, d, r) /\ r # None /\ job[d] # None /\ Bytes(job[d].input) = 0
        <3>1. job[d].input = None
            BY <1>2, <2>1
        <3>2. job[d] \in JobRow
            <4>1. [input |-> None, bytes |-> 0, weighed |-> p.op = "create"] \in JobRow
                BY DEF JobRow
            <4> QED
                BY <1>2, <2>1, <4>1
        <3> QED
            BY <1>5, <2>1, <3>1, <3>2, NotARow DEF Bytes, Rewrites
    <2>3. /\ job' \in [Jobs -> JobRow \cup {None}] /\ job'[d] = r
          /\ \A i \in Jobs \ {d} : job'[i] = job[i]
          /\ InputsOf(job)[d] = 0
          /\ InputsOf(job')[d] = IF r.weighed THEN Bytes(r.input) ELSE 0
          /\ Inputs(job') = Inputs(job) - InputsOf(job)[d] + InputsOf(job')[d]
          /\ Charges(job) \in Nat /\ Inputs(job) \in Nat /\ InputsOf(job')[d] \in Nat
        BY <1>6, <2>2, RowCounts
    <2>4. InputsOf(job')[d] = IF p.op = "create" THEN Bytes(p.content) ELSE 0
        BY <1>3, <2>3
    <2>5. Inputs(job') = Inputs(job) + InputsOf(job')[d]
        BY <2>3
    <2> QED
        BY <2>1, <2>3, <2>4, <2>5
<1>8. Shaped(q) /\ RowFits(q)'
    BY <1>1, <1>2, <1>3, <1>4, <1>7, NotARow DEF Shaped, Steps, Submits, RowFits
<1>9. FilesTyped'
    <2>1. file' \in [Keys -> Contents \cup {None}] /\ squeezed' \in BOOLEAN
        BY <1>5, <1>6 DEF FilesTyped, ClientRecords
    <2> QED
        BY <1>6, <1>7, <1>8, <2>1, WriteTyped
<1>10. Charged'
    <2>1. SUFFICES ASSUME ~halved, NEW j \in Jobs, job'[j] # None, job'[j].bytes # Bytes(job'[j].input)
                   PROVE  \E y \in Clients : (On(y, "bytes"))' /\ client'[y].dest = j
        BY <1>6 DEF Charged
    <2>2. CASE j = p.dest
        <3>1. client'[x] = q
            BY <1>6, DisturbIs
        <3> QED
            BY <1>4, <1>6, <2>2, <3>1 DEF On
    <2>3. CASE j # p.dest
        <3>1. PICK y \in Clients : On(y, "bytes") /\ client[y].dest = j
            BY <1>7, <2>1, <2>3 DEF FilesInv, Charged
        <3>2. y # x
            BY <1>2, <3>1
        <3> QED
            BY <1>6, <3>1, <3>2, StillToCharge
    <2> QED
        BY <2>2, <2>3
<1>11. QuotaKept'
    <2>1. SUFFICES ASSUME ~squeezed', ~halved' PROVE Kept' <= Quota
        BY DEF QuotaKept
    <2>2. /\ ~squeezed /\ ~halved /\ (p.op = "create" => ~p.disturbed /\ ~Uncounted)
          /\ Kept <= Quota
        BY <1>5, <2>1 DEF FilesInv, QuotaKept
    <2>3. PICK S \in SUBSET Keys : S = Keys \ HalfMoved(client)
        BY Zenon
    <2>4. HalfMoved(client') = HalfMoved(client)
        BY <1>2, <1>4, <1>6, HalfMovedIs
    <2>5. PICK left \in Nat, all \in Nat :
            left = FilesTotal(file, S) /\ all = FilesTotal(file, Keys) /\ left <= all
        BY <1>6, TotalsTyped DEF FilesTyped
    <2>6. PICK inputs \in Nat, charges \in Nat :
            inputs = Inputs(job) /\ charges = Charges(job) /\ (p.op = "create" => inputs <= charges)
        BY <1>6, <1>7, <2>2, InputsAreCharged DEF FilesInv
    <2>7. Kept = left + inputs /\ Kept' = left + Inputs(job')
        BY <1>6, <1>9, <2>3, <2>4, <2>5, <2>6, KeptIs, KeptIsNext DEF KeptOf
    <2>8. PICK in \in Nat : in = Bytes(p.content)
        BY <1>2, BytesAre
    <2>9. Quota \in Nat
        BY FilesAssumption DEF FilesAssumption
    <2>10. CASE p.op = "create"
        <3>1. UsageOf(file, job) + Bytes(p.content) <= Quota
            BY <1>1, <2>2, <2>10 DEF Room
        <3>2. all + charges + in <= Quota
            BY <2>5, <2>6, <2>8, <3>1 DEF UsageOf
        <3>3. Inputs(job') = inputs + in
            BY <1>7, <2>6, <2>8, <2>10
        <3> QED
            BY <2>5, <2>6, <2>7, <2>9, <2>10, <3>2, <3>3
    <2>11. CASE p.op # "create"
        <3>1. Inputs(job') = inputs
            BY <1>7, <2>6, <2>11
        <3> QED
            BY <2>2, <2>7, <3>1
    <2> QED
        BY <2>10, <2>11
<1>12. (MoveStands(q) /\ Room(q))'
    BY <1>2, <1>4 DEF MoveStands, Room
<1>13. \A y \in Clients \ {x} :
         client[y] # Calm /\ Submits(client[y]) => job'[client[y].dest] = job[client[y].dest]
    BY <1>6, <1>7, OtherRows
<1>14. \A y \in Asking \ ({x} \cup hit) :
         ~client[y].disturbed /\ client'[y] = client[y] => (MoveStands(client[y]) /\ Room(client[y]))'
    BY <1>0, <1>6, AddingStands
<1> QED
    BY <1>0, <1>6, <1>8, <1>9, <1>10, <1>11, <1>12, <1>13, <1>14, WriteStep

LEMMA SetBytesKeeps == ASSUME FilesInv, NEW x \in Clients, SetBytes(x) PROVE FilesInv'
<1>1. PICK p \in ClientRecords : p = client[x] /\ p # Calm /\ p.step = "bytes" /\ Shaped(p)
                                 /\ (Submits(p) => RowFits(p))
    BY NotCalm DEF SetBytes, On, FilesInv, FilesTyped, Submissions
<1>2. /\ p.op \in {"prompt", "create"} /\ Submits(p) /\ p.dest \in Jobs /\ p.content \in Contents
      /\ job[p.dest] # None /\ job[p.dest].input = p.content /\ ~On(x, "remove")
    BY <1>1 DEF Shaped, Steps, On, ClientRecords, Submits, RowFits
<1>3. PICK o \in JobRow : o = job[p.dest]
    BY <1>2 DEF FilesInv, FilesTyped
<1>4. PICK r \in JobRow : /\ r = [o EXCEPT !.bytes = Bytes(p.content)]
                          /\ r.input = p.content /\ r.bytes = Bytes(p.content)
                          /\ r.weighed = o.weighed /\ r # None
    <2> DEFINE n == [o EXCEPT !.bytes = Bytes(p.content)]
    <2>1. n \in JobRow /\ n.input = p.content /\ n.bytes = Bytes(p.content) /\ n.weighed = o.weighed
        BY <1>2, <1>3, BytesAre DEF JobRow
    <2> QED
        BY <2>1, NotARow
<1>0. PICK hit \in SUBSET Asking : hit = Weighing
    BY DEF Weighing
<1>5. /\ job' = [job EXCEPT ![p.dest] = r] /\ Disturb(x, Calm, hit)
      /\ UNCHANGED <<file, asked, halved, squeezed>>
    BY <1>0, <1>1, <1>3, <1>4 DEF SetBytes, Counted
<1>6. /\ FilesTyped /\ Calm \in ClientRecords \cup {Calm} /\ client[x] # Calm
      /\ Submits(client[x]) /\ Disturb(x, Calm, hit) /\ UNCHANGED <<file, asked, halved, squeezed>>
      /\ client[x].dest = p.dest
    BY <1>1, <1>2, <1>5 DEF FilesInv
<1>7. /\ job' \in [Jobs -> JobRow \cup {None}] /\ job'[p.dest] = r
      /\ \A i \in Jobs \ {p.dest} : job'[i] = job[i]
      /\ Inputs(job') = Inputs(job)
    <2>1. PICK d \in Jobs : d = p.dest
        BY <1>2
    <2>2. Rewrites(job', job, d, r) /\ r # None /\ job[d] # None
          /\ job[d].weighed = r.weighed /\ job[d].input = r.input
        BY <1>2, <1>3, <1>4, <1>5, <2>1 DEF Rewrites
    <2>3. /\ job' \in [Jobs -> JobRow \cup {None}] /\ job'[d] = r
          /\ \A i \in Jobs \ {d} : job'[i] = job[i]
          /\ InputsOf(job)[d] = IF job[d].weighed THEN Bytes(job[d].input) ELSE 0
          /\ InputsOf(job')[d] = IF r.weighed THEN Bytes(r.input) ELSE 0
          /\ Inputs(job') = Inputs(job) - InputsOf(job)[d] + InputsOf(job')[d]
          /\ Inputs(job) \in Nat /\ InputsOf(job')[d] \in Nat
        BY <1>6, <2>2, RowCounts
    <2>4. Inputs(job') = Inputs(job)
        <3>1. InputsOf(job)[d] = InputsOf(job')[d]
            BY <2>2, <2>3
        <3> QED
            BY <2>3, <3>1
    <2> QED
        BY <2>1, <2>3, <2>4
<1>8. FilesTyped'
    <2>1. file' \in [Keys -> Contents \cup {None}] /\ squeezed' \in BOOLEAN
        BY <1>6 DEF FilesTyped
    <2> QED
        BY <1>6, <1>7, <2>1, WriteTyped
<1>9. Charged'
    <2>1. SUFFICES ASSUME ~halved, NEW j \in Jobs, job'[j] # None, job'[j].bytes # Bytes(job'[j].input)
                   PROVE  \E y \in Clients : (On(y, "bytes"))' /\ client'[y].dest = j
        BY <1>6 DEF Charged
    <2>2. j # p.dest
        BY <1>4, <1>7, <2>1
    <2>3. PICK y \in Clients : On(y, "bytes") /\ client[y].dest = j
        BY <1>7, <2>1, <2>2 DEF FilesInv, Charged
    <2>4. y # x
        BY <1>6, <2>2, <2>3
    <2> QED
        BY <1>6, <2>3, <2>4, StillToCharge
<1>10. QuotaKept'
    <2>1. SUFFICES ASSUME ~squeezed', ~halved' PROVE Kept' <= Quota
        BY DEF QuotaKept
    <2>2. Kept <= Quota
        BY <1>6, <2>1 DEF FilesInv, QuotaKept
    <2>3. HalfMoved(client') = HalfMoved(client)
        BY <1>2, <1>6, HalfMovedIs
    <2>4. Kept' = Kept
        BY <1>6, <1>7, <1>8, <2>3, KeptIs, KeptIsNext DEF KeptOf
    <2> QED
        BY <2>2, <2>4
<1>11. \A y \in Clients \ {x} :
         client[y] # Calm /\ Submits(client[y]) => job'[client[y].dest] = job[client[y].dest]
    BY <1>6, <1>7, OtherRows
<1>12. \A y \in Asking \ ({x} \cup hit) :
         ~client[y].disturbed /\ client'[y] = client[y] => (MoveStands(client[y]) /\ Room(client[y]))'
    BY <1>0, <1>6, AddingStands
<1> QED
    BY <1>0, <1>6, <1>8, <1>9, <1>10, <1>11, <1>12, WriteStep

----------------------------------------------------------------------------
(* The specification *)

LEMMA FilesInvStarts == Init => FilesInv
<1> SUFFICES ASSUME Init PROVE FilesInv
    OBVIOUS
<1>1. FilesTyped /\ halved = FALSE /\ squeezed = FALSE /\ \A x \in Clients : client[x] = Calm
    BY NotARow DEF Init, FilesTyped
<1>2. Submissions /\ Undisturbed
    BY <1>1 DEF Submissions, Undisturbed
<1>3. Charged
    BY DEF Init, Charged
<1>4. QuotaKept
    <2>1. HalfMoved(client) = {}
        BY <1>1 DEF HalfMoved
    <2>2. FileSum(file, Keys) <= Quota
        BY DEF Init, FileSum
    <2>3. FilesTotal(file, Keys) <= Quota
        BY <1>1, <2>2, FileSumIs DEF FilesTyped
    <2>4. Inputs(job) = 0
        <3>1. \A j \in Jobs : InputsOf(job)[j] = 0
            BY DEF Init, InputsOf
        <3> QED
            BY <1>1, <3>1, TotalsZero, ChargesTyped, KeysFinite DEF FilesTyped, Inputs
    <2>5. Keys \ HalfMoved(client) = Keys
        BY <2>1
    <2>6. PICK all \in Nat : all = FilesTotal(file, Keys)
        BY <1>1, TotalsTyped, KeysFinite DEF FilesTyped
    <2>7. Kept = all + 0
        BY <1>1, <2>4, <2>5, <2>6, KeptIs DEF KeptOf
    <2> QED
        BY <2>3, <2>6, <2>7 DEF QuotaKept
<1> QED
    BY <1>1, <1>2, <1>3, <1>4 DEF FilesInv

LEMMA FilesInvStays == FilesInv /\ [Next]_vars => FilesInv'
<1> SUFFICES ASSUME FilesInv, [Next]_vars PROVE FilesInv'
    OBVIOUS
<1>1. CASE \E x \in Clients, k \in Keys, c \in Contents, careful \in BOOLEAN : StartSave(x, k, c, careful)
    BY <1>1, StartSaveKeeps
<1>2. CASE \E x \in Clients, k, d \in Saved, careful \in BOOLEAN : StartMove(x, k, d, careful)
    BY <1>2, StartMoveKeeps
<1>3. CASE \E x \in Clients, j \in Jobs, k \in Staged : StartPrompt(x, j, k)
    BY <1>3, StartPromptKeeps
<1>4. CASE \E x \in Clients, j \in Jobs, c \in Contents : StartCreate(x, j, c)
    BY <1>4, StartCreateKeeps
<1>5. CASE \E x \in Clients : Look(x) \/ HeadReplaced(x) \/ Weigh(x)
    BY <1>5, LookKeeps, HeadReplacedKeeps, WeighKeeps
<1>6. CASE \E x \in Clients : Put(x) \/ RemoveSource(x)
    BY <1>6, PutKeeps, RemoveSourceKeeps
<1>7. CASE \E x \in Clients : Insert(x) \/ Copy(x) \/ SetBytes(x)
    BY <1>7, InsertKeeps, CopyKeeps, SetBytesKeeps
<1>8. CASE \E x \in Clients : Abort(x)
    BY <1>8, AbortKeeps
<1>9. CASE \E k \in Keys : Delete(k)
    BY <1>9, DeleteKeeps
<1>10. CASE \E j \in Jobs : Swept(j)
    BY <1>10, SweptKeeps
<1>11. CASE UNCHANGED vars
    <2>1. UNCHANGED <<file, job, client, asked, halved, squeezed>>
        BY <1>11 DEF vars
    <2>2. FilesTyped' /\ Submissions' /\ Undisturbed'
        BY <2>1 DEF FilesInv, FilesTyped, Shaped, Submits, Submissions, RowFits, Undisturbed,
                    MoveStands, Room
    <2>3. Charged'
        BY <2>1 DEF FilesInv, Charged, On
    <2>4. QuotaKept'
        <3>1. Kept' = Kept
            BY <2>1, <2>2, KeptIs, KeptIsNext DEF FilesInv
        <3> QED
            BY <2>1, <3>1 DEF FilesInv, QuotaKept
    <2> QED
        BY <2>2, <2>3, <2>4 DEF FilesInv
<1> QED
    BY <1>1, <1>2, <1>3, <1>4, <1>5, <1>6, <1>7, <1>8, <1>9, <1>10, <1>11 DEF Next

LEMMA FilesInvAlways == Spec => []FilesInv
<1>1. Init => FilesInv
    BY FilesInvStarts
<1>2. FilesInv /\ [Next]_vars => FilesInv'
    BY FilesInvStays
<1> QED
    BY <1>1, <1>2, PTL DEF Spec

\* For any files, contents and numbers of requests, a user keeps no more than
\* the quota, however uploads, saves, moves and submissions interleave and
\* whatever is deleted meanwhile: unless two writes were weighed side by side,
\* a file was moved twice at a time, a save weighed itself against a file
\* deleted after it had looked (squeezed), or a request died half way (halved).
\* And every finished submission is charged for what it keeps, unless one died
\* half way (routes/comfyapi.ts, routes/jobs.ts, lib/limits.ts).
THEOREM FilesSoundHolds == Spec => []FilesSound
<1>1. FilesInv => FilesSound
    <2> SUFFICES ASSUME FilesInv PROVE QuotaKept /\ InputsCounted
        BY DEF FilesSound
    <2>1. QuotaKept
        BY DEF FilesInv
    <2>2. ASSUME ~halved, NEW j \in Live, Submitted(j) PROVE job[j].bytes = Bytes(job[j].input)
        BY <2>2 DEF FilesInv, Charged, Live, Submitted, On
    <2> QED
        BY <2>1, <2>2 DEF InputsCounted
<1> QED
    BY <1>1, FilesInvAlways, PTL

MovesAlone(q) == q.op = "move" /\ ~q.disturbed

\* Where the file of an undisturbed move is.
LEMMA MovedFileStands ==
    ASSUME FilesInv, NEW x \in Asking, MovesAlone(client[x])
    PROVE  client[x].content \in {file[client[x].src], file[client[x].dest]}
PROOF BY DEF FilesInv, FilesTyped, Shaped, Steps, Undisturbed, MoveStands, MovesAlone, Asking

LEMMA MoveStepKeeps ==
    ASSUME FilesInv, [Next]_vars, NEW x \in Asking, MovesAlone(client[x]),
           client'[x] \notin {client[x], [client[x] EXCEPT !.disturbed = TRUE]}
    PROVE  client[x].content \in {file'[client[x].src], file'[client[x].dest]}
<1>1. CASE UNCHANGED file
    BY <1>1, MovedFileStands
<1>2. ASSUME NEW y \in Clients, Put(y) \/ RemoveSource(y) PROVE y = x
    BY <1>2 DEF Put, RemoveSource, Disturb, MovesAlone, Moving, Asking
<1>3. CASE Put(x)
    <2>1. client[x].dest \in Keys
        BY KeysFinite DEF FilesInv, FilesTyped, Shaped, MovesAlone, Asking
    <2> QED
        BY <1>3, <2>1 DEF Put, Written, FilesInv, FilesTyped
<1>4. CASE RemoveSource(x)
    <2>1. client[x].step = "remove" /\ client[x].op = "move" /\ ~client[x].disturbed
          /\ client[x] # Calm
        BY <1>4 DEF RemoveSource, On, MovesAlone, Asking
    <2>4. x \in Clients /\ Shaped(client[x]) /\ MoveStands(client[x])
        BY <2>1 DEF FilesInv, FilesTyped, Undisturbed, Asking
    <2>2. client[x].dest # client[x].src /\ file[client[x].dest] = client[x].content
        BY <2>1, <2>4 DEF Shaped, MoveStands
    <2>3. client[x].dest \in Keys
        BY <2>1, <2>4, KeysFinite DEF Shaped
    <2> QED
        BY <1>4, <2>2, <2>3 DEF RemoveSource, Written, FilesInv, FilesTyped
<1>5. ASSUME NEW k \in Keys PROVE ~Delete(k)
    BY FilesAssumption DEF Delete, Disturb, MovesAlone, Asking, FilesAssumption
<1>6. (\E y \in Clients : Put(y) \/ RemoveSource(y)) \/ UNCHANGED file
    BY <1>5 DEF Next, vars, StartSave, StartMove, StartPrompt, StartCreate, Ask, Look, HeadReplaced,
                Weigh, Insert, Copy, SetBytes, Abort, Swept
<1> QED
    BY <1>1, <1>2, <1>3, <1>4, <1>6

\* For any files and any number of requests, a move whose two files nobody else
\* writes or deletes meanwhile leaves the file at its source or at its
\* destination at each of its steps, also when it dies (routes/comfyapi.ts, the
\* move of userdata).
THEOREM MoveKeeps == Spec => MoveLosesNothing
<1>1. FilesInv /\ [Next]_vars =>
        [\A x \in Asking :
            LET q == client[x] IN
              q.op = "move" /\ ~q.disturbed /\ client'[x] \notin {q, [q EXCEPT !.disturbed = TRUE]}
                => q.content \in {file'[q.src], file'[q.dest]}]_vars
    BY MoveStepKeeps DEF MovesAlone
<1> QED
    BY <1>1, FilesInvAlways, PTL DEF Spec, MoveLosesNothing

----------------------------------------------------------------------------
(* Result files: the types *)

RowRecords ==
    [status : {"queued", "running", "done", "failed", "cancelled"},
     holder : Workers \cup {None}, last : Workers \cup {None}, old : BOOLEAN,
     files : SUBSET Names, hashes : [Names -> Contents \cup {None}], bytes : Nat \cup {None}]

TokenRecords == [id : Nat, name : Names, content : Contents, by : Workers, used : BOOLEAN]

UploadKinds == {"whole", "raw", "s3"}
OwnerKinds == {"deleteOne", "deleteAll", "list"}

UploadRecords ==
    [kind : UploadKinds,
     step : {"claim", "head", "put", "add", "stat", "undo", "unadd", "send", "confirm", "count",
             "read", "merge"},
     name : Names, content : Contents, by : Workers, size : Nat,
     read : [Names -> Contents \cup {None}] \cup {None}, token : Nat]

OwnerRecords ==
    [kind : OwnerKinds,
     step : {"head", "delete", "subtract", "zero", "unlist", "list", "fill"},
     name : Names \cup {None}, size : Nat, by : {None}, read : SUBSET Names]

RequestRecords == UploadRecords \cup OwnerRecords

StepsOf(kind) ==
    IF kind = "whole" THEN {"head", "put", "add", "read", "merge"}
    ELSE IF kind = "raw" THEN {"claim", "head", "put", "stat", "undo", "unadd", "read", "merge"}
    ELSE IF kind = "s3" THEN {"send", "confirm", "count", "read", "merge"}
    ELSE IF kind = "deleteOne" THEN {"head", "delete", "subtract", "unlist"}
    ELSE IF kind = "deleteAll" THEN {"delete", "zero", "unlist"}
    ELSE {"list", "fill"}

Fitting(q) ==
    /\ q.step \in StepsOf(q.kind)
    /\ q.kind = "deleteOne" => q.name \in Names
    /\ q.kind \in {"deleteAll", "list"} => q.name = None
    /\ q.kind \in UploadKinds /\ q.step = "merge" => q.read \in [Names -> Contents \cup {None}]

ResultsTyped ==
    /\ direct \in BOOLEAN
    /\ row \in RowRecords \cup {None}
    /\ store \in [Names -> Contents \cup {Garbage, None}]
    /\ tokens \in SUBSET TokenRecords
    /\ request \in [Clients -> RequestRecords \cup {A!Idle}]
    /\ sweep \in {"idle", "picked", "emptied"}
    /\ starts \in Nat /\ moves \in Nat
    /\ exact \in BOOLEAN /\ stale \in BOOLEAN /\ late \in BOOLEAN /\ revived \in BOOLEAN
    /\ \A r \in A!Busy : Fitting(request[r])

\* A token that was claimed stays used, and no other has its number.
Spent(q) == q.kind = "raw" /\ q.step # "claim" => \A t \in tokens : t.id = q.token => t.used

TokensStand ==
    /\ \A t \in tokens : t.id <= starts
    /\ \A t, u \in tokens : t.id = u.id => t = u
    /\ \A r \in A!Busy : request[r].kind = "raw" =>
         request[r].token <= starts /\ Spent(request[r])
    /\ A!TokenOnce

\* Nothing is left of a job that is gone, or about to go.
NothingLeft == ~revived /\ (~A!There \/ sweep = "emptied") => \A n \in Names : store[n] = None

\* While the counter can follow: no two requests race for an object.
Crossing(p, q) ==
    /\ p.kind # "list" \/ q.kind # "list"
    /\ None \in {p.name, q.name} \/ p.name = q.name

Apart ==
    exact => \A r, t \in A!Busy : r # t => ~Crossing(request[r], request[t])

\* What a request knows of the object it works on.
Knows(q) ==
    /\ q.kind \in {"whole", "raw"} /\ q.step \in {"add", "stat", "read", "merge"} =>
         store[q.name] = q.content
    /\ q.kind = "s3" => ~direct /\ (q.step # "send" => store[q.name] # None)
    /\ q.step = "unadd" => store[q.name] = None
    /\ q.kind = "deleteOne" /\ q.step \in {"subtract", "unlist"} => store[q.name] = None
    /\ q.step = "fill" => q.size = A!Sum(store)

Known == exact => \A r \in A!Busy : Knows(request[r])

\* Whose content the row is yet to vouch for.
Unvouched(q) ==
    q.kind \in UploadKinds /\ q.step \in {"add", "stat", "read", "merge", "confirm", "count", "undo"}

Vouched ==
    exact /\ ~stale /\ direct /\ A!There =>
        \A n \in Names :
            \/ store[n] = None \/ store[n] = row.hashes[n]
            \/ \E r \in A!Busy : request[r].name = n /\ Unvouched(request[r])

\* Who is about to take a name off the list.
Unlists(q, n) ==
    \/ q.kind = "deleteOne" /\ q.step \in {"subtract", "unlist"} /\ q.name = n
    \/ q.kind = "deleteAll"

Listed ==
    exact /\ ~stale /\ ~late /\ A!There /\ row.status = "done" =>
        \A n \in row.files : store[n] # None \/ \E r \in A!Busy : Unlists(request[r], n)

Total(f) == Totals(f, Names)[Names]

\* The counter still holds what the object had when the request read it.
Owed(q) ==
    \/ q.kind \in {"whole", "raw"} /\ q.step \in {"put", "add", "stat", "undo", "unadd"}
    \/ q.kind = "s3" /\ q.step \in {"confirm", "count"}
    \/ q.kind = "deleteOne" /\ q.step \in {"delete", "subtract"}

Standing(f) ==
    /\ \A r \in A!Busy : Owed(request[r]) => f[request[r].name] = request[r].size
    /\ \A n \in Names :
         (\A r \in A!Busy : Owed(request[r]) => request[r].name # n) => f[n] = A!Size(n)

Clearing == \E r \in A!Busy : request[r].kind = "deleteAll" /\ request[r].step \in {"delete", "zero"}

Balanced ==
    exact /\ A!There /\ ~Clearing =>
        \E f \in [Names -> Nat] :
            /\ Standing(f)
            /\ row.bytes # None => row.bytes = Total(f)
            /\ row.bytes = None /\ row.status # "done" => Total(f) = 0

ResultsInv ==
    /\ ResultsTyped /\ TokensStand /\ NothingLeft
    /\ Apart /\ Known /\ Vouched /\ Listed /\ Balanced

----------------------------------------------------------------------------
(* Sizes and the counter *)

LEMMA IdleIsNone == A!Idle \notin RequestRecords
PROOF BY DEF A!Idle, RequestRecords, UploadRecords, OwnerRecords, UploadKinds, OwnerKinds

LEMMA RowIsNone == None \notin RowRecords
PROOF BY ResultsAssumption DEF ResultsAssumption, RowRecords

LEMMA NoneApart ==
    None \notin Names /\ None \notin Workers /\ None # Garbage /\ None \notin Nat /\ None \notin Contents
PROOF BY ResultsAssumption, FilesAssumption DEF ResultsAssumption, FilesAssumption

SizesAt(s) == [n \in Names |-> IF s[n] = None THEN 0 ELSE SizeOf[s[n]]]

LEMMA SizesAtTyped ==
    ASSUME NEW s \in [Names -> Contents \cup {Garbage, None}]
    PROVE  SizesAt(s) \in [Names -> Nat] /\ IsFiniteSet(Names) /\ Names \in SUBSET Names
PROOF BY ResultsAssumption, FilesAssumption DEF ResultsAssumption, FilesAssumption, SizesAt

LEMMA StoreSumIs ==
    ASSUME NEW s \in [Names -> Contents \cup {Garbage, None}]
    PROVE  A!Sum(s) = Total(SizesAt(s))
<1> DEFINE S == {n \in Names : s[n] # None}
           Eq(sum) == sum = [t \in SUBSET S |->
                              IF t = {} THEN 0 ELSE SizeOf[s[Pick(t)]] + sum[Rest(t)]]
           it == CHOOSE sum : Eq(sum)
<1>1. A!Sum(s) = it[S]
    BY DEF A!Sum, A!MapThenSumSet, A!MapThenFoldSet, Pick, Rest
<1>2. ASSUME NEW sum PROVE Eq(sum) <=> Folds(sum, SizesAt(s), S)
    <2>1. \A t \in SUBSET S : t # {} => SizesAt(s)[Pick(t)] = SizeOf[s[Pick(t)]]
        BY DEF Pick, SizesAt
    <2> QED
        BY <2>1 DEF Folds
<1>3. \E sum : Folds(sum, SizesAt(s), S)
    BY FoldExists, SizesAtTyped
<1>4. Eq(it)
    BY <1>2, <1>3
<1> HIDE DEF it
<1>5. Folds(it, SizesAt(s), S)
    BY <1>2, <1>4
<1>6. it[S] = Totals(SizesAt(s), Names)[S]
    BY <1>5, FoldIsTotal, SizesAtTyped
<1>7. \A n \in Names \ S : SizesAt(s)[n] = 0
    BY DEF SizesAt
<1>8. Totals(SizesAt(s), Names)[S] = Total(SizesAt(s))
    BY <1>7, LeftOut, SizesAtTyped DEF Total
<1> QED
    BY <1>1, <1>6, <1>8

LEMMA TotalTyped ==
    ASSUME NEW f \in [Names -> Nat], NEW n \in Names PROVE Total(f) \in Nat /\ f[n] <= Total(f)
<1>1. IsFiniteSet(Names) /\ Names \in SUBSET Names /\ Names \ {n} \in SUBSET Names
    BY ResultsAssumption DEF ResultsAssumption
<1>2. /\ Totals(f, Names)[Names] \in Nat /\ Totals(f, Names)[Names \ {n}] \in Nat
      /\ Totals(f, Names)[Names] = f[n] + Totals(f, Names)[Names \ {n}]
    BY <1>1, TotalsAre
<1> QED
    BY <1>2 DEF Total

LEMMA TotalNat == ASSUME NEW f \in [Names -> Nat] PROVE Total(f) \in Nat
PROOF BY TotalsAre, ResultsAssumption DEF ResultsAssumption, Total

LEMMA TotalChanges ==
    ASSUME NEW f \in [Names -> Nat], NEW n \in Names, NEW v \in Nat, NEW h, Rewrites(h, f, n, v)
    PROVE  h \in [Names -> Nat] /\ Total(h) = Total(f) - f[n] + v
<1>1. h \in [Names -> Nat] /\ h[n] = v /\ \A m \in Names \ {n} : f[m] = h[m]
    BY DEF Rewrites
<1>2. IsFiniteSet(Names) /\ Names \in SUBSET Names
    BY ResultsAssumption DEF ResultsAssumption
<1> QED
    BY <1>1, <1>2, TotalsChange DEF Total

LEMMA ZeroTotal ==
    ASSUME NEW f \in [Names -> Nat], Total(f) = 0, NEW n \in Names PROVE f[n] = 0
PROOF BY TotalTyped

LEMMA BiggerOfTwo == ASSUME NEW i \in Int PROVE A!Max({0, i}) = IF i >= 0 THEN i ELSE 0
<1>1. PICK m \in {0, i} : \A y \in {0, i} : m >= y
    BY SMT
<1>2. A!Max({0, i}) \in {0, i} /\ \A y \in {0, i} : A!Max({0, i}) >= y
    BY <1>1 DEF A!Max
<1> QED
    BY <1>2

\* addJobArtifactBytes changes the counter of a row that is there, and keeps
\* it from falling below nothing.
LEMMA AddedIs ==
    ASSUME row \in RowRecords \cup {None}, NEW d \in Int
    PROVE  /\ A!Added(d) \in RowRecords \cup {None}
           /\ row = None => A!Added(d) = None
           /\ row # None =>
                /\ A!Added(d) # None
                /\ A!Added(d).status = row.status /\ A!Added(d).files = row.files
                /\ A!Added(d).hashes = row.hashes
                /\ A!Added(d).bytes \in Nat
                /\ row.bytes = None => A!Added(d).bytes = IF d >= 0 THEN d ELSE 0
                /\ row.bytes # None =>
                     A!Added(d).bytes = IF row.bytes + d >= 0 THEN row.bytes + d ELSE 0
<1>1. CASE row = None
    BY <1>1 DEF A!Added, A!There
<1>2. CASE row # None
    <2>1. PICK o \in RowRecords : o = row
        BY <1>2
    <2>2. PICK i \in Int : i = (IF o.bytes = None THEN 0 ELSE o.bytes) + d
                           /\ (o.bytes = None => i = d) /\ (o.bytes # None => i = o.bytes + d)
        <3>1. o.bytes = None \/ o.bytes \in Nat
            BY DEF RowRecords
        <3> QED
            BY <3>1
    <2>3. PICK m \in Nat : m = A!Max({0, i}) /\ m = IF i >= 0 THEN i ELSE 0
        BY BiggerOfTwo
    <2>4. A!Added(d) = [o EXCEPT !.bytes = m]
        BY <1>2, <2>1, <2>2, <2>3 DEF A!Added, A!There
    <2> DEFINE n == [o EXCEPT !.bytes = m]
    <2>5. /\ n \in RowRecords /\ n.status = o.status /\ n.files = o.files /\ n.hashes = o.hashes
          /\ n.bytes = m
        BY DEF RowRecords
    <2> QED
        BY <1>2, <2>1, <2>2, <2>3, <2>4, <2>5, RowIsNone
<1> QED
    BY <1>1, <1>2

----------------------------------------------------------------------------
(* A step of one request *)

\* The request p at r becomes q, or is answered.
Turns(r, p, q) ==
    /\ p = request[r] /\ p # A!Idle /\ request' = [request EXCEPT ![r] = q]
    /\ q # A!Idle => /\ Fitting(q) /\ q.kind = p.kind /\ q.name = p.name
                     /\ q.kind = "raw" => q.token = p.token

LEMMA TurnIs ==
    ASSUME ResultsTyped, NEW r \in Clients, NEW p \in RequestRecords,
           NEW q \in RequestRecords \cup {A!Idle}, Turns(r, p, q)
    PROVE  /\ request' \in [Clients -> RequestRecords \cup {A!Idle}]
           /\ r \in A!Busy /\ request[r] = p /\ request'[r] = q
           /\ \A t \in Clients \ {r} : request'[t] = request[t]
           /\ \A t \in Clients : (t \in A!Busy)' <=> IF t = r THEN q # A!Idle ELSE t \in A!Busy
           /\ \A t \in A!Busy' : t \in Clients /\ Fitting(request'[t])
<1>1. /\ request' \in [Clients -> RequestRecords \cup {A!Idle}]
      /\ r \in A!Busy /\ request[r] = p /\ request'[r] = q
      /\ \A t \in Clients \ {r} : request'[t] = request[t]
    BY DEF ResultsTyped, Turns, A!Busy
<1>2. \A t \in Clients : (t \in A!Busy)' <=> IF t = r THEN q # A!Idle ELSE t \in A!Busy
    BY <1>1 DEF A!Busy
<1>3. ASSUME NEW t \in A!Busy' PROVE t \in Clients /\ Fitting(request'[t])
    <2>1. t \in Clients
        BY DEF A!Busy
    <2>2. CASE t = r
        BY <1>1, <1>2, <2>2 DEF Turns
    <2>3. CASE t # r
        BY <1>1, <1>2, <2>1, <2>3 DEF ResultsTyped
    <2> QED
        BY <2>1, <2>2, <2>3
<1> QED
    BY <1>1, <1>2, <1>3

LEMMA TurnTyped ==
    ASSUME ResultsTyped, NEW r \in Clients, NEW p \in RequestRecords,
           NEW q \in RequestRecords \cup {A!Idle}, Turns(r, p, q),
           UNCHANGED <<direct, sweep, starts, moves>>, tokens' \in SUBSET TokenRecords,
           row' \in RowRecords \cup {None}, store' \in [Names -> Contents \cup {Garbage, None}],
           exact' \in BOOLEAN, stale' \in BOOLEAN, late' \in BOOLEAN, revived' \in BOOLEAN
    PROVE  ResultsTyped'
<1>1. \A t \in A!Busy' : Fitting(request'[t])
    BY TurnIs
<1> QED
    BY <1>1, TurnIs DEF ResultsTyped, Fitting

LEMMA TurnTokens ==
    ASSUME ResultsTyped, TokensStand, NEW r \in Clients, NEW p \in RequestRecords,
           NEW q \in RequestRecords \cup {A!Idle}, Turns(r, p, q), UNCHANGED <<tokens, starts>>,
           q # A!Idle /\ q.step # "claim" => p.step # "claim"
    PROVE  TokensStand'
<1>1. ASSUME NEW t \in A!Busy', request'[t].kind = "raw"
      PROVE  request'[t].token <= starts /\ Spent(request'[t])
    <2>1. t \in Clients
        BY DEF A!Busy
    <2>2. CASE t = r
        <3>1. q # A!Idle /\ q.kind = "raw" /\ p.kind = "raw" /\ q.token = p.token
            BY <1>1, <2>2, TurnIs DEF Turns
        <3>2. r \in A!Busy /\ request[r] = p /\ request'[r] = q
            BY TurnIs
        <3>3. p.token <= starts /\ Spent(p)
            BY <3>1, <3>2 DEF TokensStand
        <3> QED
            BY <2>2, <3>1, <3>2, <3>3 DEF Spent
    <2>3. CASE t # r
        BY <1>1, <2>1, <2>3, TurnIs DEF TokensStand
    <2> QED
        BY <2>2, <2>3
<1>2. (A!TokenOnce)'
    <2>1. ASSUME NEW t \in A!Busy', NEW u \in A!Busy', t # u, "raw" = request'[t].kind,
                 "raw" = request'[u].kind, request'[t].token = request'[u].token,
                 request'[t].step # "claim", request'[u].step # "claim"
          PROVE  FALSE
        <3>1. ASSUME NEW s \in A!Busy', "raw" = request'[s].kind, request'[s].step # "claim"
              PROVE  /\ s \in A!Busy /\ "raw" = request[s].kind /\ request[s].step # "claim"
                     /\ request[s].token = request'[s].token
            <4>1. s \in Clients
                BY DEF A!Busy
            <4>2. CASE s = r
                BY <3>1, <4>2, TurnIs DEF Turns
            <4>3. CASE s # r
                BY <3>1, <4>1, <4>3, TurnIs
            <4> QED
                BY <4>2, <4>3
        <3> QED
            BY <2>1, <3>1 DEF TokensStand, A!TokenOnce, A!At
    <2> QED
        BY <2>1 DEF A!TokenOnce, A!At, A!Busy
<1> QED
    BY <1>1, <1>2 DEF TokensStand, Spent

\* The other requests in progress keep off what r works on.
LEMMA OthersApart ==
    ASSUME ResultsTyped, Apart, exact, NEW r \in Clients, NEW p \in RequestRecords,
           NEW q \in RequestRecords \cup {A!Idle}, Turns(r, p, q), NEW t \in A!Busy', t # r
    PROVE  /\ t \in A!Busy /\ request'[t] = request[t] /\ Fitting(request[t])
           /\ ~Crossing(request[t], p)
<1>1. t \in Clients
    BY DEF A!Busy
<1>2. t \in A!Busy /\ request'[t] = request[t] /\ r \in A!Busy /\ request[r] = p
    BY <1>1, TurnIs
<1> QED
    BY <1>2 DEF Apart, ResultsTyped

LEMMA TurnApart ==
    ASSUME ResultsTyped, Apart, exact' => exact, NEW r \in Clients, NEW p \in RequestRecords,
           NEW q \in RequestRecords \cup {A!Idle}, Turns(r, p, q)
    PROVE  Apart'
<1>1. ASSUME exact', NEW t \in A!Busy', NEW u \in A!Busy', t # u
      PROVE  ~Crossing(request'[t], request'[u])
    <2>1. ASSUME NEW s \in A!Busy', s # r, (r \in A!Busy)'
          PROVE  ~Crossing(request'[s], request'[r]) /\ ~Crossing(request'[r], request'[s])
        <3>1. request'[r] = q /\ request'[s] = request[s] /\ ~Crossing(request[s], p)
            BY <1>1, <2>1, OthersApart, TurnIs
        <3>2. q.kind = p.kind /\ q.name = p.name
            BY <2>1, TurnIs DEF Turns
        <3> QED
            BY <3>1, <3>2 DEF Crossing
    <2>2. CASE t # r /\ u # r
        <3>1. /\ t \in A!Busy /\ request'[t] = request[t]
              /\ u \in A!Busy /\ request'[u] = request[u]
            BY <1>1, <2>2, OthersApart
        <3> QED
            BY <1>1, <3>1 DEF Apart
    <2> QED
        BY <1>1, <2>1, <2>2
<1> QED
    BY <1>1 DEF Apart, Crossing

\* What a step of r may do to the objects: it removes, or it writes its own.
OwnObjects(p) ==
    \A n \in Names : store'[n] # store[n] =>
        p.kind # "list" /\ (n = p.name \/ (p.name = None /\ store'[n] = None))

LEMMA TurnKnown ==
    ASSUME ResultsTyped, ResultsTyped', Apart, Known, exact' => exact, NEW r \in Clients,
           NEW p \in RequestRecords, NEW q \in RequestRecords \cup {A!Idle}, Turns(r, p, q),
           UNCHANGED direct, OwnObjects(p), q # A!Idle /\ exact' => Knows(q)'
    PROVE  Known'
<1>1. ASSUME exact', NEW t \in A!Busy' PROVE (Knows(request[t]))'
    <2>1. CASE t = r
        <3>1. q # A!Idle /\ request'[t] = q
            BY <1>1, <2>1, TurnIs
        <3>2. Knows(q)'
            BY <1>1, <3>1
        <3> QED
            BY <3>1, <3>2 DEF Knows
    <2>2. CASE t # r
        <3>1. t \in A!Busy /\ request'[t] = request[t] /\ ~Crossing(request[t], p)
              /\ Fitting(request[t]) /\ request[t] \in RequestRecords
            BY <1>1, <2>2, OthersApart DEF ResultsTyped, A!Busy
        <3>2. Knows(request[t])
            BY <1>1, <3>1 DEF Known
        <3>3. PICK u \in RequestRecords : u = request[t] /\ Knows(u) /\ ~Crossing(u, p) /\ Fitting(u)
            BY <3>1, <3>2
        <3>4. u.kind \in UploadKinds \cup {"deleteOne"} => u.name \in Names /\ store'[u.name] = store[u.name]
            <4>1. u.kind \in UploadKinds \cup {"deleteOne"} => u.name \in Names /\ u.kind # "list"
                BY <3>3 DEF RequestRecords, UploadRecords, OwnerRecords, UploadKinds, OwnerKinds, Fitting
            <4> QED
                BY <3>3, <4>1 DEF OwnObjects, Crossing
        <3>5. u.step = "fill" => store' = store
            <4>1. SUFFICES ASSUME u.step = "fill" PROVE store' = store
                OBVIOUS
            <4>2. u.kind = "list" /\ u.name = None
                BY <3>3, <4>1 DEF RequestRecords, UploadRecords, OwnerRecords, UploadKinds, OwnerKinds,
                                  Fitting, StepsOf
            <4>3. \A n \in Names : store'[n] = store[n]
                BY <3>3, <4>2 DEF OwnObjects, Crossing
            <4> QED
                BY <4>3 DEF ResultsTyped
        <3>6. u.step = "unadd" => u.kind \in UploadKinds
            BY <3>3 DEF RequestRecords, UploadRecords, OwnerRecords, UploadKinds, OwnerKinds,
                        Fitting, StepsOf
        <3>7. Knows(u)'
            BY <3>3, <3>4, <3>5, <3>6 DEF Knows, UploadKinds
        <3> QED
            BY <3>1, <3>3, <3>7 DEF Knows
    <2> QED
        BY <2>1, <2>2
<1> QED
    BY <1>1 DEF Known

LEMMA TurnVouched ==
    ASSUME ResultsTyped, Vouched, exact' => exact, stale => stale', row' # None => row # None, UNCHANGED direct,
           NEW r \in Clients, NEW p \in RequestRecords,
           NEW q \in RequestRecords \cup {A!Idle}, Turns(r, p, q), OwnObjects(p),
           exact' /\ ~stale' /\ direct /\ row' # None =>
             /\ \A n \in Names : n # p.name => row'.hashes[n] = row.hashes[n]
             /\ p.name \in Names =>
                  \/ store'[p.name] = None \/ store'[p.name] = row'.hashes[p.name]
                  \/ q # A!Idle /\ Unvouched(q)
    PROVE  Vouched'
<1>1. ASSUME exact', ~stale', direct, row' # None, NEW n \in Names
      PROVE  \/ store'[n] = None \/ store'[n] = row'.hashes[n]
             \/ \E t \in A!Busy' : request'[t].name = n /\ Unvouched(request'[t])
    <2>1. CASE n = p.name
        <3>1. q # A!Idle => r \in A!Busy' /\ request'[r] = q /\ q.name = p.name
            BY TurnIs DEF Turns
        <3> QED
            BY <1>1, <2>1, <3>1
    <2>2. CASE n # p.name
        <3>1. store'[n] = store[n] \/ store'[n] = None
            BY <2>2 DEF OwnObjects
        <3>2. row'.hashes[n] = row.hashes[n]
            BY <1>1, <2>2
        <3>3. \/ store[n] = None \/ store[n] = row.hashes[n]
              \/ \E t \in A!Busy : request[t].name = n /\ Unvouched(request[t])
            BY <1>1 DEF Vouched, A!There
        <3>4. ASSUME NEW t \in A!Busy, request[t].name = n
              PROVE  t \in A!Busy' /\ request'[t] = request[t]
            <4>1. t \in Clients /\ t # r
                BY <2>2, <3>4, TurnIs DEF A!Busy
            <4> QED
                BY <4>1, TurnIs
        <3> QED
            BY <3>1, <3>2, <3>3, <3>4
    <2> QED
        BY <2>1, <2>2
<1> QED
    BY <1>1 DEF Vouched, A!There, Unvouched

LEMMA TurnListed ==
    ASSUME ResultsTyped, Listed, exact' => exact, stale => stale', late => late',
           row' # None => row # None, NEW r \in Clients, NEW p \in RequestRecords,
           NEW q \in RequestRecords \cup {A!Idle}, Turns(r, p, q),
           exact' /\ ~stale' /\ ~late' /\ row' # None /\ row'.status = "done" =>
             /\ row.status = "done" /\ row'.files \subseteq row.files
             /\ \A n \in row'.files :
                  /\ store'[n] = None /\ store[n] # None => q # A!Idle /\ Unlists(q, n)
                  /\ Unlists(p, n) => q # A!Idle /\ Unlists(q, n)
    PROVE  Listed'
<1>1. ASSUME exact', ~stale', ~late', row' # None, row'.status = "done", NEW n \in row'.files,
             store'[n] = None
      PROVE  \E t \in A!Busy' : Unlists(request'[t], n)
    <2>1. q # A!Idle /\ Unlists(q, n) => r \in A!Busy' /\ Unlists(request'[r], n)
        BY TurnIs
    <2>2. CASE store[n] # None
        BY <1>1, <2>1, <2>2
    <2>3. CASE store[n] = None
        <3>1. PICK t \in A!Busy : Unlists(request[t], n)
            BY <1>1, <2>3 DEF Listed, A!There
        <3>2. CASE t = r
            <4>1. Unlists(p, n)
                BY <3>1, <3>2, TurnIs
            <4> QED
                BY <1>1, <2>1, <4>1
        <3>3. CASE t # r
            <4>1. t \in Clients
                BY DEF A!Busy
            <4> QED
                BY <3>1, <3>3, <4>1, TurnIs
        <3> QED
            BY <3>2, <3>3
    <2> QED
        BY <2>2, <2>3
<1> QED
    BY <1>1 DEF Listed, A!There, Unlists

----------------------------------------------------------------------------
(* The books of the counter *)

LEMMA SizeTyped ==
    ASSUME ResultsTyped, NEW n \in Names PROVE A!Size(n) \in Nat /\ A!Size(n) = SizesAt(store)[n]
PROOF BY ResultsAssumption, FilesAssumption
      DEF ResultsAssumption, FilesAssumption, ResultsTyped, A!Size, SizesAt

\* What is charged stays as it is, and so does the counter.
LEMMA BalancedQuiet ==
    ASSUME Balanced, exact' => exact, store' = store,
           row' # None => /\ row # None /\ row'.bytes = row.bytes
                          /\ row'.status # "done" => row.status # "done",
           exact' =>
             /\ \A t \in A!Busy : Owed(request[t]) =>
                  /\ t \in A!Busy' /\ Owed(request'[t])
                  /\ request'[t].name = request[t].name /\ request'[t].size = request[t].size
             /\ \A t \in A!Busy' : Owed(request'[t]) => t \in A!Busy /\ Owed(request[t])
             /\ Clearing => Clearing'
    PROVE  Balanced'
<1>1. SUFFICES ASSUME exact', row' # None, ~Clearing'
               PROVE  \E f \in [Names -> Nat] :
                        /\ (Standing(f))'
                        /\ row'.bytes # None => row'.bytes = Total(f)
                        /\ row'.bytes = None /\ row'.status # "done" => Total(f) = 0
    BY DEF Balanced, A!There
<1>2. PICK f \in [Names -> Nat] :
        /\ Standing(f)
        /\ row.bytes # None => row.bytes = Total(f)
        /\ row.bytes = None /\ row.status # "done" => Total(f) = 0
    BY <1>1 DEF Balanced, A!There
<1>3. \A t \in A!Busy' : Owed(request'[t]) => f[request'[t].name] = request'[t].size
    BY <1>1, <1>2 DEF Standing
<1>4. ASSUME NEW n \in Names, \A t \in A!Busy' : Owed(request'[t]) => request'[t].name # n
      PROVE  f[n] = A!Size(n)'
    <2>1. \A t \in A!Busy : Owed(request[t]) => request[t].name # n
        BY <1>1, <1>4
    <2>2. f[n] = A!Size(n)
        BY <1>2, <2>1 DEF Standing
    <2> QED
        BY <2>2 DEF A!Size
<1>5. (Standing(f))'
    BY <1>3, <1>4 DEF Standing, Owed
<1> QED
    BY <1>1, <1>2, <1>5

LEMMA QuietTurn ==
    ASSUME ResultsTyped, Balanced, exact' => exact, store' = store,
           row' # None => row # None /\ row'.bytes = row.bytes /\ row'.status = row.status,
           NEW r \in Clients, NEW p \in RequestRecords,
           NEW q \in RequestRecords \cup {A!Idle}, Turns(r, p, q),
           exact' =>
             /\ Owed(p) => q # A!Idle /\ Owed(q) /\ q.size = p.size
             /\ q # A!Idle /\ Owed(q) => Owed(p)
             /\ p.kind = "deleteAll" /\ p.step # "unlist" => q # A!Idle /\ q.step # "unlist"
    PROVE  Balanced'
<1>1. r \in A!Busy /\ request[r] = p /\ request'[r] = q
    BY TurnIs
<1>2. ASSUME exact', NEW t \in A!Busy, Owed(request[t])
      PROVE  /\ t \in A!Busy' /\ Owed(request'[t])
             /\ request'[t].name = request[t].name /\ request'[t].size = request[t].size
    <2>1. t \in Clients
        BY DEF A!Busy
    <2>2. CASE t = r
        BY <1>1, <1>2, <2>2, TurnIs DEF Turns
    <2>3. CASE t # r
        BY <1>2, <2>1, <2>3, TurnIs
    <2> QED
        BY <2>2, <2>3
<1>3. ASSUME exact', NEW t \in A!Busy', Owed(request'[t]) PROVE t \in A!Busy /\ Owed(request[t])
    <2>1. t \in Clients
        BY DEF A!Busy
    <2>2. CASE t = r
        BY <1>1, <1>3, <2>2, TurnIs
    <2>3. CASE t # r
        BY <1>3, <2>1, <2>3, TurnIs
    <2> QED
        BY <2>2, <2>3
<1>4. ASSUME exact', Clearing PROVE Clearing'
    <2>1. PICK t \in A!Busy : request[t].kind = "deleteAll" /\ request[t].step \in {"delete", "zero"}
        BY <1>4 DEF Clearing
    <2>2. t \in Clients
        BY DEF A!Busy
    <2>3. CASE t # r
        BY <2>1, <2>2, <2>3, TurnIs DEF Clearing
    <2>4. CASE t = r
        <3>1. p.kind = "deleteAll" /\ p.step # "unlist" /\ q # A!Idle /\ q.kind = "deleteAll"
              /\ q.step # "unlist" /\ q.step \in StepsOf(q.kind)
            BY <1>1, <1>4, <2>1, <2>4 DEF Turns, Fitting
        <3>2. q.step \in {"delete", "zero"}
            BY <3>1 DEF StepsOf
        <3>3. r \in A!Busy' /\ request'[r] = q
            BY <3>1, TurnIs
        <3> QED
            BY <3>1, <3>2, <3>3 DEF Clearing
    <2> QED
        BY <2>3, <2>4
<1> QED
    BY <1>2, <1>3, <1>4, BalancedQuiet

\* What is charged for the object of a request, before and after its step.
Was(p) == IF Owed(p) THEN p.size ELSE A!Size(p.name)
IsNow(q, n) == IF q # A!Idle /\ Owed(q) THEN q.size ELSE A!Size(n)

LEMMA TurnBalanced ==
    ASSUME ResultsTyped, ResultsTyped', Apart, Balanced, exact' => exact, NEW r \in Clients,
           NEW p \in RequestRecords, NEW q \in RequestRecords \cup {A!Idle}, Turns(r, p, q),
           OwnObjects(p), p.kind \notin {"deleteAll", "list"},
           row' # None => row # None /\ row'.status = row.status,
           NEW w \in Nat, w = Was(p), NEW v \in Nat, v = IsNow(q, p.name)',
           exact' /\ row' # None =>
             \/ row'.bytes = row.bytes /\ v = w
             \/ /\ row.bytes \in Nat
                /\ row'.bytes = IF row.bytes + (v - w) >= 0 THEN row.bytes + (v - w) ELSE 0
             \/ /\ row.bytes = None /\ row.status # "done"
                /\ row'.bytes = IF v - w >= 0 THEN v - w ELSE 0
    PROVE  Balanced'
<1>1. SUFFICES ASSUME exact', row' # None, ~Clearing'
               PROVE  \E f \in [Names -> Nat] :
                        /\ (Standing(f))'
                        /\ row'.bytes # None => row'.bytes = Total(f)
                        /\ row'.bytes = None /\ row'.status # "done" => Total(f) = 0
    BY DEF Balanced, A!There
<1>2. r \in A!Busy /\ request[r] = p /\ request'[r] = q /\ p.name \in Names /\ p.kind # "list"
    BY TurnIs DEF ResultsTyped, Fitting, RequestRecords, UploadRecords, OwnerRecords, OwnerKinds
<1>3. ~Clearing
    <2>1. SUFFICES ASSUME NEW t \in A!Busy, request[t].kind = "deleteAll",
                          request[t].step \in {"delete", "zero"}
                   PROVE  FALSE
        BY DEF Clearing
    <2>2. t \in Clients /\ t # r
        BY <1>2, <2>1 DEF A!Busy
    <2> QED
        BY <1>1, <2>1, <2>2, TurnIs DEF Clearing
<1>4. PICK f \in [Names -> Nat] :
        /\ Standing(f)
        /\ row.bytes # None => row.bytes = Total(f)
        /\ row.bytes = None /\ row.status # "done" => Total(f) = 0
    BY <1>1, <1>3 DEF Balanced, A!There
<1>5. PICK n \in Names : n = p.name
    BY <1>2
<1>6. f[n] = w
    <2>1. CASE Owed(p)
        BY <1>2, <1>4, <1>5, <2>1 DEF Standing, Was
    <2>2. CASE ~Owed(p)
        <3>1. ASSUME NEW t \in A!Busy, Owed(request[t]) PROVE request[t].name # n
            <4>1. t # r
                BY <1>2, <2>2, <3>1
            <4>2. ~Crossing(request[t], request[r])
                BY <1>1, <1>2, <4>1 DEF Apart
            <4> QED
                BY <1>2, <1>5, <4>2 DEF Crossing
        <3> QED
            BY <1>4, <1>5, <2>2, <3>1 DEF Standing, Was
    <2> QED
        BY <2>1, <2>2
<1>7. PICK h : h = [f EXCEPT ![n] = v] /\ Rewrites(h, f, n, v)
    BY DEF Rewrites
<1>8. h \in [Names -> Nat] /\ h[n] = v /\ \A m \in Names \ {n} : h[m] = f[m]
    BY <1>7
<1>9. ASSUME NEW t \in A!Busy', t # r
      PROVE  /\ t \in A!Busy /\ request'[t] = request[t] /\ request[t].name # n
    <2>1. t \in A!Busy /\ request'[t] = request[t] /\ ~Crossing(request[t], p)
        BY <1>1, <1>9, OthersApart
    <2> QED
        BY <1>2, <1>5, <2>1 DEF Crossing
<1>10. ASSUME NEW t \in A!Busy', Owed(request'[t]) PROVE h[request'[t].name] = request'[t].size
    <2>1. CASE t = r
        <3>1. q # A!Idle /\ request'[r] = q
            BY <2>1, TurnIs
        <3> QED
            BY <1>5, <1>8, <1>10, <2>1, <3>1 DEF IsNow, Turns
    <2>2. CASE t # r
        <3>1. t \in A!Busy /\ request'[t] = request[t] /\ request[t].name # n
            BY <1>9, <2>2
        <3>2. f[request[t].name] = request[t].size
            BY <1>4, <1>10, <3>1 DEF Standing
        <3>3. request[t].name \in Names
            <4>1. request[t] \in RequestRecords /\ Fitting(request[t])
                BY <3>1 DEF ResultsTyped, A!Busy
            <4> QED
                BY <1>10, <3>1, <4>1 DEF Owed, Fitting, RequestRecords, UploadRecords, OwnerRecords,
                                         OwnerKinds
        <3> QED
            BY <1>8, <3>1, <3>2, <3>3
    <2> QED
        BY <2>1, <2>2
<1>11. ASSUME NEW m \in Names, \A t \in A!Busy' : Owed(request'[t]) => request'[t].name # m
       PROVE  h[m] = A!Size(m)'
    <2>1. CASE m = n
        <3>1. ASSUME q # A!Idle, Owed(q) PROVE FALSE
            <4>1. r \in A!Busy' /\ request'[r] = q
                BY <3>1, TurnIs
            <4>2. q.name = n
                BY <1>5, <3>1 DEF Turns
            <4> QED
                BY <1>11, <2>1, <3>1, <4>1, <4>2
        <3> QED
            BY <1>5, <1>8, <2>1, <3>1 DEF IsNow
    <2>2. CASE m # n
        <3>1. ASSUME NEW t \in A!Busy, Owed(request[t]) PROVE request[t].name # m
            <4>1. CASE t = r
                BY <1>2, <1>5, <2>2, <4>1
            <4>2. CASE t # r
                <5>1. t \in A!Busy' /\ request'[t] = request[t]
                    BY <4>2, TurnIs DEF A!Busy
                <5> QED
                    BY <1>11, <3>1, <5>1
            <4> QED
                BY <4>1, <4>2
        <3>2. f[m] = A!Size(m)
            BY <1>4, <3>1 DEF Standing
        <3>3. store'[m] = store[m]
            BY <1>2, <1>5, <2>2, NoneApart DEF OwnObjects
        <3> QED
            BY <1>8, <2>2, <3>2, <3>3 DEF A!Size
    <2> QED
        BY <2>1, <2>2
<1>12. (Standing(h))'
    BY <1>10, <1>11 DEF Standing, Owed
<1>13. PICK before \in Nat, after \in Nat :
         before = Total(f) /\ after = Total(h) /\ after = before - w + v /\ w <= before
    <2>1. Total(f) \in Nat /\ Total(h) \in Nat /\ Total(h) = Total(f) - w + v /\ w <= Total(f)
        BY <1>6, <1>7, <1>8, TotalTyped, TotalChanges
    <2> QED
        BY <2>1
<1>14. /\ row'.bytes # None => row'.bytes = after
       /\ row'.bytes = None /\ row'.status # "done" => after = 0
    <2>1. CASE row'.bytes = row.bytes /\ v = w
        BY <1>1, <1>4, <1>13, <2>1
    <2>2. CASE /\ row.bytes \in Nat
               /\ row'.bytes = IF row.bytes + (v - w) >= 0 THEN row.bytes + (v - w) ELSE 0
        <3>1. row.bytes = before
            BY <1>4, <1>13, <2>2, NoneApart
        <3>2. before + (v - w) = after
            BY <1>13
        <3> QED
            BY <1>13, <2>2, <3>1, <3>2, NoneApart
    <2>3. CASE /\ row.bytes = None /\ row.status # "done"
               /\ row'.bytes = IF v - w >= 0 THEN v - w ELSE 0
        <3>1. before = 0
            BY <1>4, <1>13, <2>3
        <3>2. w = 0 /\ v - w = after /\ v - w >= 0
            BY <1>13, <3>1
        <3> QED
            BY <1>13, <2>3, <3>2, NoneApart
    <2> QED
        BY <1>1, <2>1, <2>2, <2>3
<1> QED
    BY <1>8, <1>12, <1>13, <1>14

----------------------------------------------------------------------------
(* Steps that write nothing *)

\* Whose work is at rest is vouched for.
LEMMA OwnVouched ==
    ASSUME ResultsTyped, Apart, Vouched, exact, ~stale, direct, row # None, NEW r \in A!Busy,
           request[r].name \in Names, request[r].kind # "list", ~Unvouched(request[r])
    PROVE  store[request[r].name] = None \/ store[request[r].name] = row.hashes[request[r].name]
<1>1. SUFFICES ASSUME NEW t \in A!Busy, request[t].name = request[r].name, Unvouched(request[t])
               PROVE  FALSE
    BY DEF Vouched, A!There
<1>2. t # r
    BY <1>1
<1> QED
    BY <1>1, <1>2 DEF Apart, Crossing

\* A step of one request, and all that follows from it.
LEMMA TurnStep ==
    ASSUME ResultsInv, NEW r \in Clients, NEW p \in RequestRecords,
           NEW q \in RequestRecords \cup {A!Idle}, Turns(r, p, q),
           UNCHANGED <<direct, tokens, sweep, starts, moves>>,
           row' \in RowRecords \cup {None}, store' \in [Names -> Contents \cup {Garbage, None}],
           exact' \in BOOLEAN, stale' \in BOOLEAN, late' \in BOOLEAN, revived' \in BOOLEAN,
           exact' => exact, stale => stale', late => late', row' # None => row # None,
           q # A!Idle /\ q.step # "claim" => p.step # "claim",
           OwnObjects(p),
           q # A!Idle /\ exact' => Knows(q)',
           exact' /\ ~stale' /\ direct /\ row' # None =>
             /\ \A n \in Names : n # p.name => row'.hashes[n] = row.hashes[n]
             /\ p.name \in Names =>
                  \/ store'[p.name] = None \/ store'[p.name] = row'.hashes[p.name]
                  \/ q # A!Idle /\ Unvouched(q),
           exact' /\ ~stale' /\ ~late' /\ row' # None /\ row'.status = "done" =>
             /\ row.status = "done" /\ row'.files \subseteq row.files
             /\ \A n \in row'.files :
                  /\ store'[n] = None /\ store[n] # None => q # A!Idle /\ Unlists(q, n)
                  /\ Unlists(p, n) => q # A!Idle /\ Unlists(q, n),
           NothingLeft', ResultsTyped' => Balanced'
    PROVE  ResultsInv'
<1>1. ResultsTyped'
    <2>1. ResultsTyped /\ tokens' \in SUBSET TokenRecords /\ UNCHANGED <<direct, sweep, starts, moves>>
        BY DEF ResultsInv, ResultsTyped
    <2> QED
        BY <2>1, TurnTyped
<1>0. TokensStand'
    <2>1. ResultsTyped /\ TokensStand /\ UNCHANGED <<tokens, starts>>
        BY DEF ResultsInv
    <2> QED
        BY <2>1, TurnTokens
<1>2. Apart'
    BY TurnApart DEF ResultsInv
<1>3. Known'
    BY <1>1, TurnKnown DEF ResultsInv
<1>4. Vouched'
    BY TurnVouched DEF ResultsInv
<1>5. Listed'
    BY TurnListed DEF ResultsInv
<1> QED
    BY <1>0, <1>1, <1>2, <1>3, <1>4, <1>5 DEF ResultsInv

\* A step that leaves the row and the objects as they are.
LEMMA PlainTurn ==
    ASSUME ResultsInv, NEW r \in Clients, NEW p \in RequestRecords,
           NEW q \in RequestRecords \cup {A!Idle}, Turns(r, p, q),
           UNCHANGED <<direct, row, store, tokens, sweep, starts, moves, stale, late, revived>>,
           exact' \in BOOLEAN, exact' => exact,
           q # A!Idle /\ q.step # "claim" => p.step # "claim",
           exact' =>
             /\ q # A!Idle => Knows(q)'
             /\ Unvouched(p) => q # A!Idle /\ Unvouched(q)
             /\ \A n \in Names : Unlists(p, n) => q # A!Idle /\ Unlists(q, n),
           ResultsTyped' => Balanced'
    PROVE  ResultsInv'
<1>1. r \in A!Busy /\ request[r] = p
    BY TurnIs DEF ResultsInv
<1>2. OwnObjects(p)
    BY DEF OwnObjects
<1>3. p.name \in Names => p.kind # "list"
    BY <1>1, NoneApart DEF ResultsInv, ResultsTyped, Fitting
<1>4. ASSUME exact', ~stale', direct, row' # None, p.name \in Names, ~(q # A!Idle /\ Unvouched(q))
      PROVE  store'[p.name] = None \/ store'[p.name] = row'.hashes[p.name]
    BY <1>1, <1>3, <1>4, OwnVouched DEF ResultsInv
<1>5. NothingLeft'
    BY DEF ResultsInv, NothingLeft, A!There
<1>6. row' # None => row'.files \subseteq Names
    BY DEF ResultsInv, ResultsTyped, RowRecords
<1>7. /\ row' \in RowRecords \cup {None} /\ store' \in [Names -> Contents \cup {Garbage, None}]
      /\ stale' \in BOOLEAN /\ late' \in BOOLEAN /\ revived' \in BOOLEAN
      /\ (stale => stale') /\ (late => late') /\ (row' # None => row # None)
    BY DEF ResultsInv, ResultsTyped
<1>8. exact' /\ ~stale' /\ direct /\ row' # None =>
        /\ \A n \in Names : n # p.name => row'.hashes[n] = row.hashes[n]
        /\ p.name \in Names =>
             \/ store'[p.name] = None \/ store'[p.name] = row'.hashes[p.name]
             \/ q # A!Idle /\ Unvouched(q)
    BY <1>4
<1>9. exact' /\ ~stale' /\ ~late' /\ row' # None /\ row'.status = "done" =>
        /\ row.status = "done" /\ row'.files \subseteq row.files
        /\ \A n \in row'.files :
             /\ store'[n] = None /\ store[n] # None => q # A!Idle /\ Unlists(q, n)
             /\ Unlists(p, n) => q # A!Idle /\ Unlists(q, n)
    BY <1>6
<1> QED
    BY <1>2, <1>5, <1>7, <1>8, <1>9, TurnStep

\* The request at r, as one of the records.
LEMMA RequestIs ==
    ASSUME ResultsInv, NEW r \in Clients, request[r] # A!Idle
    PROVE  request[r] \in RequestRecords /\ Fitting(request[r]) /\ r \in A!Busy
PROOF BY DEF ResultsInv, ResultsTyped, A!Busy

\* Answering is a turn, and so is going on to a step that fits.
LEMMA AnswerTurns ==
    ASSUME ResultsInv, NEW r \in Clients, request[r] # A!Idle, A!Answer(r)
    PROVE  Turns(r, request[r], A!Idle)
PROOF BY DEF A!Answer, Turns

LEMMA GotoTurns ==
    ASSUME ResultsInv, NEW r \in Clients, request[r] # A!Idle, NEW step, A!Goto(r, step),
           step \in StepsOf(request[r].kind),
           step # "merge"
    PROVE  \E q \in RequestRecords :
             /\ Turns(r, request[r], q) /\ q # A!Idle
             /\ q.kind = request[r].kind /\ q.name = request[r].name /\ q.step = step
             /\ q.size = request[r].size /\ q.read = request[r].read /\ q.by = request[r].by
             /\ q.kind \in UploadKinds => q.content = request[r].content
<1>1. PICK p : p = request[r] /\ p \in RequestRecords /\ Fitting(p) /\ p # A!Idle
               /\ step \in StepsOf(p.kind)
    BY RequestIs
<1> DEFINE n == [p EXCEPT !.step = step]
<1>2. n \in RequestRecords
    <2>1. CASE p \in UploadRecords
        <3>1. step \in {"claim", "head", "put", "add", "stat", "undo", "unadd", "send", "confirm",
                        "count", "read", "merge"}
            BY <1>1, <2>1 DEF StepsOf, UploadRecords, UploadKinds
        <3> QED
            BY <2>1, <3>1 DEF UploadRecords, RequestRecords
    <2>2. CASE p \in OwnerRecords
        <3>1. step \in {"head", "delete", "subtract", "zero", "unlist", "list", "fill"}
            BY <1>1, <2>2 DEF StepsOf, OwnerRecords, OwnerKinds
        <3> QED
            BY <2>2, <3>1 DEF OwnerRecords, RequestRecords
    <2> QED
        BY <1>1, <2>1, <2>2 DEF RequestRecords
<1>3. /\ n.kind = p.kind /\ n.name = p.name /\ n.size = p.size /\ n.read = p.read /\ n.by = p.by
      /\ n.step = step /\ (n.kind \in UploadKinds => n.content = p.content /\ n.token = p.token)
    BY <1>1 DEF RequestRecords, UploadRecords, OwnerRecords, UploadKinds, OwnerKinds
<1>4. request' = [request EXCEPT ![r] = n]
    BY <1>1 DEF A!Goto
<1>5. PICK q \in RequestRecords :
        /\ request' = [request EXCEPT ![r] = q]
        /\ q.kind = p.kind /\ q.name = p.name /\ q.size = p.size /\ q.read = p.read /\ q.by = p.by
        /\ q.step = step /\ (q.kind \in UploadKinds => q.content = p.content /\ q.token = p.token)
    BY <1>2, <1>3, <1>4
<1>6. Fitting(q)
    BY <1>1, <1>5 DEF Fitting
<1> QED
    BY <1>1, <1>5, <1>6, IdleIsNone DEF Turns, UploadKinds

\* The request goes on with the size of its object.
Sized(r, step, size) == request' = [request EXCEPT ![r] = [@ EXCEPT !.size = size, !.step = step]]

LEMMA SizedTurns ==
    ASSUME ResultsInv, NEW r \in Clients, request[r] # A!Idle, NEW step, NEW size \in Nat,
           step \in StepsOf(request[r].kind), step # "merge", Sized(r, step, size)
    PROVE  \E q \in RequestRecords :
             /\ Turns(r, request[r], q) /\ q # A!Idle
             /\ q.kind = request[r].kind /\ q.name = request[r].name /\ q.step = step
             /\ q.size = size /\ q.read = request[r].read
             /\ q.kind \in UploadKinds => q.content = request[r].content
<1>1. PICK p : p = request[r] /\ p \in RequestRecords /\ Fitting(p) /\ p # A!Idle
               /\ step \in StepsOf(p.kind)
    BY RequestIs
<1> DEFINE n == [p EXCEPT !.size = size, !.step = step]
<1>2. n \in RequestRecords
    <2>1. CASE p \in UploadRecords
        <3>1. step \in {"claim", "head", "put", "add", "stat", "undo", "unadd", "send", "confirm",
                        "count", "read", "merge"}
            BY <1>1, <2>1 DEF StepsOf, UploadRecords, UploadKinds
        <3> QED
            BY <2>1, <3>1 DEF UploadRecords, RequestRecords
    <2>2. CASE p \in OwnerRecords
        <3>1. step \in {"head", "delete", "subtract", "zero", "unlist", "list", "fill"}
            BY <1>1, <2>2 DEF StepsOf, OwnerRecords, OwnerKinds
        <3> QED
            BY <2>2, <3>1 DEF OwnerRecords, RequestRecords
    <2> QED
        BY <1>1, <2>1, <2>2 DEF RequestRecords
<1>3. /\ n.kind = p.kind /\ n.name = p.name /\ n.size = size /\ n.read = p.read
      /\ n.step = step /\ (n.kind \in UploadKinds => n.content = p.content /\ n.token = p.token)
    BY <1>1 DEF RequestRecords, UploadRecords, OwnerRecords, UploadKinds, OwnerKinds
<1>4. request' = [request EXCEPT ![r] = n]
    BY <1>1 DEF Sized
<1>5. PICK q \in RequestRecords :
        /\ request' = [request EXCEPT ![r] = q]
        /\ q.kind = p.kind /\ q.name = p.name /\ q.size = size /\ q.read = p.read
        /\ q.step = step /\ (q.kind \in UploadKinds => q.content = p.content /\ q.token = p.token)
    BY <1>2, <1>3, <1>4
<1>6. Fitting(q)
    BY <1>1, <1>5 DEF Fitting
<1> QED
    BY <1>1, <1>5, <1>6, IdleIsNone DEF Turns, UploadKinds

LEMMA HeadPreviousKeeps ==
    ASSUME ResultsInv, NEW r \in Clients, A!HeadPrevious(r) PROVE ResultsInv'
<1>1. PICK p \in RequestRecords :
        /\ p = request[r] /\ p # A!Idle /\ p.step = "head" /\ Fitting(p) /\ p.name \in Names
        /\ p.kind \in {"whole", "raw", "deleteOne"} /\ request[r] # A!Idle
    <2>1. request[r] # A!Idle /\ request[r].step = "head" /\ request[r].kind \in {"whole", "raw", "deleteOne"}
        BY DEF A!HeadPrevious, A!At
    <2>2. request[r] \in RequestRecords /\ Fitting(request[r])
        BY <2>1, RequestIs
    <2> QED
        BY <2>1, <2>2 DEF Fitting, RequestRecords, UploadRecords, OwnerRecords, OwnerKinds
<1>2. PICK size \in Nat : size = A!Size(p.name)
    BY <1>1, SizeTyped DEF ResultsInv
<1>9. PICK step :
        /\ step = IF p.kind = "deleteOne" THEN "delete" ELSE "put"
        /\ step \in StepsOf(p.kind) /\ step # "merge"
    BY <1>1 DEF StepsOf
<1>10. Sized(r, step, size)
    BY <1>1, <1>2, <1>9 DEF A!HeadPrevious, Sized
<1>3. PICK q \in RequestRecords :
        /\ Turns(r, p, q) /\ q # A!Idle /\ q.kind = p.kind /\ q.name = p.name
        /\ q.step = step /\ q.size = size
    BY <1>1, <1>2, <1>9, <1>10, SizedTurns
<1>4. /\ UNCHANGED <<direct, row, store, tokens, sweep, starts, moves, stale, late, revived>>
      /\ exact' \in BOOLEAN /\ (exact' => exact)
    BY DEF A!HeadPrevious, A!history, ResultsInv, ResultsTyped
<1>5. ~Owed(p) /\ ~Unvouched(p) /\ Owed(q)
    BY <1>1, <1>9, <1>3 DEF Owed, Unvouched
<1>6. \A n \in Names : ~Unlists(p, n)
    BY <1>1 DEF Unlists
<1>7. Knows(q)'
    BY <1>1, <1>9, <1>3 DEF Knows, UploadKinds
<1>8. ASSUME ResultsTyped' PROVE Balanced'
    <2>1. size = Was(p)
        BY <1>2, <1>5 DEF Was
    <2>2. size = IsNow(q, p.name)'
        BY <1>3, <1>5 DEF IsNow, Owed
    <2>3. /\ ResultsTyped /\ Apart /\ Balanced /\ OwnObjects(p) /\ p.kind \notin {"deleteAll", "list"}
          /\ (row' # None => row # None /\ row'.status = row.status)
          /\ row'.bytes = row.bytes
        BY <1>1, <1>4 DEF ResultsInv, OwnObjects
    <2> QED
        BY <1>3, <1>4, <1>8, <2>1, <2>2, <2>3, TurnBalanced
<1> QED
    BY <1>1, <1>3, <1>4, <1>5, <1>6, <1>7, <1>8, PlainTurn

LEMMA DieKeeps ==
    ASSUME ResultsInv, NEW r \in Clients, A!Die(r) PROVE ResultsInv'
<1>1. PICK p \in RequestRecords : p = request[r] /\ p # A!Idle /\ Fitting(p) /\ Turns(r, p, A!Idle)
    BY RequestIs, AnswerTurns DEF A!Die
<1>2. /\ UNCHANGED <<direct, row, store, tokens, sweep, starts, moves, stale, late, revived>>
      /\ exact' \in BOOLEAN /\ (exact' => exact)
    BY DEF A!Die, ResultsInv, ResultsTyped
<1>3. exact' => p.kind = "list" \/ p.step \in {"claim", "head"}
    BY <1>1 DEF A!Die, A!Writes, RequestRecords, UploadRecords, OwnerRecords, UploadKinds, OwnerKinds
<1>4. exact' => ~Owed(p) /\ ~Unvouched(p) /\ p.kind # "deleteAll" /\ \A n \in Names : ~Unlists(p, n)
    BY <1>1, <1>3 DEF Owed, Unvouched, Unlists, Fitting, StepsOf, UploadKinds
<1>5. ASSUME ResultsTyped' PROVE Balanced'
    BY <1>1, <1>2, <1>4, QuietTurn DEF ResultsInv
<1> QED
    BY <1>1, <1>2, <1>4, <1>5, PlainTurn

LEMMA ListSizesKeeps ==
    ASSUME ResultsInv, NEW r \in Clients, A!ListSizes(r) PROVE ResultsInv'
<1>1. PICK p \in RequestRecords :
        p = request[r] /\ p # A!Idle /\ p.step = "list" /\ Fitting(p) /\ request[r] # A!Idle
    BY RequestIs DEF A!ListSizes, A!At
<1>2. p.kind = "list"
    BY <1>1 DEF Fitting, StepsOf, RequestRecords, UploadRecords, OwnerRecords, UploadKinds, OwnerKinds
<1>3. PICK size \in Nat :
        /\ size = A!Sum(store)
        /\ Sized(r, "fill", size)
    <2>1. A!Sum(store) \in Nat
        BY StoreSumIs, SizesAtTyped, TotalNat DEF ResultsInv, ResultsTyped
    <2>2. ASSUME NEW size, size = A!Sum(store)
          PROVE  Sized(r, "fill", size)
        BY <2>2 DEF A!ListSizes, Sized
    <2> QED
        BY <2>1, <2>2
<1>4. PICK q \in RequestRecords :
        /\ Turns(r, p, q) /\ q # A!Idle /\ q.kind = p.kind /\ q.name = p.name
        /\ q.step = "fill" /\ q.size = size
    <2>1. "fill" \in StepsOf(p.kind)
        BY <1>2 DEF StepsOf
    <2> QED
        BY <1>1, <1>3, <2>1, SizedTurns
<1>5. /\ UNCHANGED <<direct, row, store, tokens, sweep, starts, moves, stale, late, revived>>
      /\ exact' \in BOOLEAN /\ (exact' => exact)
    BY DEF A!ListSizes, A!history, ResultsInv, ResultsTyped
<1>6. ~Owed(p) /\ ~Owed(q) /\ ~Unvouched(p) /\ \A n \in Names : ~Unlists(p, n)
    BY <1>2, <1>4 DEF Owed, Unvouched, Unlists, UploadKinds
<1>7. Knows(q)'
    <2>1. q.size = A!Sum(store)
        BY <1>3, <1>4
    <2>2. (q.size = A!Sum(store))'
        BY <1>5, <2>1
    <2> QED
        BY <1>2, <1>4, <2>2 DEF Knows, UploadKinds
<1>8. ASSUME ResultsTyped' PROVE Balanced'
    BY <1>2, <1>4, <1>5, <1>6, QuietTurn DEF ResultsInv
<1> QED
    BY <1>1, <1>4, <1>5, <1>6, <1>7, <1>8, PlainTurn

\* The request after it read the hashes of the row.
HasRead(r, step) ==
    request' = [request EXCEPT ![r] = [@ EXCEPT !.read = row.hashes, !.step = step]]

LEMMA ReadTurns ==
    ASSUME ResultsInv, NEW r \in Clients, request[r] # A!Idle, row # None, NEW step \in {"merge", "count"},
           request[r].kind \in UploadKinds, step \in StepsOf(request[r].kind), HasRead(r, step)
    PROVE  \E q \in RequestRecords :
             /\ Turns(r, request[r], q) /\ q # A!Idle
             /\ q.kind = request[r].kind /\ q.name = request[r].name /\ q.step = step
             /\ q.size = request[r].size /\ q.read = row.hashes /\ q.content = request[r].content
<1>1. PICK p : p = request[r] /\ p \in UploadRecords /\ Fitting(p) /\ p # A!Idle
               /\ step \in StepsOf(p.kind)
    BY RequestIs DEF RequestRecords, UploadRecords, OwnerRecords, UploadKinds, OwnerKinds
<1>2. PICK h \in [Names -> Contents \cup {None}] : h = row.hashes
    BY DEF ResultsInv, ResultsTyped, RowRecords
<1> DEFINE n == [p EXCEPT !.read = h, !.step = step]
<1>3. n \in UploadRecords
    BY <1>1 DEF UploadRecords
<1>4. /\ n.kind = p.kind /\ n.name = p.name /\ n.size = p.size /\ n.read = h
      /\ n.step = step /\ n.content = p.content /\ n.token = p.token
    BY <1>1 DEF UploadRecords
<1>5. request' = [request EXCEPT ![r] = n]
    BY <1>1, <1>2 DEF HasRead
<1>6. PICK q \in UploadRecords :
        /\ request' = [request EXCEPT ![r] = q]
        /\ q.kind = p.kind /\ q.name = p.name /\ q.size = p.size /\ q.read = h
        /\ q.step = step /\ q.content = p.content /\ q.token = p.token
    BY <1>3, <1>4, <1>5
<1>7. Fitting(q)
    BY <1>1, <1>6 DEF Fitting, UploadKinds
<1> QED
    BY <1>1, <1>2, <1>6, <1>7, IdleIsNone DEF Turns, RequestRecords

LEMMA ReadHashesKeeps ==
    ASSUME ResultsInv, NEW r \in Clients, A!ReadHashes(r) PROVE ResultsInv'
<1>1. PICK p \in RequestRecords :
        p = request[r] /\ p # A!Idle /\ p.step = "read" /\ Fitting(p) /\ request[r] # A!Idle
    BY RequestIs DEF A!ReadHashes, A!At
<1>2. p.kind \in UploadKinds /\ "merge" \in StepsOf(p.kind)
    BY <1>1 DEF Fitting, StepsOf, RequestRecords, UploadRecords, OwnerRecords, UploadKinds, OwnerKinds
<1>3. /\ UNCHANGED <<direct, row, store, tokens, sweep, starts, moves, stale, late, revived>>
      /\ exact' \in BOOLEAN /\ exact' = exact
    BY DEF A!ReadHashes, A!history, ResultsInv, ResultsTyped
<1>4. ~Owed(p) /\ p.kind # "deleteAll" /\ Unvouched(p) /\ \A n \in Names : ~Unlists(p, n)
    BY <1>1, <1>2 DEF Owed, Unvouched, Unlists, UploadKinds
<1>5. CASE row # None
    <2>1. HasRead(r, "merge")
        BY <1>5 DEF A!ReadHashes, A!There, HasRead
    <2>2. PICK q \in RequestRecords :
            /\ Turns(r, p, q) /\ q # A!Idle /\ q.kind = p.kind /\ q.name = p.name
            /\ q.step = "merge" /\ q.size = p.size /\ q.content = p.content
        BY <1>1, <1>2, <1>5, <2>1, ReadTurns
    <2>3. Unvouched(q) /\ ~Owed(q)
        BY <1>2, <2>2 DEF Unvouched, Owed, UploadKinds
    <2>4. exact => Knows(q)'
        <3>1. exact => Knows(p)
            BY <1>1, RequestIs DEF ResultsInv, Known
        <3> QED
            BY <1>1, <1>2, <1>3, <2>2, <3>1 DEF Knows, UploadKinds
    <2>5. ASSUME ResultsTyped' PROVE Balanced'
        BY <1>3, <1>4, <2>2, <2>3, QuietTurn DEF ResultsInv
    <2> QED
        BY <1>1, <1>3, <1>4, <2>2, <2>3, <2>4, <2>5, PlainTurn
<1>6. CASE row = None
    <2>1. Turns(r, p, A!Idle)
        BY <1>1, <1>6, AnswerTurns DEF A!ReadHashes, A!There
    <2>2. OwnObjects(p)
        BY <1>3 DEF OwnObjects
    <2>3. row' = None /\ store' \in [Names -> Contents \cup {Garbage, None}] /\ NothingLeft'
        BY <1>3, <1>6 DEF ResultsInv, ResultsTyped, NothingLeft, A!There
    <2>4. ASSUME ResultsTyped' PROVE Balanced'
        BY <2>3 DEF Balanced, A!There
    <2>5. stale' \in BOOLEAN /\ late' \in BOOLEAN /\ revived' \in BOOLEAN
        BY <1>3 DEF ResultsInv, ResultsTyped
    <2> QED
        BY <1>3, <2>1, <2>2, <2>3, <2>4, <2>5, TurnStep
<1> QED
    BY <1>5, <1>6

LEMMA ConfirmKeeps ==
    ASSUME ResultsInv, NEW r \in Clients, A!Confirm(r) PROVE ResultsInv'
<1>1. PICK p \in RequestRecords :
        p = request[r] /\ p # A!Idle /\ p.step = "confirm" /\ Fitting(p) /\ request[r] # A!Idle
    BY RequestIs DEF A!Confirm, A!At
<1>2. p.kind = "s3"
    BY <1>1 DEF Fitting, StepsOf, RequestRecords, UploadRecords, OwnerRecords, UploadKinds, OwnerKinds
<1>3. UNCHANGED <<direct, row, store, tokens, sweep, starts, moves, stale, late, revived>>
    BY DEF A!Confirm
<1>4. CASE A!Owns(p.by)
    <2>1. HasRead(r, "count") /\ row # None /\ exact' = exact /\ exact' \in BOOLEAN
        BY <1>1, <1>4 DEF A!Confirm, A!Owns, A!There, HasRead, ResultsInv, ResultsTyped
    <2>2. p.kind \in UploadKinds /\ "count" \in StepsOf(p.kind)
        BY <1>2 DEF UploadKinds, StepsOf
    <2>3. PICK q \in RequestRecords :
            /\ Turns(r, p, q) /\ q # A!Idle /\ q.kind = p.kind /\ q.name = p.name
            /\ q.step = "count" /\ q.size = p.size /\ q.content = p.content
        BY <1>1, <2>1, <2>2, ReadTurns
    <2>4. Unvouched(q) /\ Owed(q) /\ Owed(p) /\ Unvouched(p) /\ \A n \in Names : ~Unlists(p, n)
        BY <1>1, <1>2, <2>3 DEF Unvouched, Owed, UploadKinds, Unlists
    <2>5. exact => Knows(q)'
        <3>1. exact => Knows(p)
            BY <1>1, RequestIs DEF ResultsInv, Known
        <3> QED
            BY <1>1, <1>2, <1>3, <2>3, <3>1 DEF Knows, UploadKinds
    <2>6. ASSUME ResultsTyped' PROVE Balanced'
        BY <1>2, <1>3, <2>1, <2>3, <2>4, QuietTurn DEF ResultsInv
    <2> QED
        BY <1>1, <1>3, <2>1, <2>3, <2>4, <2>5, <2>6, PlainTurn
<1>5. CASE ~A!Owns(p.by)
    <2>1. exact' = FALSE /\ Turns(r, p, A!Idle)
        BY <1>1, <1>5, AnswerTurns DEF A!Confirm
    <2>2. ASSUME ResultsTyped' PROVE Balanced'
        BY <2>1 DEF Balanced
    <2> QED
        BY <1>1, <1>3, <2>1, <2>2, PlainTurn
<1> QED
    BY <1>4, <1>5

LEMMA ClaimKeeps ==
    ASSUME ResultsInv, NEW r \in Clients, A!Claim(r) PROVE ResultsInv'
<1>1. PICK p \in RequestRecords :
        p = request[r] /\ p # A!Idle /\ p.step = "claim" /\ Fitting(p) /\ request[r] # A!Idle
    BY RequestIs DEF A!Claim, A!At
<1>2. p.kind = "raw"
    BY <1>1 DEF Fitting, StepsOf, RequestRecords, UploadRecords, OwnerRecords, UploadKinds, OwnerKinds
<1>3. /\ UNCHANGED <<direct, row, store, sweep, starts, moves, stale, late, revived>>
      /\ exact' \in BOOLEAN /\ exact' = exact
    BY DEF A!Claim, A!history, ResultsInv, ResultsTyped
<1>4. ~Owed(p) /\ ~Unvouched(p) /\ \A n \in Names : ~Unlists(p, n)
    BY <1>1, <1>2 DEF Owed, Unvouched, Unlists
<1>5. CASE A!Claimable(p) = {}
    <2>1. Turns(r, p, A!Idle) /\ UNCHANGED tokens
        BY <1>1, <1>5, AnswerTurns DEF A!Claim
    <2>2. ASSUME ResultsTyped' PROVE Balanced'
        BY <1>2, <1>3, <1>4, <2>1, QuietTurn DEF ResultsInv
    <2> QED
        BY <1>1, <1>3, <1>4, <2>1, <2>2, PlainTurn
<1>6. CASE A!Claimable(p) # {}
    <2>1. A!Goto(r, "head") /\ "head" \in StepsOf(p.kind)
        BY <1>1, <1>2, <1>6 DEF A!Claim, StepsOf
    <2>2. PICK q \in RequestRecords :
            /\ Turns(r, p, q) /\ q # A!Idle /\ q.kind = p.kind /\ q.name = p.name /\ q.step = "head"
        BY <1>1, <2>1, GotoTurns
    <2>3. PICK t \in A!Claimable(p) : tokens' = (tokens \ {t}) \cup {[t EXCEPT !.used = TRUE]}
        BY <1>1, <1>6 DEF A!Claim
    <2>4. t \in tokens /\ t \in TokenRecords /\ t.id = p.token /\ ~t.used
        BY <2>3 DEF A!Claimable, ResultsInv, ResultsTyped
    <2> DEFINE spent == [t EXCEPT !.used = TRUE]
    <2>17. spent \in TokenRecords /\ spent.id = t.id /\ spent.used
        BY <2>4 DEF TokenRecords
    <2>5. PICK u \in TokenRecords : u.id = t.id /\ u.used /\ tokens' = (tokens \ {t}) \cup {u}
        BY <2>3, <2>17
    <2>6. tokens' \in SUBSET TokenRecords
        BY <2>5 DEF ResultsInv, ResultsTyped
    <2>7. ResultsTyped /\ TokensStand /\ Apart /\ Known /\ Vouched /\ Listed /\ Balanced /\ NothingLeft
        BY DEF ResultsInv
    <2>8. ResultsTyped'
        BY <1>3, <2>2, <2>6, <2>7, TurnTyped DEF ResultsTyped
    <2>9. TokensStand'
        <3>1. \A v \in tokens' : v = u \/ (v \in tokens /\ v.id # p.token)
            <4>1. \A v \in tokens : v.id = p.token => v = t
                BY <2>4, <2>7 DEF TokensStand
            <4>2. ASSUME NEW v \in tokens', v # u PROVE v \in tokens /\ v.id # p.token
                <5>1. v \in tokens /\ v # t
                    BY <2>5, <4>2
                <5> QED
                    BY <4>1, <5>1
            <4> QED
                BY <4>2
        <3>2. ASSUME NEW s \in A!Busy', "raw" = request'[s].kind, s # r
              PROVE  /\ s \in A!Busy /\ request'[s] = request[s] /\ request[s].token <= starts
                     /\ request[s].step # "claim" => request[s].token # p.token
                     /\ Spent(request[s])
            <4>1. s \in A!Busy /\ request'[s] = request[s]
                BY <2>2, <2>7, <3>2, TurnIs DEF A!Busy
            <4> QED
                BY <2>4, <2>7, <3>2, <4>1 DEF TokensStand, Spent
        <3>3. r \in A!Busy' /\ request'[r] = q /\ q.kind = "raw" /\ q.token = p.token /\ p.token <= starts
            <4>1. r \in A!Busy' /\ request'[r] = q
                BY <2>2, <2>7, TurnIs
            <4>2. q.kind = "raw" /\ q.token = p.token
                BY <1>2, <2>2 DEF Turns
            <4>3. p.token <= starts
                BY <1>1, <1>2, <2>7, RequestIs DEF TokensStand
            <4> QED
                BY <4>1, <4>2, <4>3
        <3>4. \A v \in tokens' : v.id = p.token => v.used
            BY <2>5, <3>1
        <3>5. ASSUME NEW s \in A!Busy', "raw" = request'[s].kind
              PROVE  request'[s].token <= starts /\ (Spent(request[s]))'
            <4>1. CASE s = r
                BY <3>3, <3>4, <4>1 DEF Spent
            <4>2. CASE s # r
                BY <2>5, <3>1, <3>2, <3>5, <4>2 DEF Spent
            <4> QED
                BY <4>1, <4>2
        <3>6. (A!TokenOnce)'
            <4>1. ASSUME NEW s \in A!Busy', NEW v \in A!Busy', s # v, "raw" = request'[s].kind,
                         "raw" = request'[v].kind, request'[s].token = request'[v].token,
                         request'[s].step # "claim", request'[v].step # "claim"
                  PROVE  FALSE
                <5>1. s # r /\ v # r
                    BY <3>2, <3>3, <4>1
                <5> QED
                    BY <2>7, <3>2, <4>1, <5>1 DEF TokensStand, A!TokenOnce, A!At
            <4> QED
                BY <4>1 DEF A!TokenOnce, A!At, A!Busy
        <3>7. \A v \in tokens' : v.id <= starts
            BY <2>4, <2>5, <2>7, <3>1 DEF TokensStand
        <3>8. \A v, x \in tokens' : v.id = x.id => v = x
            BY <2>4, <2>5, <2>7, <3>1 DEF TokensStand
        <3> QED
            BY <1>3, <3>5, <3>6, <3>7, <3>8 DEF TokensStand
    <2>10. OwnObjects(p)
        BY <1>3 DEF OwnObjects
    <2>11. ~Owed(q) /\ p.kind # "deleteAll" /\ (Knows(q))'
        BY <1>2, <2>2 DEF Owed, Knows
    <2>12. NothingLeft' /\ Apart'
        BY <1>3, <2>2, <2>7, TurnApart DEF NothingLeft, A!There
    <2>13. Known'
        BY <1>3, <2>2, <2>7, <2>8, <2>10, <2>11, TurnKnown
    <2>14. Vouched'
        <3>1. ASSUME exact, ~stale, direct, row # None, p.name \in Names
              PROVE  store[p.name] = None \/ store[p.name] = row.hashes[p.name]
            BY <1>1, <1>2, <1>4, <2>7, <3>1, RequestIs, OwnVouched
        <3>2. /\ (exact' => exact) /\ (stale => stale') /\ (row' # None => row # None)
              /\ exact' /\ ~stale' /\ direct /\ row' # None =>
                   /\ \A n \in Names : n # p.name => row'.hashes[n] = row.hashes[n]
                   /\ p.name \in Names =>
                        \/ store'[p.name] = None \/ store'[p.name] = row'.hashes[p.name]
                        \/ q # A!Idle /\ Unvouched(q)
            BY <1>3, <3>1
        <3> QED
            BY <1>3, <2>2, <2>7, <2>10, <3>2, TurnVouched
    <2>15. Listed'
        <3>1. row # None => row.files \subseteq Names
            BY <2>7 DEF ResultsTyped, RowRecords
        <3>2. /\ (exact' => exact) /\ (stale => stale') /\ (late => late') /\ (row' # None => row # None)
              /\ exact' /\ ~stale' /\ ~late' /\ row' # None /\ row'.status = "done" =>
                   /\ row.status = "done" /\ row'.files \subseteq row.files
                   /\ \A n \in row'.files :
                        /\ store'[n] = None /\ store[n] # None => q # A!Idle /\ Unlists(q, n)
                        /\ Unlists(p, n) => q # A!Idle /\ Unlists(q, n)
            BY <1>3, <1>4, <3>1
        <3> QED
            BY <2>2, <2>7, <3>2, TurnListed
    <2>16. Balanced'
        BY <1>3, <1>4, <2>2, <2>7, <2>11, QuietTurn
    <2> QED
        BY <2>8, <2>9, <2>12, <2>13, <2>14, <2>15, <2>16 DEF ResultsInv
<1> QED
    BY <1>5, <1>6

----------------------------------------------------------------------------
(* Requests begin *)

LEMMA BeginKeeps ==
    ASSUME ResultsInv, NEW r \in Clients, NEW q \in RequestRecords, Fitting(q), A!Begin(r, q),
           UNCHANGED <<tokens, late>>,
           q.step \in {"head", "claim", "send", "delete", "list"},
           q.step = "delete" => q.kind = "deleteAll",
           q.kind = "raw" => q.step = "claim" /\ q.token <= starts,
           q.kind = "s3" => q.step = "send" /\ ~direct
    PROVE  ResultsInv'
<1>1. /\ request[r] = A!Idle /\ request' = [request EXCEPT ![r] = q] /\ starts' = starts + 1
      /\ exact' = (exact /\ ~A!Clash(q))
      /\ UNCHANGED <<direct, row, store, tokens, sweep, moves, stale, late, revived>>
    BY DEF A!Begin
<1>2. /\ request' \in [Clients -> RequestRecords \cup {A!Idle}] /\ request'[r] = q /\ q # A!Idle
      /\ r \notin A!Busy /\ r \in A!Busy'
      /\ \A t \in Clients \ {r} : request'[t] = request[t]
    BY <1>1, IdleIsNone DEF ResultsInv, ResultsTyped, A!Busy
<1>3. \A t \in A!Busy' : t # r => t \in A!Busy /\ request'[t] = request[t]
    BY <1>2 DEF A!Busy
<1>4. \A t \in A!Busy : t \in A!Busy' /\ t # r /\ request'[t] = request[t]
    BY <1>2 DEF A!Busy
<1>5. ResultsTyped'
    <2>1. starts' \in Nat /\ exact' \in BOOLEAN
        BY <1>1 DEF ResultsInv, ResultsTyped
    <2>2. \A t \in A!Busy' : Fitting(request'[t])
        BY <1>2, <1>3 DEF ResultsInv, ResultsTyped
    <2> QED
        BY <1>1, <1>2, <2>1, <2>2 DEF ResultsInv, ResultsTyped, Fitting
<1>6. TokensStand'
    <2>1. starts \in Nat /\ starts' = starts + 1
        BY <1>1 DEF ResultsInv, ResultsTyped
    <2>2. ASSUME NEW t \in A!Busy', request'[t].kind = "raw"
          PROVE  request'[t].token <= starts /\ Spent(request'[t])
        <3>1. CASE t = r
            BY <1>2, <2>2, <3>1 DEF Spent
        <3>2. CASE t # r
            BY <1>3, <2>2, <3>2 DEF ResultsInv, TokensStand
        <3> QED
            BY <3>1, <3>2
    <2>3. \A i \in Nat : i <= starts => i <= starts'
        BY <2>1
    <2>4. \A t \in tokens' : t.id <= starts'
        <3>1. \A t \in tokens : t.id \in Nat /\ t.id <= starts
            BY DEF ResultsInv, ResultsTyped, TokenRecords, TokensStand
        <3> QED
            BY <1>1, <2>3, <3>1
    <2>5. ASSUME NEW t \in A!Busy', request'[t].kind = "raw"
          PROVE  request'[t].token <= starts' /\ (Spent(request[t]))'
        <3>1. request'[t].token \in Nat
            BY <1>2, <2>5 DEF A!Busy, RequestRecords, UploadRecords, OwnerRecords, OwnerKinds
        <3> QED
            BY <1>1, <2>2, <2>3, <2>5, <3>1 DEF Spent
    <2>6. (A!TokenOnce)'
        <3>1. ASSUME NEW t \in A!Busy', NEW u \in A!Busy', t # u, "raw" = request'[t].kind,
                     "raw" = request'[u].kind, request'[t].token = request'[u].token,
                     request'[t].step # "claim", request'[u].step # "claim"
              PROVE  FALSE
            <4>1. t # r /\ u # r
                BY <1>2, <3>1
            <4> QED
                BY <1>3, <3>1, <4>1 DEF ResultsInv, TokensStand, A!TokenOnce, A!At
        <3> QED
            BY <3>1 DEF A!TokenOnce, A!At, A!Busy
    <2>7. \A t, u \in tokens' : t.id = u.id => t = u
        BY <1>1 DEF ResultsInv, TokensStand
    <2> QED
        BY <2>4, <2>5, <2>6, <2>7 DEF TokensStand
<1>7. NothingLeft'
    BY <1>1 DEF ResultsInv, NothingLeft, A!There
<1>8. Apart'
    <2>1. ASSUME exact', NEW t \in A!Busy', t # r
          PROVE  ~Crossing(request'[t], request'[r]) /\ ~Crossing(request'[r], request'[t])
        <3>1. ~Crossing(request[t], q)
            BY <1>1, <1>3, <2>1 DEF A!Clash, Crossing
        <3> QED
            BY <1>2, <1>3, <2>1, <3>1 DEF Crossing
    <2>2. ASSUME exact', NEW t \in A!Busy', NEW u \in A!Busy', t # u
          PROVE  ~Crossing(request'[t], request'[u])
        <3>1. CASE t # r /\ u # r
            BY <1>1, <1>3, <2>2, <3>1 DEF ResultsInv, Apart
        <3> QED
            BY <2>1, <2>2, <3>1
    <2> QED
        BY <2>2 DEF Apart, Crossing
<1>9. Known'
    <2>1. (Knows(q))'
        BY <1>1 DEF Knows
    <2>2. ASSUME exact', NEW t \in A!Busy' PROVE (Knows(request[t]))'
        <3>1. CASE t = r
            BY <1>2, <2>1, <3>1 DEF Knows
        <3>2. CASE t # r
            <4>1. t \in A!Busy /\ request'[t] = request[t] /\ Knows(request[t])
                BY <1>1, <1>3, <2>2, <3>2 DEF ResultsInv, Known
            <4> QED
                BY <1>1, <4>1 DEF Knows
        <3> QED
            BY <3>1, <3>2
    <2> QED
        BY <2>2 DEF Known
<1>10. Vouched'
    <2>1. ASSUME exact', ~stale', direct', row' # None, NEW n \in Names
          PROVE  \/ store'[n] = None \/ store'[n] = row'.hashes[n]
                 \/ \E t \in A!Busy' : request'[t].name = n /\ Unvouched(request'[t])
        <3>1. \/ store[n] = None \/ store[n] = row.hashes[n]
              \/ \E t \in A!Busy : request[t].name = n /\ Unvouched(request[t])
            BY <1>1, <2>1 DEF ResultsInv, Vouched, A!There
        <3> QED
            BY <1>1, <1>4, <3>1
    <2> QED
        BY <2>1 DEF Vouched, A!There, Unvouched
<1>11. Listed'
    <2>1. ASSUME exact', ~stale', ~late', row' # None, row'.status = "done", NEW n \in row'.files
          PROVE  store'[n] # None \/ \E t \in A!Busy' : Unlists(request'[t], n)
        <3>1. store[n] # None \/ \E t \in A!Busy : Unlists(request[t], n)
            <4>1. Listed /\ exact /\ ~stale /\ ~late /\ row # None /\ row.status = "done" /\ n \in row.files
                <5>1. row' = row /\ (exact' => exact) /\ stale' = stale /\ late' = late
                    BY <1>1
                <5>2. Listed
                    BY DEF ResultsInv
                <5> QED
                    BY <2>1, <5>1, <5>2
            <4> QED
                BY <4>1 DEF Listed, A!There
        <3> QED
            BY <1>1, <1>4, <3>1
    <2> QED
        BY <2>1 DEF Listed, A!There, Unlists
<1>12. Balanced'
    <2>1. CASE q.kind = "deleteAll"
        <3>1. Clearing'
            <4>1. q.step \in {"delete", "zero"}
                BY <2>1 DEF Fitting, StepsOf
            <4> QED
                BY <1>2, <2>1, <4>1 DEF Clearing
        <3> QED
            BY <3>1 DEF Balanced
    <2>2. CASE q.kind # "deleteAll"
        <3>1. ~Owed(q)
            BY <2>2 DEF Owed
        <3>2. \A t \in A!Busy' : Owed(request'[t]) => t \in A!Busy /\ Owed(request[t])
            BY <1>2, <1>3, <3>1
        <3>3. \A t \in A!Busy : Owed(request[t]) =>
                /\ t \in A!Busy' /\ Owed(request'[t])
                /\ request'[t].name = request[t].name /\ request'[t].size = request[t].size
            BY <1>4
        <3>4. Clearing => Clearing'
            BY <1>4 DEF Clearing
        <3> QED
            BY <1>1, <3>2, <3>3, <3>4, BalancedQuiet DEF ResultsInv
    <2> QED
        BY <2>1, <2>2
<1> QED
    BY <1>5, <1>6, <1>7, <1>8, <1>9, <1>10, <1>11, <1>12 DEF ResultsInv

LEMMA UploadIs ==
    ASSUME NEW kind \in UploadKinds, NEW n \in Names, NEW c \in Contents, NEW w \in Workers,
           NEW step \in StepsOf(kind), step # "merge"
    PROVE  /\ A!Upload(kind, n, c, step, w) \in RequestRecords
           /\ Fitting(A!Upload(kind, n, c, step, w))
           /\ A!Upload(kind, n, c, step, w).step = step /\ A!Upload(kind, n, c, step, w).kind = kind
PROOF BY DEF A!Upload, UploadKinds, StepsOf, RequestRecords, UploadRecords, Fitting

LEMMA StartUploadKeeps ==
    ASSUME ResultsInv, NEW r \in Clients, NEW w \in Workers, NEW n \in Names, NEW c \in Contents,
           A!StartWhole(r, w, n, c) \/ A!StartS3(r, w, n, c)
    PROVE  ResultsInv'
<1>1. CASE A!StartWhole(r, w, n, c)
    <2>1. PICK q \in RequestRecords :
            /\ q = A!Upload("whole", n, c, "head", w) /\ Fitting(q) /\ q.step = "head" /\ q.kind = "whole"
        BY UploadIs DEF UploadKinds, StepsOf
    <2>2. A!Begin(r, q) /\ UNCHANGED <<tokens, late>>
        BY <1>1, <2>1 DEF A!StartWhole
    <2> QED
        BY <2>1, <2>2, BeginKeeps
<1>2. CASE A!StartS3(r, w, n, c)
    <2>1. PICK q \in RequestRecords :
            /\ q = A!Upload("s3", n, c, "send", w) /\ Fitting(q) /\ q.step = "send" /\ q.kind = "s3"
        BY UploadIs DEF UploadKinds, StepsOf
    <2>2. A!Begin(r, q) /\ UNCHANGED <<tokens, late>> /\ ~direct
        BY <1>2, <2>1 DEF A!StartS3
    <2> QED
        BY <2>1, <2>2, BeginKeeps
<1> QED
    BY <1>1, <1>2

LEMMA StartRawKeeps ==
    ASSUME ResultsInv, NEW r \in Clients, NEW t \in tokens, A!StartRaw(r, t)
    PROVE  ResultsInv'
<1>1. t \in TokenRecords /\ t.id <= starts
    BY DEF ResultsInv, ResultsTyped, TokensStand
<1>2. PICK n \in Names, c \in Contents, w \in Workers, id \in Nat :
        n = t.name /\ c = t.content /\ w = t.by /\ id = t.id
    BY <1>1 DEF TokenRecords
<1> DEFINE raw == [A!Upload("raw", n, c, "claim", w) EXCEPT !.token = id]
<1>3. raw \in RequestRecords /\ raw.kind = "raw" /\ raw.step = "claim" /\ raw.token = id
    BY DEF A!Upload, RequestRecords, UploadRecords, UploadKinds
<1>4. Fitting(raw)
    BY <1>3 DEF Fitting, StepsOf, UploadKinds
<1>5. A!Begin(r, raw) /\ UNCHANGED <<tokens, late>>
    BY <1>2 DEF A!StartRaw
<1>6. PICK q \in RequestRecords :
        /\ q.kind = "raw" /\ q.step = "claim" /\ q.token = id /\ Fitting(q) /\ A!Begin(r, q)
    BY <1>3, <1>4, <1>5
<1> QED
    BY <1>1, <1>2, <1>5, <1>6, BeginKeeps

LEMMA OwnerIs ==
    ASSUME ResultsInv, row # None, NEW kind \in OwnerKinds, NEW n \in Names \cup {None},
           NEW step \in StepsOf(kind), kind = "deleteOne" <=> n \in Names
    PROVE  /\ A!Owner(kind, n, step) \in RequestRecords /\ Fitting(A!Owner(kind, n, step))
           /\ A!Owner(kind, n, step).step = step /\ A!Owner(kind, n, step).kind = kind
<1>1. PICK files \in SUBSET Names : files = row.files
    BY DEF ResultsInv, ResultsTyped, RowRecords
<1>2. A!Owner(kind, n, step) =
        [kind |-> kind, step |-> step, name |-> n, size |-> 0, by |-> None, read |-> files]
    BY <1>1 DEF A!Owner
<1>3. step \in {"head", "delete", "subtract", "zero", "unlist", "list", "fill"}
    BY DEF StepsOf, OwnerKinds
<1> DEFINE it == [kind |-> kind, step |-> step, name |-> n, size |-> 0, by |-> None, read |-> files]
<1>4. it \in OwnerRecords /\ it.step = step /\ it.kind = kind /\ it.name = n
    BY <1>3 DEF OwnerRecords
<1>5. Fitting(it)
    BY <1>4, NoneApart DEF Fitting, OwnerKinds, UploadKinds
<1> QED
    BY <1>2, <1>4, <1>5 DEF RequestRecords

LEMMA StartOwnerKeeps ==
    ASSUME ResultsInv, NEW r \in Clients,
           A!StartDeleteAll(r) \/ A!StartList(r) \/ \E n \in Names : A!StartDeleteOne(r, n)
    PROVE  ResultsInv'
<1>0. row # None
    BY DEF A!StartDeleteAll, A!StartList, A!StartDeleteOne, A!Deletable, A!There
<1>1. CASE A!StartDeleteAll(r)
    <2>1. PICK q \in RequestRecords :
            /\ q = A!Owner("deleteAll", None, "delete") /\ Fitting(q)
            /\ q.step = "delete" /\ q.kind = "deleteAll"
        BY <1>0, OwnerIs, NoneApart DEF OwnerKinds, StepsOf
    <2>2. A!Begin(r, q) /\ UNCHANGED <<tokens, late>>
        BY <1>1, <2>1 DEF A!StartDeleteAll
    <2> QED
        BY <2>1, <2>2, BeginKeeps
<1>2. CASE A!StartList(r)
    <2>1. PICK q \in RequestRecords :
            /\ q = A!Owner("list", None, "list") /\ Fitting(q) /\ q.step = "list" /\ q.kind = "list"
        BY <1>0, OwnerIs, NoneApart DEF OwnerKinds, StepsOf
    <2>2. A!Begin(r, q) /\ UNCHANGED <<tokens, late>>
        BY <1>2, <2>1 DEF A!StartList
    <2> QED
        BY <2>1, <2>2, BeginKeeps
<1>3. ASSUME NEW n \in Names, A!StartDeleteOne(r, n) PROVE ResultsInv'
    <2>1. PICK q \in RequestRecords :
            /\ q = A!Owner("deleteOne", n, "head") /\ Fitting(q)
            /\ q.step = "head" /\ q.kind = "deleteOne"
        BY <1>0, OwnerIs DEF OwnerKinds, StepsOf
    <2>2. A!Begin(r, q) /\ UNCHANGED <<tokens, late>>
        BY <1>3, <2>1 DEF A!StartDeleteOne
    <2> QED
        BY <2>1, <2>2, BeginKeeps
<1> QED
    BY <1>1, <1>2, <1>3

----------------------------------------------------------------------------
(* The tokens, the job and the sweep *)

LEMMA TokensKeep ==
    ASSUME ResultsInv, UNCHANGED <<tokens, request, starts>> PROVE TokensStand'
PROOF BY DEF ResultsInv, TokensStand, Spent, A!TokenOnce, A!At, A!Busy

\* A step of none of the requests, that leaves the objects as they are.
LEMMA NoTurn ==
    ASSUME ResultsInv, UNCHANGED <<direct, request, store, exact, stale, late>>,
           ResultsTyped', TokensStand', NothingLeft',
           row' # None =>
             /\ row # None /\ row'.bytes = row.bytes /\ row'.hashes = row.hashes
             /\ row'.status # "done" => row.status # "done",
           row' # None /\ row'.status = "done" =>
             \/ row'.files \subseteq {n \in Names : store[n] # None}
             \/ row.status = "done" /\ row'.files = row.files
    PROVE  ResultsInv'
<1>1. Apart'
    BY DEF ResultsInv, Apart, A!Busy, Crossing
<1>2. Known'
    <2>1. \A r \in A!Busy : Knows(request[r]) => (Knows(request[r]))'
        BY DEF Knows
    <2> QED
        BY <2>1 DEF ResultsInv, Known, A!Busy
<1>3. Vouched'
    BY DEF ResultsInv, Vouched, A!There, A!Busy, Unvouched
<1>4. Listed'
    <2>1. ASSUME exact', ~stale', ~late', row' # None, row'.status = "done", NEW n \in row'.files,
                 store'[n] = None
          PROVE  \E t \in A!Busy' : Unlists(request'[t], n)
        <3>1. row.status = "done" /\ n \in row.files /\ Listed
            BY <2>1 DEF ResultsInv
        <3> QED
            BY <2>1, <3>1 DEF Listed, A!There, A!Busy
    <2> QED
        BY <2>1 DEF Listed, A!There, Unlists
<1>5. Balanced'
    <2>1. UNCHANGED <<A!Busy, Clearing>>
        BY DEF A!Busy, Clearing
    <2> QED
        BY <2>1, BalancedQuiet DEF ResultsInv
<1> QED
    BY <1>1, <1>2, <1>3, <1>4, <1>5 DEF ResultsInv

LEMMA TokenActionsKeep ==
    ASSUME ResultsInv,
           \/ \E w \in Workers, n \in Names, c \in Contents : A!StartPresign(w, n, c)
           \/ \E t \in tokens : A!TokenExpires(t)
    PROVE  ResultsInv'
<1>1. /\ UNCHANGED <<direct, row, store, request, sweep, moves, exact, stale, late, revived>>
      /\ starts' \in Nat /\ starts <= starts'
    BY DEF A!StartPresign, A!TokenExpires, A!history, ResultsInv, ResultsTyped
<1>2. /\ \A t \in tokens' : t \in tokens \/ (t \in TokenRecords /\ t.id = starts' /\ starts' = starts + 1)
      /\ \A t, u \in tokens' : t \notin tokens /\ u \notin tokens => t = u
    <2>1. ASSUME NEW w \in Workers, NEW n \in Names, NEW c \in Contents, A!StartPresign(w, n, c)
          PROVE  <1>2!:
        <3> DEFINE it == [id |-> starts', name |-> n, content |-> c, by |-> w, used |-> FALSE]
        <3>1. it \in TokenRecords /\ it.id = starts'
            BY <1>1 DEF TokenRecords
        <3>2. tokens' = tokens \cup {it} /\ starts' = starts + 1
            BY <2>1 DEF A!StartPresign
        <3> HIDE DEF it
        <3> QED
            BY <3>1, <3>2
    <2>2. ASSUME NEW t \in tokens, A!TokenExpires(t) PROVE <1>2!:
        BY <2>2 DEF A!TokenExpires
    <2> QED
        BY <2>1, <2>2
<1>3. ResultsTyped'
    <2>1. \A r \in A!Busy' : Fitting(request'[r])
        BY <1>1 DEF ResultsInv, ResultsTyped, A!Busy
    <2>2. tokens' \in SUBSET TokenRecords
        BY <1>2 DEF ResultsInv, ResultsTyped
    <2> QED
        BY <1>1, <2>1, <2>2 DEF ResultsInv, ResultsTyped, Fitting
<1>4. TokensStand'
    <2>1. /\ starts \in Nat /\ starts' \in Nat /\ starts <= starts'
          /\ \A t \in tokens : t.id \in Nat /\ t.id <= starts
          /\ \A t, u \in tokens : t.id = u.id => t = u
        BY <1>1 DEF ResultsInv, ResultsTyped, TokensStand, TokenRecords
    <2>2. \A t \in tokens' : t.id <= starts'
        BY <1>2, <2>1
    <2>3. ASSUME NEW t \in tokens', NEW u \in tokens', t.id = u.id PROVE t = u
        <3>1. CASE t \in tokens /\ u \in tokens
            BY <2>1, <2>3, <3>1
        <3>2. CASE t \notin tokens /\ u \notin tokens
            BY <1>2, <3>2
        <3>3. ASSUME NEW x \in tokens', NEW y \in tokens', x \in tokens, y \notin tokens PROVE x.id # y.id
            <4>1. x.id \in Nat /\ x.id <= starts /\ y.id = starts + 1
                BY <1>2, <2>1, <3>3
            <4> QED
                BY <2>1, <4>1
        <3> QED
            BY <2>3, <3>1, <3>2, <3>3
    <2>4. ASSUME NEW r \in A!Busy, request[r].kind = "raw"
          PROVE  request[r].token <= starts' /\ (Spent(request[r]))'
        <3>1. request[r].token \in Nat /\ request[r].token <= starts /\ Spent(request[r])
            BY <2>4, RequestIs DEF ResultsInv, TokensStand, A!Busy, RequestRecords, UploadRecords,
                                   OwnerRecords, OwnerKinds
        <3>2. \A t \in tokens' : t.id = request[r].token => t \in tokens
            <4>1. ASSUME NEW t \in tokens', t \notin tokens PROVE t.id # request[r].token
                <5>1. t.id = starts + 1
                    BY <1>2, <4>1
                <5> QED
                    BY <2>1, <3>1, <5>1
            <4> QED
                BY <4>1
        <3>3. request[r].token <= starts'
            BY <2>1, <3>1
        <3> QED
            BY <1>1, <3>1, <3>2, <3>3 DEF Spent
    <2>5. (A!TokenOnce)'
        BY <1>1 DEF ResultsInv, TokensStand, A!TokenOnce, A!At, A!Busy
    <2> QED
        BY <1>1, <2>2, <2>3, <2>4, <2>5 DEF TokensStand, A!Busy
<1>5. NothingLeft'
    BY <1>1 DEF ResultsInv, NothingLeft, A!There
<1> QED
    BY <1>1, <1>3, <1>4, <1>5, NoTurn

LEMMA JobMovesKeeps ==
    ASSUME ResultsInv, A!JobMoves PROVE ResultsInv'
<1>1. /\ row # None /\ moves' = moves + 1 /\ revived' = (revived \/ sweep # "idle")
      /\ UNCHANGED <<direct, store, tokens, request, sweep, starts, exact, stale, late>>
      /\ row \in RowRecords /\ ResultsTyped
    BY DEF A!JobMoves, A!There, ResultsInv, ResultsTyped
<1>2. PICK o \in RowRecords : o = row
    BY <1>1
<1>3. ASSUME NEW status \in {"queued", "running", "done", "failed", "cancelled"},
             NEW holder \in Workers \cup {None}, NEW last \in Workers \cup {None}
      PROVE  /\ A!Moved(status, holder, last) \in RowRecords
             /\ A!Moved(status, holder, last).status = status
             /\ A!Moved(status, holder, last).bytes = row.bytes
             /\ A!Moved(status, holder, last).hashes = row.hashes
    BY <1>2 DEF A!Moved, RowRecords
<1>4. row.holder \in Workers \cup {None} /\ row.last \in Workers \cup {None}
    BY <1>2 DEF RowRecords
<1>5. /\ row' \in RowRecords /\ row'.bytes = row.bytes /\ row'.hashes = row.hashes
      /\ row'.status # "done" => row.status # "done"
      /\ row'.status = "done" => row'.files \subseteq {n \in Names : store[n] # None}
    <2>1. CASE \E w \in Workers : A!Given(w)
        BY <1>3, <1>4, <2>1 DEF A!Given
    <2>2. CASE A!Failed \/ A!Requeued \/ A!Cancelled \/ A!Retried
        BY <1>3, <1>4, <2>2 DEF A!Failed, A!Requeued, A!Cancelled, A!Retried
    <2>3. ASSUME NEW files \in SUBSET {n \in Names : store[n] # None}, A!Finished(files)
          PROVE  <1>5!:
        <3>1. PICK m \in RowRecords : /\ m = A!Moved("done", None, row.holder) /\ m.status = "done"
                                      /\ m.bytes = row.bytes /\ m.hashes = row.hashes
            BY <1>3, <1>4
        <3> DEFINE it == [m EXCEPT !.files = files]
        <3>2. /\ it \in RowRecords /\ it.status = m.status /\ it.bytes = m.bytes /\ it.hashes = m.hashes
              /\ it.files = files
            BY DEF RowRecords
        <3>3. row' = it
            BY <2>3, <3>1 DEF A!Finished
        <3> HIDE DEF it
        <3> QED
            BY <3>1, <3>2, <3>3
    <2> QED
        BY <2>1, <2>2, <2>3 DEF A!JobMoves
<1>6. row' # None
    BY <1>5, RowIsNone
<1>7. ResultsTyped'
    <2>1. moves' \in Nat /\ revived' \in BOOLEAN
        BY <1>1 DEF ResultsTyped
    <2>2. \A r \in A!Busy' : Fitting(request'[r])
        BY <1>1 DEF ResultsTyped, A!Busy
    <2> QED
        BY <1>1, <1>5, <2>1, <2>2 DEF ResultsTyped, Fitting
<1>8. NothingLeft'
    BY <1>1, <1>6 DEF NothingLeft, A!There
<1>9. TokensStand'
    BY <1>1, TokensKeep
<1> QED
    BY <1>1, <1>5, <1>7, <1>8, <1>9, NoTurn

LEMMA SweepKeeps ==
    ASSUME ResultsInv, A!Ages \/ A!Pick \/ A!DeleteRow \/ A!SweepDies
    PROVE  ResultsInv'
<1>1. /\ UNCHANGED <<direct, store, tokens, request, starts, moves, exact, stale, late, revived>>
      /\ sweep' \in {"idle", "picked", "emptied"}
    BY DEF A!Ages, A!Pick, A!DeleteRow, A!SweepDies, A!history, ResultsInv, ResultsTyped
<1>2. /\ row' \in RowRecords \cup {None}
      /\ row' # None =>
           /\ row # None /\ row'.bytes = row.bytes /\ row'.hashes = row.hashes
           /\ row'.status = row.status /\ row'.files = row.files
    <2>1. CASE A!Ages
        <3>1. PICK o \in RowRecords : o = row
            BY <2>1 DEF A!Ages, A!There, ResultsInv, ResultsTyped
        <3> DEFINE it == [o EXCEPT !.old = TRUE]
        <3>2. /\ it \in RowRecords /\ it.status = o.status /\ it.bytes = o.bytes /\ it.hashes = o.hashes
              /\ it.files = o.files
            BY DEF RowRecords
        <3>3. row' = it /\ row # None
            BY <2>1, <3>1 DEF A!Ages, A!There
        <3> HIDE DEF it
        <3> QED
            BY <3>1, <3>2, <3>3
    <2>2. CASE A!Pick \/ A!SweepDies
        BY <2>2 DEF A!Pick, A!SweepDies, ResultsInv, ResultsTyped
    <2>3. CASE A!DeleteRow
        BY <2>3 DEF A!DeleteRow
    <2> QED
        BY <2>1, <2>2, <2>3
<1>3. ResultsTyped'
    <2>1. \A r \in A!Busy' : Fitting(request'[r])
        BY <1>1 DEF ResultsInv, ResultsTyped, A!Busy
    <2> QED
        BY <1>1, <1>2, <2>1 DEF ResultsInv, ResultsTyped, Fitting
<1>4. NothingLeft'
    <2>1. CASE A!Ages
        <3>1. row' # None \/ row = None
            BY <2>1, RowIsNone DEF A!Ages, A!There, ResultsInv, ResultsTyped, RowRecords
        <3> QED
            BY <1>1, <2>1, <3>1 DEF A!Ages, ResultsInv, NothingLeft, A!There
    <2>2. CASE A!Pick \/ A!SweepDies \/ A!DeleteRow
        BY <1>1, <2>2 DEF A!Pick, A!SweepDies, A!DeleteRow, ResultsInv, NothingLeft, A!There
    <2> QED
        BY <2>1, <2>2
<1>5. TokensStand'
    BY <1>1, TokensKeep
<1> QED
    BY <1>1, <1>2, <1>3, <1>4, <1>5, NoTurn

LEMMA EmptyBucketKeeps ==
    ASSUME ResultsInv, A!EmptyBucket PROVE ResultsInv'
<1>1. /\ UNCHANGED <<direct, row, tokens, request, starts, moves, stale, late, revived>>
      /\ sweep' = "emptied" /\ exact' = FALSE /\ store' = [n \in Names |-> None]
    BY DEF A!EmptyBucket, A!Emptied
<1>2. ResultsTyped'
    <2>1. \A r \in A!Busy' : Fitting(request'[r])
        BY <1>1 DEF ResultsInv, ResultsTyped, A!Busy
    <2>2. store' \in [Names -> Contents \cup {Garbage, None}]
        BY <1>1
    <2> QED
        BY <1>1, <2>1, <2>2 DEF ResultsInv, ResultsTyped, Fitting
<1>3. TokensStand'
    BY <1>1, TokensKeep
<1> QED
    BY <1>1, <1>2, <1>3 DEF ResultsInv, NothingLeft, Apart, Known, Vouched, Listed, Balanced

----------------------------------------------------------------------------
(* Objects are written and removed *)

LEMMA StoreTurn ==
    ASSUME ResultsInv, NEW r \in Clients, NEW p \in RequestRecords, NEW q \in RequestRecords,
           Turns(r, p, q), q # A!Idle, p.name \in Names, p.kind \notin {"deleteAll", "list"},
           NEW c \in Contents \cup {Garbage, None}, Rewrites(store', store, p.name, c),
           UNCHANGED <<direct, row, tokens, sweep, starts, moves, exact, stale>>,
           late' \in BOOLEAN, revived' \in BOOLEAN, late => late', revived => revived',
           c # None => c = store[p.name] \/ revived' \/ (sweep = "idle" /\ row # None),
           p.step # "claim", exact => Knows(q)', c = None \/ Unvouched(q),
           c = None /\ store[p.name] # None /\ row # None /\ row.status = "done" /\ ~late' =>
             Unlists(q, p.name),
           \A n \in Names : ~Unlists(p, n),
           Owed(q), IF Owed(p) THEN q.size = p.size ELSE q.size = A!Size(p.name)
    PROVE  ResultsInv'
<1>1. /\ store' \in [Names -> Contents \cup {Garbage, None}] /\ store'[p.name] = c
      /\ \A n \in Names : n # p.name => store'[n] = store[n]
    BY DEF Rewrites, ResultsInv, ResultsTyped
<1>2. OwnObjects(p)
    BY <1>1 DEF OwnObjects
<1>3. NothingLeft'
    <2>1. SUFFICES ASSUME ~revived', row = None \/ sweep = "emptied", NEW n \in Names
                   PROVE  store'[n] = None
        BY DEF NothingLeft, A!There
    <2>2. \A m \in Names : store[m] = None
        BY <2>1 DEF ResultsInv, NothingLeft, A!There
    <2>3. c = None
        BY <2>1, <2>2
    <2> QED
        BY <1>1, <2>2, <2>3
<1>4. ASSUME ResultsTyped' PROVE Balanced'
    <2>1. A!Size(p.name) \in Nat /\ q.size \in Nat /\ p.size \in Nat
        BY SizeTyped DEF ResultsInv, RequestRecords, UploadRecords, OwnerRecords
    <2>2. PICK w \in Nat : w = q.size /\ w = Was(p)
        BY <2>1 DEF Was
    <2>3. w = IsNow(q, p.name)'
        BY <2>2 DEF IsNow, Owed
    <2>4. /\ ResultsTyped /\ Apart /\ Balanced /\ (exact' => exact)
          /\ row' # None => row # None /\ row'.status = row.status
          /\ row'.bytes = row.bytes
        BY DEF ResultsInv
    <2> QED
        BY <1>2, <1>4, <2>2, <2>3, <2>4, TurnBalanced
<1>5. /\ row' \in RowRecords \cup {None} /\ exact' \in BOOLEAN /\ stale' \in BOOLEAN
      /\ (exact' => exact) /\ (stale => stale') /\ (row' # None => row # None)
      /\ row' # None => row'.files \subseteq Names
    BY DEF ResultsInv, ResultsTyped, RowRecords
<1>6. exact' /\ ~stale' /\ row' # None =>
        /\ \A n \in Names : n # p.name => row'.hashes[n] = row.hashes[n]
        /\ p.name \in Names =>
             \/ store'[p.name] = None \/ store'[p.name] = row'.hashes[p.name]
             \/ q # A!Idle /\ Unvouched(q)
    BY <1>1
<1>7. exact' /\ ~stale' /\ ~late' /\ row' # None /\ row'.status = "done" =>
        /\ row.status = "done" /\ row'.files \subseteq row.files
        /\ \A n \in row'.files :
             /\ store'[n] = None /\ store[n] # None => q # A!Idle /\ Unlists(q, n)
             /\ Unlists(p, n) => q # A!Idle /\ Unlists(q, n)
    <2>1. ASSUME ~late', row # None, row.status = "done", NEW n \in Names,
                 store'[n] = None, store[n] # None
          PROVE  Unlists(q, n)
        <3>1. n = p.name /\ c = None
            BY <1>1, <2>1
        <3> QED
            BY <2>1, <3>1
    <2> QED
        BY <1>5, <2>1
<1> QED
    BY <1>1, <1>2, <1>3, <1>4, <1>5, <1>6, <1>7, TurnStep

LEMMA PutResultKeeps ==
    ASSUME ResultsInv, NEW r \in Clients, A!Put(r) PROVE ResultsInv'
<1>1. PICK p \in RequestRecords :
        p = request[r] /\ p # A!Idle /\ p.step = "put" /\ Fitting(p) /\ request[r] # A!Idle
    BY RequestIs DEF A!Put, A!At
<1>2. /\ p \in UploadRecords /\ p.kind \in {"whole", "raw"} /\ p.kind \in UploadKinds
      /\ p.name \in Names /\ p.content \in Contents
    BY <1>1 DEF Fitting, StepsOf, RequestRecords, UploadRecords, OwnerRecords, UploadKinds, OwnerKinds
<1>3. /\ UNCHANGED <<direct, row, tokens, sweep, starts, moves, exact, stale>>
      /\ late' \in BOOLEAN /\ (late => late')
    BY DEF A!Put, ResultsInv, ResultsTyped
<1>4. Owed(p) /\ \A n \in Names : ~Unlists(p, n)
    BY <1>1, <1>2 DEF Owed, Unlists
<1>5. PICK c \in Contents \cup {Garbage, None}, step \in {"add", "stat", "undo"} :
        /\ Rewrites(store', store, p.name, c) /\ A!Goto(r, step) /\ step \in StepsOf(p.kind)
        /\ revived' \in BOOLEAN /\ (revived => revived')
        /\ c # None => c = store[p.name] \/ revived' \/ (sweep = "idle" /\ row # None)
        /\ step # "undo" => c = p.content
    <2>1. CASE A!Landed(p.name, p.content) /\ A!Goto(r, IF p.kind = "raw" THEN "stat" ELSE "add")
        <3>1. PICK step \in {"add", "stat"} : A!Goto(r, step) /\ step \in StepsOf(p.kind)
            BY <1>2, <2>1 DEF StepsOf
        <3>2. /\ Rewrites(store', store, p.name, p.content) /\ revived' \in BOOLEAN
              /\ (revived => revived') /\ (revived' \/ (sweep = "idle" /\ row # None))
            BY <2>1 DEF A!Landed, A!There, Rewrites, ResultsInv, ResultsTyped
        <3> QED
            BY <1>2, <3>1, <3>2
    <2>2. CASE p.kind = "raw" /\ A!Landed(p.name, Garbage) /\ A!Goto(r, "undo")
        <3>1. /\ Rewrites(store', store, p.name, Garbage) /\ revived' \in BOOLEAN
              /\ (revived => revived') /\ (revived' \/ (sweep = "idle" /\ row # None))
            BY <2>2 DEF A!Landed, A!There, Rewrites, ResultsInv, ResultsTyped
        <3>2. "undo" \in StepsOf(p.kind)
            BY <2>2 DEF StepsOf
        <3> QED
            BY <2>2, <3>1, <3>2
    <2>3. CASE p.kind = "raw" /\ A!Goto(r, "undo") /\ UNCHANGED <<store, revived>>
        <3>1. Rewrites(store', store, p.name, store[p.name]) /\ revived' = revived
              /\ revived' \in BOOLEAN /\ store[p.name] \in Contents \cup {Garbage, None}
            BY <1>2, <2>3 DEF Rewrites, ResultsInv, ResultsTyped
        <3>2. "undo" \in StepsOf(p.kind)
            BY <2>3 DEF StepsOf
        <3> QED
            BY <2>3, <3>1, <3>2
    <2> QED
        BY <1>1, <2>1, <2>2, <2>3 DEF A!Put
<1>6. PICK q \in RequestRecords :
        /\ Turns(r, p, q) /\ q # A!Idle /\ q.kind = p.kind /\ q.name = p.name
        /\ q.step = step /\ q.size = p.size /\ q.content = p.content
    BY <1>1, <1>2, <1>5, GotoTurns
<1>7. Owed(q) /\ Unvouched(q)
    BY <1>2, <1>5, <1>6 DEF Owed, Unvouched
<1>8. (Knows(q))'
    <2>1. store'[p.name] = c
        BY <1>2, <1>5 DEF Rewrites, ResultsInv, ResultsTyped
    <2> QED
        BY <1>2, <1>5, <1>6, <2>1 DEF Knows, UploadKinds
<1>9. row # None /\ row.status = "done" /\ ~late' => FALSE
    BY <1>1 DEF A!Put, A!Owns
<1>10. /\ p.kind \notin {"deleteAll", "list"} /\ p.step # "claim" /\ p.name \in Names
       /\ Rewrites(store', store, p.name, c) /\ revived' \in BOOLEAN /\ (revived => revived')
       /\ c # None => c = store[p.name] \/ revived' \/ (sweep = "idle" /\ row # None)
       /\ IF Owed(p) THEN q.size = p.size ELSE q.size = A!Size(p.name)
    BY <1>1, <1>2, <1>4, <1>5, <1>6
<1>11. /\ exact => (Knows(q))'
       /\ c = None \/ Unvouched(q)
       /\ c = None /\ store[p.name] # None /\ row # None /\ row.status = "done" /\ ~late' =>
            Unlists(q, p.name)
       /\ \A n \in Names : ~Unlists(p, n)
    BY <1>4, <1>7, <1>8, <1>9
<1>12. /\ Turns(r, p, q) /\ q # A!Idle /\ Owed(q) /\ late' \in BOOLEAN /\ (late => late')
       /\ UNCHANGED <<direct, row, tokens, sweep, starts, moves, exact, stale>>
    BY <1>3, <1>6, <1>7
<1> QED
    BY <1>10, <1>11, <1>12, StoreTurn

LEMMA SendS3Keeps ==
    ASSUME ResultsInv, NEW r \in Clients, A!SendS3(r) PROVE ResultsInv'
<1>1. PICK p \in RequestRecords :
        p = request[r] /\ p # A!Idle /\ p.step = "send" /\ Fitting(p) /\ request[r] # A!Idle
    BY RequestIs DEF A!SendS3, A!At
<1>2. /\ p.kind = "s3" /\ p.kind \in UploadKinds /\ p.name \in Names /\ p.content \in Contents
      /\ "confirm" \in StepsOf(p.kind)
    BY <1>1 DEF Fitting, StepsOf, RequestRecords, UploadRecords, OwnerRecords, UploadKinds, OwnerKinds
<1>3. PICK size \in Nat : size = A!Size(p.name)
    BY <1>2, SizeTyped DEF ResultsInv
<1>4. /\ UNCHANGED <<direct, row, tokens, sweep, starts, moves, exact, stale>>
      /\ late' \in BOOLEAN /\ (late => late')
    BY DEF A!SendS3, ResultsInv, ResultsTyped
<1>5. Sized(r, "confirm", size)
    BY <1>1, <1>3 DEF A!SendS3, Sized
<1>6. PICK c \in Contents \cup {Garbage} :
        /\ Rewrites(store', store, p.name, c) /\ revived' \in BOOLEAN
        /\ (revived => revived') /\ (revived' \/ (sweep = "idle" /\ row # None))
    BY <1>1, <1>2 DEF A!SendS3, A!Landed, A!There, Rewrites, ResultsInv, ResultsTyped
<1>7. PICK q \in RequestRecords :
        /\ Turns(r, p, q) /\ q # A!Idle /\ q.kind = p.kind /\ q.name = p.name
        /\ q.step = "confirm" /\ q.size = size /\ q.content = p.content
    BY <1>1, <1>2, <1>5, SizedTurns
<1>8. ~Owed(p) /\ Owed(q) /\ Unvouched(q) /\ \A n \in Names : ~Unlists(p, n)
    BY <1>1, <1>2, <1>7 DEF Owed, Unlists, Unvouched
<1>9. c # None
    BY NoneApart
<1>10. exact => (Knows(q))'
    <2>1. store'[p.name] = c
        BY <1>2, <1>6 DEF Rewrites, ResultsInv, ResultsTyped
    <2>2. exact => Knows(p)
        BY <1>1, RequestIs DEF ResultsInv, Known
    <2> QED
        BY <1>2, <1>4, <1>7, <1>9, <2>1, <2>2 DEF Knows
<1> QED
    BY <1>1, <1>2, <1>3, <1>4, <1>6, <1>7, <1>8, <1>9, <1>10, StoreTurn

LEMMA DeleteOneKeeps ==
    ASSUME ResultsInv, NEW r \in Clients, A!DeleteOne(r) PROVE ResultsInv'
<1>1. PICK p \in RequestRecords :
        /\ p = request[r] /\ p # A!Idle /\ p.step = "delete" /\ Fitting(p) /\ request[r] # A!Idle
        /\ p.kind = "deleteOne"
    BY RequestIs DEF A!DeleteOne, A!At
<1>2. p.name \in Names /\ "subtract" \in StepsOf(p.kind)
    BY <1>1 DEF Fitting, StepsOf
<1>3. /\ UNCHANGED <<direct, row, tokens, sweep, starts, moves, exact, stale, late, revived>>
      /\ late' \in BOOLEAN /\ revived' \in BOOLEAN
      /\ A!Goto(r, "subtract") /\ Rewrites(store', store, p.name, None)
    BY <1>1 DEF A!DeleteOne, A!history, Rewrites, ResultsInv, ResultsTyped
<1>4. PICK q \in RequestRecords :
        /\ Turns(r, p, q) /\ q # A!Idle /\ q.kind = p.kind /\ q.name = p.name
        /\ q.step = "subtract" /\ q.size = p.size
    BY <1>1, <1>2, <1>3, GotoTurns
<1>5. Owed(p) /\ Owed(q) /\ Unlists(q, p.name) /\ \A n \in Names : ~Unlists(p, n)
    BY <1>1, <1>4 DEF Owed, Unlists
<1>6. (Knows(q))'
    <2>1. store'[p.name] = None
        BY <1>2, <1>3 DEF Rewrites, ResultsInv, ResultsTyped
    <2> QED
        BY <1>1, <1>4, <2>1 DEF Knows, UploadKinds
<1> QED
    BY <1>1, <1>2, <1>3, <1>4, <1>5, <1>6, StoreTurn

LEMMA DeleteNextKeeps ==
    ASSUME ResultsInv, NEW r \in Clients, A!DeleteNext(r) PROVE ResultsInv'
<1>1. PICK p \in RequestRecords :
        /\ p = request[r] /\ p # A!Idle /\ p.step = "delete" /\ Fitting(p) /\ request[r] # A!Idle
        /\ p.kind = "deleteAll"
    BY RequestIs DEF A!DeleteNext, A!At
<1>2. p.name = None /\ p.name \notin Names /\ p.read \in SUBSET Names /\ "zero" \in StepsOf(p.kind)
    BY <1>1, NoneApart DEF Fitting, StepsOf, RequestRecords, UploadRecords, OwnerRecords, UploadKinds
<1>3. UNCHANGED <<direct, row, tokens, sweep, starts, moves, exact, stale, late, revived>>
    BY DEF A!DeleteNext, A!history
<1>4. ~Owed(p) /\ ~Unvouched(p)
    BY <1>1 DEF Owed, Unvouched, UploadKinds
<1>5. PICK q \in RequestRecords :
        /\ Turns(r, p, q) /\ q # A!Idle /\ q.kind = p.kind /\ q.name = p.name
        /\ q.step \in {"delete", "zero"} /\ store' \in [Names -> Contents \cup {Garbage, None}]
        /\ \A n \in Names : store'[n] \in {store[n], None}
    <2>1. CASE {n \in p.read : store[n] # None} = {}
        <3>1. A!Goto(r, "zero") /\ store' = store
            BY <1>1, <2>1 DEF A!DeleteNext
        <3>2. store \in [Names -> Contents \cup {Garbage, None}]
            BY DEF ResultsInv, ResultsTyped
        <3> QED
            BY <1>1, <1>2, <3>1, <3>2, GotoTurns
    <2>2. CASE {n \in p.read : store[n] # None} # {}
        <3>1. PICK n \in Names : store' = [store EXCEPT ![n] = None] /\ request' = request
            BY <1>1, <1>2, <2>2 DEF A!DeleteNext
        <3>2. /\ store' \in [Names -> Contents \cup {Garbage, None}]
              /\ \A m \in Names : store'[m] \in {store[m], None}
            BY <3>1 DEF ResultsInv, ResultsTyped
        <3>3. Turns(r, p, p)
            BY <1>1, <3>1 DEF Turns, ResultsInv, ResultsTyped
        <3> QED
            BY <1>1, <3>2, <3>3
    <2> QED
        BY <2>1, <2>2
<1>6. OwnObjects(p)
    BY <1>1, <1>2, <1>5 DEF OwnObjects
<1>7. NothingLeft'
    BY <1>3, <1>5 DEF ResultsInv, NothingLeft, A!There
<1>8. Balanced'
    <2>1. r \in A!Busy' /\ request'[r] = q
        BY <1>5, TurnIs DEF ResultsInv
    <2> QED
        BY <1>1, <1>5, <2>1 DEF Balanced, Clearing
<1>9. (Knows(q))' /\ \A n \in Names : Unlists(q, n)
    BY <1>1, <1>5 DEF Knows, Unlists, UploadKinds
<1>10. /\ row' \in RowRecords \cup {None} /\ exact' \in BOOLEAN /\ stale' \in BOOLEAN
       /\ late' \in BOOLEAN /\ revived' \in BOOLEAN
       /\ (exact' => exact) /\ (stale => stale') /\ (late => late') /\ (row' # None => row # None)
       /\ row' # None => row'.files \subseteq Names
    BY <1>3 DEF ResultsInv, ResultsTyped, RowRecords
<1>11. exact' /\ ~stale' /\ row' # None =>
         /\ \A n \in Names : n # p.name => row'.hashes[n] = row.hashes[n]
         /\ p.name \in Names =>
              \/ store'[p.name] = None \/ store'[p.name] = row'.hashes[p.name]
              \/ q # A!Idle /\ Unvouched(q)
    BY <1>2, <1>3
<1>12. exact' /\ ~stale' /\ ~late' /\ row' # None /\ row'.status = "done" =>
         /\ row.status = "done" /\ row'.files \subseteq row.files
         /\ \A n \in row'.files :
              /\ store'[n] = None /\ store[n] # None => q # A!Idle /\ Unlists(q, n)
              /\ Unlists(p, n) => q # A!Idle /\ Unlists(q, n)
    BY <1>3, <1>5, <1>9, <1>10
<1> QED
    BY <1>1, <1>3, <1>5, <1>6, <1>7, <1>8, <1>9, <1>10, <1>11, <1>12, TurnStep

----------------------------------------------------------------------------
(* The row is written *)

LEMMA RowTurn ==
    ASSUME ResultsInv, NEW r \in Clients, NEW p \in RequestRecords,
           NEW q \in RequestRecords \cup {A!Idle}, Turns(r, p, q), p.step # "claim",
           UNCHANGED <<direct, store, tokens, sweep, starts, moves, late, revived>>,
           row' \in RowRecords \cup {None}, row' = None <=> row = None,
           row # None => row'.status = row.status,
           exact' \in BOOLEAN, stale' \in BOOLEAN, exact' => exact, stale => stale',
           q # A!Idle /\ exact' => Knows(q)',
           exact' /\ ~stale' /\ direct /\ row # None =>
             /\ \A n \in Names : n # p.name => row'.hashes[n] = row.hashes[n]
             /\ p.name \in Names =>
                  \/ store[p.name] = None \/ store[p.name] = row'.hashes[p.name]
                  \/ q # A!Idle /\ Unvouched(q),
           exact' /\ ~stale' /\ row # None =>
             /\ row'.files \subseteq row.files
             /\ \A n \in row'.files : Unlists(p, n) => q # A!Idle /\ Unlists(q, n),
           ResultsTyped' => Balanced'
    PROVE  ResultsInv'
<1>1. OwnObjects(p)
    BY DEF OwnObjects
<1>2. NothingLeft'
    BY DEF ResultsInv, NothingLeft, A!There
<1>3. /\ store' \in [Names -> Contents \cup {Garbage, None}] /\ late' \in BOOLEAN
      /\ revived' \in BOOLEAN /\ (late => late') /\ (row' # None => row # None)
    BY DEF ResultsInv, ResultsTyped
<1>4. exact' /\ ~stale' /\ direct /\ row' # None =>
        /\ \A n \in Names : n # p.name => row'.hashes[n] = row.hashes[n]
        /\ p.name \in Names =>
             \/ store'[p.name] = None \/ store'[p.name] = row'.hashes[p.name]
             \/ q # A!Idle /\ Unvouched(q)
    OBVIOUS
<1>5. exact' /\ ~stale' /\ ~late' /\ row' # None /\ row'.status = "done" =>
        /\ row.status = "done" /\ row'.files \subseteq row.files
        /\ \A n \in row'.files :
             /\ store'[n] = None /\ store[n] # None => q # A!Idle /\ Unlists(q, n)
             /\ Unlists(p, n) => q # A!Idle /\ Unlists(q, n)
    OBVIOUS
<1> QED
    BY <1>1, <1>2, <1>3, <1>4, <1>5, TurnStep

LEMMA UndoKeeps ==
    ASSUME ResultsInv, NEW r \in Clients, A!Undo(r) PROVE ResultsInv'
<1>1. PICK p \in RequestRecords :
        p = request[r] /\ p # A!Idle /\ p.step = "undo" /\ Fitting(p) /\ request[r] # A!Idle
    BY RequestIs DEF A!Undo, A!At
<1>2. p.kind = "raw" /\ p.kind \in UploadKinds /\ p.name \in Names /\ "unadd" \in StepsOf(p.kind)
    BY <1>1 DEF Fitting, StepsOf, RequestRecords, UploadRecords, OwnerRecords, UploadKinds, OwnerKinds
<1>3. /\ UNCHANGED <<direct, row, tokens, sweep, starts, moves, stale, revived>>
      /\ A!Goto(r, "unadd")
    BY DEF A!Undo
<1>4. PICK q \in RequestRecords :
        /\ Turns(r, p, q) /\ q # A!Idle /\ q.kind = p.kind /\ q.name = p.name
        /\ q.step = "unadd" /\ q.size = p.size
    BY <1>1, <1>2, <1>3, GotoTurns
<1>5. Owed(p) /\ Owed(q) /\ \A n \in Names : ~Unlists(p, n)
    BY <1>1, <1>2, <1>4 DEF Owed, Unlists
<1>6. store'[p.name] = None => (Knows(q))'
    BY <1>2, <1>4 DEF Knows
<1>7. CASE /\ store' = A!Undone(p.name) /\ late' = (late \/ ~A!Owns(p.by)) /\ exact' = exact
    <2>1. /\ late' \in BOOLEAN /\ (late => late') /\ revived' \in BOOLEAN /\ UNCHANGED exact
          /\ Rewrites(store', store, p.name, None)
        BY <1>3, <1>7 DEF A!Undone, Rewrites, ResultsInv, ResultsTyped
    <2>2. (Knows(q))'
        BY <1>2, <1>6, <2>1 DEF Rewrites, ResultsInv, ResultsTyped
    <2>3. row # None /\ row.status = "done" /\ ~late' => FALSE
        BY <1>7 DEF A!Owns
    <2> QED
        BY <1>1, <1>2, <1>3, <1>4, <1>5, <2>1, <2>2, <2>3, StoreTurn
<1>8. CASE exact' = (exact /\ store[p.name] = None) /\ UNCHANGED <<store, late>>
    <2>1. /\ exact' \in BOOLEAN /\ (exact' => exact /\ store[p.name] = None)
          /\ row' \in RowRecords \cup {None} /\ stale' \in BOOLEAN
          /\ row # None => row.files \subseteq Names
        BY <1>3, <1>8 DEF ResultsInv, ResultsTyped, RowRecords
    <2>2. exact' => (Knows(q))'
        BY <1>6, <1>8, <2>1
    <2>3. ASSUME ResultsTyped' PROVE Balanced'
        BY <1>2, <1>3, <1>4, <1>5, <1>8, <2>1, QuietTurn DEF ResultsInv
    <2>4. exact' /\ ~stale' /\ direct /\ row # None =>
            /\ \A n \in Names : n # p.name => row'.hashes[n] = row.hashes[n]
            /\ p.name \in Names =>
                 \/ store[p.name] = None \/ store[p.name] = row'.hashes[p.name]
                 \/ q # A!Idle /\ Unvouched(q)
        BY <1>3, <2>1
    <2>5. exact' /\ ~stale' /\ row # None =>
            /\ row'.files \subseteq row.files
            /\ \A n \in row'.files : Unlists(p, n) => q # A!Idle /\ Unlists(q, n)
        BY <1>3, <1>5, <2>1
    <2> QED
        BY <1>1, <1>3, <1>4, <1>8, <2>1, <2>2, <2>3, <2>4, <2>5, RowTurn
<1> QED
    BY <1>1, <1>7, <1>8 DEF A!Undo

\* A request books what changed.
LEMMA CounterTurn ==
    ASSUME ResultsInv, NEW r \in Clients, NEW p \in RequestRecords,
           NEW q \in RequestRecords \cup {A!Idle}, Turns(r, p, q), p.step # "claim",
           p.kind \notin {"deleteAll", "list"}, p.name \in Names,
           UNCHANGED <<direct, store, tokens, sweep, starts, moves, stale, late, revived>>,
           exact' \in BOOLEAN, exact' => exact, NEW d \in Int,
           (row' = row /\ (exact' => d = 0)) \/ (row' = A!Added(d) /\ (exact' => A!Known)),
           exact' => d = IsNow(q, p.name) - Was(p),
           q # A!Idle /\ exact' => Knows(q)',
           exact' /\ Unvouched(p) => (q # A!Idle /\ Unvouched(q)) \/ store[p.name] = None,
           \A n \in Names : Unlists(p, n) => q # A!Idle /\ Unlists(q, n)
    PROVE  ResultsInv'
<1>1. ResultsTyped /\ row \in RowRecords \cup {None}
    BY DEF ResultsInv, ResultsTyped
<1>2. PICK a1 : a1 = A!Added(d)
    OBVIOUS
<1>3. /\ a1 \in RowRecords \cup {None}
      /\ row = None => a1 = None
      /\ row # None =>
           /\ a1 # None /\ a1.status = row.status /\ a1.files = row.files /\ a1.hashes = row.hashes
           /\ row.bytes = None => a1.bytes = IF d >= 0 THEN d ELSE 0
           /\ row.bytes # None => a1.bytes = IF row.bytes + d >= 0 THEN row.bytes + d ELSE 0
    BY <1>1, <1>2, AddedIs
<1>4. /\ row' \in RowRecords \cup {None} /\ (row' = None <=> row = None)
      /\ row # None =>
           /\ row'.status = row.status /\ row'.files = row.files /\ row'.hashes = row.hashes
           /\ row.files \subseteq Names
    BY <1>1, <1>2, <1>3 DEF RowRecords
<1>5. r \in A!Busy /\ request[r] = p
    BY <1>1, TurnIs
<1>6. exact' /\ ~stale' /\ direct /\ row # None =>
        /\ \A n \in Names : n # p.name => row'.hashes[n] = row.hashes[n]
        /\ p.name \in Names =>
             \/ store[p.name] = None \/ store[p.name] = row'.hashes[p.name]
             \/ q # A!Idle /\ Unvouched(q)
    <2>1. ASSUME exact', ~stale', direct, row # None, ~Unvouched(p)
          PROVE  store[p.name] = None \/ store[p.name] = row.hashes[p.name]
        BY <1>5, <2>1, OwnVouched DEF ResultsInv
    <2> QED
        BY <1>4, <2>1
<1>7. ASSUME ResultsTyped' PROVE Balanced'
    <2>1. ResultsTyped /\ Apart /\ Balanced /\ OwnObjects(p) /\ (exact' => exact)
          /\ (row' # None => row # None /\ row'.status = row.status)
        BY <1>4 DEF ResultsInv, OwnObjects
    <2>2. A!Size(p.name) \in Nat /\ p.size \in Nat /\ (q # A!Idle => q.size \in Nat)
        BY SizeTyped DEF ResultsInv, RequestRecords, UploadRecords, OwnerRecords
    <2>3. PICK w \in Nat : w = Was(p)
        BY <2>2 DEF Was
    <2>4. PICK v \in Nat : v = IsNow(q, p.name)
        BY <2>2 DEF IsNow
    <2>5. v = IsNow(q, p.name)'
        BY <2>4 DEF IsNow, A!Size, Owed
    <2>6. ASSUME exact', row' # None
          PROVE  \/ row'.bytes = row.bytes /\ v = w
                 \/ /\ row.bytes \in Nat
                    /\ row'.bytes = IF row.bytes + (v - w) >= 0 THEN row.bytes + (v - w) ELSE 0
                 \/ /\ row.bytes = None /\ row.status # "done"
                    /\ row'.bytes = IF v - w >= 0 THEN v - w ELSE 0
        <3>1. d = v - w
            BY <2>3, <2>4, <2>6
        <3>2. CASE row' = row /\ d = 0
            BY <3>1, <3>2
        <3>3. CASE row' = a1 /\ A!Known
            <4>1. row # None
                BY <1>4, <2>6
            <4>2. row.bytes \in Nat \cup {None}
                BY <1>1, <4>1 DEF RowRecords
            <4>3. row.bytes = None => row.status # "done"
                BY <2>6, <3>3, <4>1 DEF A!Known, A!There, A!Ended
            <4>4. row.bytes # None =>
                    row'.bytes = IF row.bytes + (v - w) >= 0 THEN row.bytes + (v - w) ELSE 0
                BY <1>3, <3>1, <3>3, <4>1
            <4>5. row.bytes = None => row'.bytes = IF v - w >= 0 THEN v - w ELSE 0
                BY <1>3, <3>1, <3>3, <4>1
            <4> QED
                BY <4>2, <4>3, <4>4, <4>5
        <3> QED
            BY <1>2, <2>6, <3>2, <3>3
    <2> QED
        BY <1>7, <2>1, <2>3, <2>5, <2>6, TurnBalanced
<1>8. stale' \in BOOLEAN /\ (stale => stale') /\ (exact' => exact)
    BY <1>1 DEF ResultsTyped
<1>9. exact' /\ ~stale' /\ row # None =>
        /\ row'.files \subseteq row.files
        /\ \A n \in row'.files : Unlists(p, n) => q # A!Idle /\ Unlists(q, n)
    BY <1>4
<1> QED
    BY <1>4, <1>6, <1>7, <1>8, <1>9, RowTurn

LEMMA AddKeeps ==
    ASSUME ResultsInv, NEW r \in Clients, A!Add(r) PROVE ResultsInv'
<1>1. PICK p \in RequestRecords :
        /\ p = request[r] /\ p # A!Idle /\ p.kind \in {"whole", "raw"} /\ Fitting(p) /\ request[r] # A!Idle
        /\ p.step = IF p.kind = "raw" THEN "stat" ELSE "add"
    BY RequestIs DEF A!Add, A!At
<1>2. p.name \in Names /\ "read" \in StepsOf(p.kind) /\ p.size \in Nat /\ p.kind \in UploadKinds
    BY <1>1 DEF StepsOf, RequestRecords, UploadRecords, OwnerRecords, OwnerKinds, UploadKinds
<1>3. /\ UNCHANGED <<direct, store, tokens, sweep, starts, moves, stale, late, revived>>
      /\ exact' = (exact /\ A!Known) /\ exact' \in BOOLEAN
      /\ A!Goto(r, "read") /\ row' = A!Added(A!Delta(p, A!Size(p.name)))
    BY <1>1 DEF A!Add
<1>4. PICK q \in RequestRecords :
        /\ Turns(r, p, q) /\ q # A!Idle /\ q.kind = p.kind /\ q.name = p.name
        /\ q.step = "read" /\ q.content = p.content
    BY <1>1, <1>2, <1>3, GotoTurns
<1>5. Owed(p) /\ ~Owed(q) /\ Unvouched(q) /\ \A n \in Names : ~Unlists(p, n)
    BY <1>1, <1>2, <1>4 DEF Owed, Unvouched, Unlists
<1>6. A!Size(p.name) \in Nat
    BY <1>2, SizeTyped DEF ResultsInv
<1>7. PICK d \in Int : d = A!Delta(p, A!Size(p.name)) /\ d = IsNow(q, p.name) - Was(p)
    BY <1>2, <1>5, <1>6 DEF A!Delta, IsNow, Was
<1>8. exact' => (Knows(q))'
    <2>1. exact => Knows(p)
        BY <1>1, RequestIs DEF ResultsInv, Known
    <2> QED
        BY <1>1, <1>2, <1>3, <1>4, <2>1 DEF Knows, UploadKinds
<1>9. p.step # "claim" /\ p.kind \notin {"deleteAll", "list"} /\ row' = A!Added(d) /\ (exact' => A!Known)
    BY <1>1, <1>3, <1>7
<1>10. exact' => exact
    BY <1>3
<1> QED
    BY <1>2, <1>3, <1>4, <1>5, <1>7, <1>8, <1>9, <1>10, CounterTurn

LEMMA UnaddKeeps ==
    ASSUME ResultsInv, NEW r \in Clients, A!Unadd(r) PROVE ResultsInv'
<1>1. PICK p \in RequestRecords :
        p = request[r] /\ p # A!Idle /\ p.step = "unadd" /\ Fitting(p) /\ request[r] # A!Idle
    BY RequestIs DEF A!Unadd, A!At
<1>2. p.name \in Names /\ p.kind = "raw" /\ p.size \in Nat
    BY <1>1 DEF Fitting, StepsOf, RequestRecords, UploadRecords, OwnerRecords, UploadKinds, OwnerKinds
<1>3. /\ UNCHANGED <<direct, store, tokens, sweep, starts, moves, stale, late, revived>>
      /\ exact' = (exact /\ (p.size = 0 \/ A!Known)) /\ exact' \in BOOLEAN
      /\ Turns(r, p, A!Idle) /\ row' = IF p.size = 0 THEN row ELSE A!Added(-p.size)
    BY <1>1, AnswerTurns DEF A!Unadd
<1>4. Owed(p) /\ ~Unvouched(p) /\ \A n \in Names : ~Unlists(p, n)
    BY <1>1, <1>2 DEF Owed, Unvouched, Unlists
<1>5. exact' => A!Size(p.name) = 0
    <2>1. exact => Knows(p)
        BY <1>1, RequestIs DEF ResultsInv, Known
    <2> QED
        BY <1>1, <1>3, <2>1 DEF Knows, A!Size
<1>6. PICK d \in Int : d = -p.size /\ (p.size = 0 => d = 0)
    BY <1>2
<1>7. exact' => d = IsNow(A!Idle, p.name) - Was(p)
    BY <1>2, <1>4, <1>5, <1>6 DEF IsNow, Was
<1>8. /\ p.step # "claim" /\ p.kind \notin {"deleteAll", "list"}
      /\ (row' = row /\ (exact' => d = 0)) \/ (row' = A!Added(d) /\ (exact' => A!Known))
      /\ exact' => exact
    BY <1>1, <1>2, <1>3, <1>6
<1> QED
    BY <1>2, <1>3, <1>4, <1>7, <1>8, CounterTurn

LEMMA SubtractKeeps ==
    ASSUME ResultsInv, NEW r \in Clients, A!Subtract(r) PROVE ResultsInv'
<1>1. PICK p \in RequestRecords :
        p = request[r] /\ p # A!Idle /\ p.step = "subtract" /\ Fitting(p) /\ request[r] # A!Idle
    BY RequestIs DEF A!Subtract, A!At
<1>2. /\ p.kind = "deleteOne" /\ p.name \in Names /\ p.size \in Nat
      /\ "unlist" \in StepsOf(p.kind)
    BY <1>1 DEF Fitting, StepsOf, RequestRecords, UploadRecords, OwnerRecords, UploadKinds, OwnerKinds
<1>3. /\ UNCHANGED <<direct, store, tokens, sweep, starts, moves, stale, late, revived>>
      /\ exact' = (exact /\ (p.size = 0 \/ A!Known)) /\ exact' \in BOOLEAN /\ A!Goto(r, "unlist")
      /\ row' = IF p.size = 0 THEN row ELSE A!Added(-p.size)
    BY <1>1 DEF A!Subtract
<1>4. PICK q \in RequestRecords :
        /\ Turns(r, p, q) /\ q # A!Idle /\ q.kind = p.kind /\ q.name = p.name /\ q.step = "unlist"
    BY <1>1, <1>2, <1>3, GotoTurns
<1>5. /\ Owed(p) /\ ~Owed(q) /\ ~Unvouched(p)
      /\ \A n \in Names : Unlists(p, n) => Unlists(q, n)
    BY <1>1, <1>2, <1>4 DEF Owed, Unvouched, Unlists, UploadKinds
<1>6. exact' => store[p.name] = None /\ A!Size(p.name) = 0
    <2>1. exact => Knows(p)
        BY <1>1, RequestIs DEF ResultsInv, Known
    <2> QED
        BY <1>1, <1>2, <1>3, <2>1 DEF Knows, A!Size
<1>7. PICK d \in Int : d = -p.size /\ (p.size = 0 => d = 0)
    BY <1>2
<1>8. exact' => d = IsNow(q, p.name) - Was(p)
    BY <1>2, <1>5, <1>6, <1>7 DEF IsNow, Was
<1>9. exact' => (Knows(q))'
    BY <1>2, <1>3, <1>4, <1>6 DEF Knows, UploadKinds
<1>10. /\ p.step # "claim" /\ p.kind \notin {"deleteAll", "list"}
       /\ (row' = row /\ (exact' => d = 0)) \/ (row' = A!Added(d) /\ (exact' => A!Known))
       /\ exact' => exact
    BY <1>1, <1>2, <1>3, <1>7
<1> QED
    BY <1>2, <1>3, <1>4, <1>5, <1>8, <1>9, <1>10, CounterTurn

LEMMA CountKeeps ==
    ASSUME ResultsInv, NEW r \in Clients, A!Count(r) PROVE ResultsInv'
<1>1. PICK p \in RequestRecords :
        p = request[r] /\ p # A!Idle /\ p.step = "count" /\ Fitting(p) /\ request[r] # A!Idle
    BY RequestIs DEF A!Count, A!At
<1>2. /\ p.kind = "s3" /\ p.kind \in UploadKinds /\ p.name \in Names /\ p.size \in Nat
      /\ p.content \in Contents /\ "read" \in StepsOf(p.kind)
    BY <1>1 DEF Fitting, StepsOf, RequestRecords, UploadRecords, OwnerRecords, UploadKinds, OwnerKinds
<1>3. UNCHANGED <<direct, store, tokens, sweep, starts, moves, stale, late, revived>>
    BY DEF A!Count
<1>4. /\ exact' \in BOOLEAN
      /\ exact' => /\ exact /\ A!Known
                   /\ ~A!FirstConfirm(p) => A!Size(p.name) = p.size
                   /\ A!FirstConfirm(p) => p.size = 0
    BY <1>1 DEF A!Count
<1>5. row' = IF store[p.name] # None /\ A!FirstConfirm(p) THEN A!Added(A!Size(p.name)) ELSE row
    BY <1>1 DEF A!Count
<1>6. exact' => store[p.name] # None /\ ~direct
    <2>1. exact => Knows(p)
        BY <1>1, RequestIs DEF ResultsInv, Known
    <2> QED
        BY <1>1, <1>2, <1>4, <2>1 DEF Knows
<1>7. PICK q \in RequestRecords \cup {A!Idle} :
        /\ Turns(r, p, q)
        /\ q = A!Idle => store[p.name] = None
        /\ q # A!Idle => q.kind = p.kind /\ q.name = p.name /\ q.step = "read" /\ q.content = p.content
    <2>1. CASE store[p.name] = None
        BY <1>1, <2>1, AnswerTurns DEF A!Count
    <2>2. CASE store[p.name] # None
        <3>1. A!Goto(r, "read")
            BY <1>1, <2>2 DEF A!Count
        <3> QED
            BY <1>1, <1>2, <2>2, <3>1, GotoTurns
    <2> QED
        BY <2>1, <2>2
<1>8. /\ Owed(p) /\ (q # A!Idle => ~Owed(q) /\ Unvouched(q)) /\ \A n \in Names : ~Unlists(p, n)
    BY <1>1, <1>2, <1>7 DEF Owed, Unvouched, Unlists
<1>9. PICK d \in Int : d = IF A!FirstConfirm(p) THEN A!Size(p.name) ELSE 0
    BY <1>2, SizeTyped DEF ResultsInv
<1>10. exact' => d = IsNow(q, p.name) - Was(p)
    <2>1. A!Size(p.name) \in Nat
        BY <1>2, SizeTyped DEF ResultsInv
    <2> QED
        BY <1>2, <1>4, <1>8, <1>9, <2>1 DEF IsNow, Was
<1>11. (row' = row /\ (exact' => d = 0)) \/ (row' = A!Added(d) /\ (exact' => A!Known))
    BY <1>4, <1>5, <1>6, <1>9
<1>12. q # A!Idle /\ exact' => (Knows(q))'
    BY <1>2, <1>3, <1>6, <1>7 DEF Knows, UploadKinds
<1>13. /\ p.step # "claim" /\ p.kind \notin {"deleteAll", "list"}
       /\ exact' => exact
       /\ (q # A!Idle /\ Unvouched(q)) \/ store[p.name] = None
    BY <1>1, <1>2, <1>4, <1>7, <1>8
<1> QED
    BY <1>2, <1>3, <1>4, <1>7, <1>8, <1>10, <1>11, <1>12, <1>13, CounterTurn

LEMMA MergeHashKeeps ==
    ASSUME ResultsInv, NEW r \in Clients, A!MergeHash(r) PROVE ResultsInv'
<1>1. PICK p \in RequestRecords :
        p = request[r] /\ p # A!Idle /\ p.step = "merge" /\ Fitting(p) /\ request[r] # A!Idle
    BY RequestIs DEF A!MergeHash, A!At
<1>2. p.kind \in UploadKinds /\ p.name \in Names /\ p.content \in Contents
    BY <1>1 DEF Fitting, StepsOf, RequestRecords, UploadRecords, OwnerRecords, UploadKinds, OwnerKinds
<1>3. PICK read \in [Names -> Contents \cup {None}] : read = p.read
    BY <1>1, <1>2 DEF Fitting
<1>4. PICK h \in [Names -> Contents \cup {None}] :
        /\ h = [read EXCEPT ![p.name] = p.content]
        /\ h[p.name] = p.content /\ \A n \in Names : n # p.name => h[n] = read[n]
    <2> DEFINE it == [read EXCEPT ![p.name] = p.content]
    <2>1. /\ it \in [Names -> Contents \cup {None}]
          /\ it[p.name] = p.content /\ \A n \in Names : n # p.name => it[n] = read[n]
        BY <1>2
    <2> QED
        BY <2>1
<1>5. /\ UNCHANGED <<direct, store, tokens, sweep, starts, moves, exact, late, revived>>
      /\ Turns(r, p, A!Idle)
    BY <1>1, AnswerTurns DEF A!MergeHash
<1>6. /\ stale' \in BOOLEAN /\ (stale => stale')
      /\ ~stale' /\ row # None => row.hashes = read
    BY <1>1, <1>3 DEF A!MergeHash, A!There, ResultsInv, ResultsTyped
<1>7. row' = IF row # None THEN [row EXCEPT !.hashes = h] ELSE None
    BY <1>1, <1>3, <1>4 DEF A!MergeHash, A!There
<1>8. /\ row' \in RowRecords \cup {None} /\ (row' = None <=> row = None)
      /\ row # None =>
           /\ row'.status = row.status /\ row'.files = row.files /\ row'.bytes = row.bytes
           /\ row'.hashes = h
    <2>1. CASE row = None
        BY <1>7, <2>1
    <2>2. CASE row # None
        <3>1. PICK o \in RowRecords : o = row
            BY <2>2 DEF ResultsInv, ResultsTyped
        <3> DEFINE it == [o EXCEPT !.hashes = h]
        <3>2. /\ it \in RowRecords /\ it.status = o.status /\ it.files = o.files
              /\ it.bytes = o.bytes /\ it.hashes = h
            BY DEF RowRecords
        <3>3. row' = it
            BY <1>7, <2>2, <3>1
        <3> HIDE DEF it
        <3> QED
            BY <2>2, <3>1, <3>2, <3>3, RowIsNone
    <2> QED
        BY <2>1, <2>2
<1>9. exact /\ direct => store[p.name] = p.content
    <2>1. exact => Knows(p)
        BY <1>1, RequestIs DEF ResultsInv, Known
    <2> QED
        BY <1>1, <1>2, <2>1 DEF Knows, UploadKinds
<1>10. exact' /\ ~stale' /\ direct /\ row # None =>
         /\ \A n \in Names : n # p.name => row'.hashes[n] = row.hashes[n]
         /\ p.name \in Names =>
              \/ store[p.name] = None \/ store[p.name] = row'.hashes[p.name]
              \/ A!Idle # A!Idle /\ Unvouched(A!Idle)
    BY <1>4, <1>5, <1>6, <1>8, <1>9
<1>11. ~Owed(p) /\ p.kind # "deleteAll" /\ p.step # "claim" /\ \A n \in Names : ~Unlists(p, n)
    BY <1>1, <1>2 DEF Owed, Unlists, UploadKinds
<1>12. Balanced'
    BY <1>5, <1>8, <1>11, QuietTurn DEF ResultsInv
<1>13. /\ exact' \in BOOLEAN /\ (exact' => exact)
       /\ exact' /\ ~stale' /\ row # None =>
            /\ row'.files \subseteq row.files
            /\ \A n \in row'.files : Unlists(p, n) => A!Idle # A!Idle /\ Unlists(A!Idle, n)
    <2>1. row # None => row'.files = row.files /\ row.files \subseteq Names
        BY <1>8 DEF ResultsInv, ResultsTyped, RowRecords
    <2> QED
        BY <1>5, <1>11, <2>1 DEF ResultsInv, ResultsTyped
<1> QED
    BY <1>5, <1>6, <1>8, <1>10, <1>11, <1>12, <1>13, RowTurn

\* A counter that is set to what there is owes nothing.
LEMMA FreshCount ==
    ASSUME ResultsTyped', store' = store,
           exact' /\ row' # None =>
             /\ row'.bytes = A!Sum(store)
             /\ \A t \in A!Busy' : ~Owed(request'[t])
    PROVE  Balanced'
<1>1. SUFFICES ASSUME exact', row' # None
               PROVE  \E f \in [Names -> Nat] :
                        /\ (Standing(f))'
                        /\ row'.bytes # None => row'.bytes = Total(f)
                        /\ row'.bytes = None /\ row'.status # "done" => Total(f) = 0
    BY DEF Balanced, A!There
<1>2. store \in [Names -> Contents \cup {Garbage, None}]
    BY DEF ResultsTyped
<1>3. PICK f \in [Names -> Nat] : f = SizesAt(store)
    BY <1>2, SizesAtTyped
<1>4. Total(f) \in Nat /\ row'.bytes = Total(f)
    BY <1>1, <1>2, <1>3, StoreSumIs, TotalNat
<1>5. \A n \in Names : f[n] = (A!Size(n))'
    BY <1>3 DEF SizesAt, A!Size
<1>6. (Standing(f))'
    BY <1>1, <1>5 DEF Standing, Owed
<1> QED
    BY <1>4, <1>6, NoneApart

LEMMA ZeroKeeps ==
    ASSUME ResultsInv, NEW r \in Clients, A!Zero(r) PROVE ResultsInv'
<1>1. PICK p \in RequestRecords :
        p = request[r] /\ p # A!Idle /\ p.step = "zero" /\ Fitting(p) /\ request[r] # A!Idle
    BY RequestIs DEF A!Zero, A!At
<1>2. p.kind = "deleteAll" /\ p.name = None /\ p.name \notin Names /\ "unlist" \in StepsOf(p.kind)
    BY <1>1, NoneApart DEF Fitting, StepsOf, RequestRecords, UploadRecords, OwnerRecords, UploadKinds,
                           OwnerKinds
<1>3. /\ UNCHANGED <<direct, store, tokens, sweep, starts, moves, stale, late, revived>>
      /\ exact' \in BOOLEAN /\ (exact' => exact /\ A!Sum(store) = 0) /\ A!Goto(r, "unlist")
      /\ stale' \in BOOLEAN
    BY DEF A!Zero, ResultsInv, ResultsTyped
<1>4. PICK q \in RequestRecords :
        /\ Turns(r, p, q) /\ q # A!Idle /\ q.kind = p.kind /\ q.name = p.name /\ q.step = "unlist"
    BY <1>1, <1>2, <1>3, GotoTurns
<1>5. /\ row' \in RowRecords \cup {None} /\ (row' = None <=> row = None)
      /\ row # None =>
           /\ row'.status = row.status /\ row'.files = row.files /\ row'.hashes = row.hashes
           /\ row'.bytes = 0 /\ row.files \subseteq Names
    <2>1. CASE row = None
        BY <2>1 DEF A!Zero, A!There
    <2>2. CASE row # None
        <3>1. PICK o \in RowRecords : o = row
            BY <2>2 DEF ResultsInv, ResultsTyped
        <3> DEFINE it == [o EXCEPT !.bytes = 0]
        <3>2. /\ it \in RowRecords /\ it.status = o.status /\ it.files = o.files
              /\ it.hashes = o.hashes /\ it.bytes = 0 /\ o.files \subseteq Names
            BY DEF RowRecords
        <3>3. row' = it
            BY <2>2, <3>1 DEF A!Zero, A!There
        <3> HIDE DEF it
        <3> QED
            BY <2>2, <3>1, <3>2, <3>3, RowIsNone
    <2> QED
        BY <2>1, <2>2
<1>6. ASSUME exact', NEW t \in A!Busy' PROVE ~Owed(request'[t])
    <2>1. CASE t = r
        <3>1. request'[t] = q
            BY <1>4, <2>1, TurnIs DEF ResultsInv
        <3> QED
            BY <1>2, <1>4, <3>1 DEF Owed
    <2>2. CASE t # r
        <3>1. request'[t] = request[t] /\ ~Crossing(request[t], p)
            BY <1>3, <1>4, <1>6, <2>2, OthersApart DEF ResultsInv
        <3> QED
            BY <1>2, <3>1 DEF Crossing
    <2> QED
        BY <2>1, <2>2
<1>7. ASSUME ResultsTyped' PROVE Balanced'
    BY <1>3, <1>5, <1>6, <1>7, FreshCount
<1>8. (Knows(q))' /\ \A n \in Names : Unlists(q, n)
    BY <1>2, <1>4 DEF Knows, Unlists, UploadKinds
<1>9. /\ exact' /\ ~stale' /\ row # None =>
           /\ \A n \in Names : n # p.name => row'.hashes[n] = row.hashes[n]
           /\ p.name \in Names =>
                \/ store[p.name] = None \/ store[p.name] = row'.hashes[p.name]
                \/ q # A!Idle /\ Unvouched(q)
      /\ exact' /\ ~stale' /\ row # None =>
           /\ row'.files \subseteq row.files
           /\ \A n \in row'.files : Unlists(p, n) => q # A!Idle /\ Unlists(q, n)
    BY <1>2, <1>4, <1>5, <1>8
<1> QED
    BY <1>1, <1>3, <1>4, <1>5, <1>7, <1>8, <1>9, RowTurn

LEMMA FillKeeps ==
    ASSUME ResultsInv, NEW r \in Clients, A!Fill(r) PROVE ResultsInv'
<1>1. PICK p \in RequestRecords :
        p = request[r] /\ p # A!Idle /\ p.step = "fill" /\ Fitting(p) /\ request[r] # A!Idle
    BY RequestIs DEF A!Fill, A!At
<1>2. p.kind = "list" /\ p.name = None /\ p.name \notin Names /\ p.size \in Nat
    BY <1>1, NoneApart DEF Fitting, StepsOf, RequestRecords, UploadRecords, OwnerRecords, UploadKinds,
                           OwnerKinds
<1>3. /\ UNCHANGED <<direct, store, tokens, sweep, starts, moves, exact, stale, late, revived>>
      /\ exact' \in BOOLEAN /\ stale' \in BOOLEAN /\ Turns(r, p, A!Idle)
    BY <1>1, AnswerTurns DEF A!Fill, A!history, ResultsInv, ResultsTyped
<1>4. /\ row' \in RowRecords \cup {None} /\ (row' = None <=> row = None)
      /\ row # None =>
           /\ row'.status = row.status /\ row'.files = row.files /\ row'.hashes = row.hashes
           /\ row'.bytes = p.size /\ row.files \subseteq Names
    <2>1. CASE row = None
        BY <2>1 DEF A!Fill, A!There
    <2>2. CASE row # None
        <3>1. PICK o \in RowRecords : o = row
            BY <2>2 DEF ResultsInv, ResultsTyped
        <3> DEFINE it == [o EXCEPT !.bytes = p.size]
        <3>2. /\ it \in RowRecords /\ it.status = o.status /\ it.files = o.files
              /\ it.hashes = o.hashes /\ it.bytes = p.size /\ o.files \subseteq Names
            BY <1>2 DEF RowRecords
        <3>3. row' = it
            BY <1>1, <2>2, <3>1 DEF A!Fill, A!There
        <3> HIDE DEF it
        <3> QED
            BY <2>2, <3>1, <3>2, <3>3, RowIsNone
    <2> QED
        BY <2>1, <2>2
<1>5. ASSUME exact', NEW t \in A!Busy' PROVE ~Owed(request'[t])
    <2>1. t # r
        BY <1>3, TurnIs DEF ResultsInv, A!Busy
    <2>2. request'[t] = request[t] /\ ~Crossing(request[t], p)
        BY <1>3, <1>5, <2>1, OthersApart DEF ResultsInv
    <2> QED
        BY <1>2, <2>2 DEF Crossing, Owed
<1>6. exact => p.size = A!Sum(store)
    <2>1. exact => Knows(p)
        BY <1>1, RequestIs DEF ResultsInv, Known
    <2> QED
        BY <1>1, <2>1 DEF Knows
<1>7. ASSUME ResultsTyped' PROVE Balanced'
    BY <1>3, <1>4, <1>5, <1>6, <1>7, FreshCount
<1>8. \A n \in Names : ~Unlists(p, n)
    BY <1>2 DEF Unlists
<1>9. /\ exact' /\ ~stale' /\ row # None =>
           /\ \A n \in Names : n # p.name => row'.hashes[n] = row.hashes[n]
           /\ p.name \in Names =>
                \/ store[p.name] = None \/ store[p.name] = row'.hashes[p.name]
                \/ A!Idle # A!Idle /\ Unvouched(A!Idle)
      /\ exact' /\ ~stale' /\ row # None =>
           /\ row'.files \subseteq row.files
           /\ \A n \in row'.files : Unlists(p, n) => A!Idle # A!Idle /\ Unlists(A!Idle, n)
    BY <1>2, <1>4, <1>8
<1>10. p.step # "claim" /\ (exact' => exact) /\ (stale => stale')
    BY <1>1, <1>3
<1> QED
    BY <1>3, <1>4, <1>7, <1>9, <1>10, RowTurn

LEMMA UnlistKeeps ==
    ASSUME ResultsInv, NEW r \in Clients, A!Unlist(r) PROVE ResultsInv'
<1>1. PICK p \in RequestRecords :
        p = request[r] /\ p # A!Idle /\ p.step = "unlist" /\ Fitting(p) /\ request[r] # A!Idle
    BY RequestIs DEF A!Unlist, A!At
<1>2. /\ p.kind \in {"deleteOne", "deleteAll"} /\ p.read \in SUBSET Names
      /\ p.kind = "deleteOne" => p.name \in Names
      /\ p.kind = "deleteAll" => p.name \notin Names
    BY <1>1, NoneApart DEF Fitting, StepsOf, RequestRecords, UploadRecords, OwnerRecords, UploadKinds,
                           OwnerKinds
<1>3. /\ UNCHANGED <<direct, store, tokens, sweep, starts, moves, exact, late, revived>>
      /\ exact' \in BOOLEAN /\ Turns(r, p, A!Idle)
      /\ stale' \in BOOLEAN /\ (stale => stale') /\ (~stale' /\ row # None => row.files = p.read)
    BY <1>1, AnswerTurns DEF A!Unlist, A!There, ResultsInv, ResultsTyped
<1>4. PICK left \in SUBSET Names :
        /\ left = A!Remaining(p)
        /\ left \subseteq p.read /\ \A n \in left : ~Unlists(p, n)
    <2>1. A!Remaining(p) \in SUBSET Names /\ A!Remaining(p) \subseteq p.read
        BY <1>2 DEF A!Remaining
    <2>2. \A n \in A!Remaining(p) : ~Unlists(p, n)
        BY <1>2 DEF A!Remaining, Unlists
    <2> QED
        BY <2>1, <2>2
<1>5. /\ row' \in RowRecords \cup {None} /\ (row' = None <=> row = None)
      /\ row # None =>
           /\ row'.status = row.status /\ row'.files = left /\ row'.hashes = row.hashes
           /\ row'.bytes = row.bytes
    <2>1. CASE row = None
        BY <2>1 DEF A!Unlist, A!There
    <2>2. CASE row # None
        <3>1. PICK o \in RowRecords : o = row
            BY <2>2 DEF ResultsInv, ResultsTyped
        <3> DEFINE it == [o EXCEPT !.files = left]
        <3>2. /\ it \in RowRecords /\ it.status = o.status /\ it.files = left
              /\ it.hashes = o.hashes /\ it.bytes = o.bytes
            BY DEF RowRecords
        <3>3. row' = it
            BY <1>1, <1>4, <2>2, <3>1 DEF A!Unlist, A!There
        <3> HIDE DEF it
        <3> QED
            BY <2>2, <3>1, <3>2, <3>3, RowIsNone
    <2> QED
        BY <2>1, <2>2
<1>6. exact /\ p.name \in Names => store[p.name] = None
    <2>1. exact => Knows(p)
        BY <1>1, RequestIs DEF ResultsInv, Known
    <2> QED
        BY <1>1, <1>2, <2>1 DEF Knows
<1>7. ~Owed(p) /\ p.step # "claim" /\ (exact' => exact)
    BY <1>1, <1>2, <1>3 DEF Owed
<1>8. Balanced'
    BY <1>1, <1>3, <1>5, <1>7, QuietTurn DEF ResultsInv
<1>9. /\ exact' /\ ~stale' /\ row # None =>
           /\ \A n \in Names : n # p.name => row'.hashes[n] = row.hashes[n]
           /\ p.name \in Names =>
                \/ store[p.name] = None \/ store[p.name] = row'.hashes[p.name]
                \/ A!Idle # A!Idle /\ Unvouched(A!Idle)
      /\ exact' /\ ~stale' /\ row # None =>
           /\ row'.files \subseteq row.files
           /\ \A n \in row'.files : Unlists(p, n) => A!Idle # A!Idle /\ Unlists(A!Idle, n)
    BY <1>3, <1>4, <1>5, <1>6
<1> QED
    BY <1>3, <1>5, <1>7, <1>8, <1>9, RowTurn

----------------------------------------------------------------------------
(* Always *)

LEMMA ResultsInitially == A!Init => ResultsInv
<1> SUFFICES ASSUME A!Init PROVE ResultsInv
    OBVIOUS
<1>1. /\ direct \in BOOLEAN /\ tokens = {} /\ sweep = "idle" /\ starts = 0 /\ moves = 0
      /\ exact = TRUE /\ stale = FALSE /\ late = FALSE /\ revived = FALSE
      /\ request = [r \in Clients |-> A!Idle] /\ A!Busy = {}
    BY DEF A!Init, A!Busy
<1>2. PICK c \in Contents : c = CHOOSE x \in Contents : TRUE
    BY ResultsAssumption DEF ResultsAssumption
<1>3. /\ row \in RowRecords /\ store \in [Names -> Contents \cup {Garbage, None}] /\ row.bytes = None
      /\ \/ row.status = "running" /\ store = [n \in Names |-> None]
         \/ row.status = "done" /\ store = row.hashes /\ \A n \in Names : store[n] # None
    <2>1. ASSUME NEW w \in Workers,
                 row = [status |-> "running", holder |-> w, last |-> w, old |-> FALSE, files |-> {},
                        hashes |-> [n \in Names |-> None], bytes |-> None],
                 store = [n \in Names |-> None]
          PROVE  <1>3!:
        BY <2>1 DEF RowRecords
    <2>2. ASSUME row = [status |-> "done", holder |-> None, last |-> None, old |-> TRUE,
                        files |-> Names, hashes |-> [n \in Names |-> c], bytes |-> None],
                 store = [n \in Names |-> c]
          PROVE  <1>3!:
        BY <2>2, NoneApart DEF RowRecords
    <2> QED
        BY <1>2, <2>1, <2>2 DEF A!Init
<1>4. ResultsTyped
    BY <1>1, <1>3 DEF ResultsTyped
<1>5. TokensStand
    BY <1>1 DEF TokensStand, A!TokenOnce
<1>6. NothingLeft
    BY <1>1, <1>3, RowIsNone DEF NothingLeft, A!There
<1>7. Apart /\ Known
    BY <1>1 DEF Apart, Known
<1>8. Vouched /\ Listed
    <2>1. row.files \subseteq Names
        BY <1>3 DEF RowRecords
    <2> QED
        BY <1>3, <2>1 DEF Vouched, Listed
<1>9. Balanced
    <2>1. PICK f \in [Names -> Nat] : f = SizesAt(store)
        BY <1>3, SizesAtTyped
    <2>2. Standing(f)
        BY <1>1, <2>1 DEF Standing, SizesAt, A!Size
    <2>3. row.status # "done" => Total(f) = 0
        <3>1. row.status # "done" => \A n \in Names : f[n] = 0
            BY <1>3, <2>1 DEF SizesAt
        <3>2. IsFiniteSet(Names) /\ Names \in SUBSET Names
            BY ResultsAssumption DEF ResultsAssumption
        <3> QED
            BY <3>1, <3>2, TotalsZero DEF Total
    <2> QED
        BY <1>3, <2>2, <2>3 DEF Balanced
<1> QED
    BY <1>4, <1>5, <1>6, <1>7, <1>8, <1>9 DEF ResultsInv

LEMMA RequestsKeep ==
    ASSUME ResultsInv, NEW r \in Clients,
           \/ \E w \in Workers, n \in Names, c \in Contents :
                A!StartWhole(r, w, n, c) \/ A!StartS3(r, w, n, c)
           \/ \E t \in tokens : A!StartRaw(r, t)
           \/ A!Claim(r) \/ A!HeadPrevious(r) \/ A!Put(r) \/ A!Undo(r) \/ A!Unadd(r) \/ A!Add(r)
           \/ A!ReadHashes(r) \/ A!MergeHash(r) \/ A!SendS3(r) \/ A!Confirm(r) \/ A!Count(r)
           \/ \E n \in Names : A!StartDeleteOne(r, n)
           \/ A!DeleteOne(r) \/ A!Subtract(r) \/ A!StartDeleteAll(r) \/ A!DeleteNext(r) \/ A!Zero(r)
           \/ A!Unlist(r) \/ A!StartList(r) \/ A!ListSizes(r) \/ A!Fill(r) \/ A!Die(r)
    PROVE  ResultsInv'
PROOF BY StartUploadKeeps, StartRawKeeps, ClaimKeeps, HeadPreviousKeeps, PutResultKeeps, UndoKeeps,
         UnaddKeeps, AddKeeps, ReadHashesKeeps, MergeHashKeeps, SendS3Keeps, ConfirmKeeps, CountKeeps,
         StartOwnerKeeps, DeleteOneKeeps, SubtractKeeps, DeleteNextKeeps, ZeroKeeps, UnlistKeeps,
         ListSizesKeeps, FillKeeps, DieKeeps

LEMMA ResultsStepKeeps == ResultsInv /\ [A!Next]_(A!vars) => ResultsInv'
<1> SUFFICES ASSUME ResultsInv, [A!Next]_(A!vars) PROVE ResultsInv'
    OBVIOUS
<1>1. CASE UNCHANGED A!vars
    <2>1. /\ UNCHANGED <<direct, row, store, tokens, request, sweep, starts, moves>>
          /\ UNCHANGED <<exact, stale, late, revived>>
        BY <1>1 DEF A!vars
    <2>2. ResultsTyped' /\ TokensStand' /\ NothingLeft'
        <3>1. \A r \in A!Busy' : Fitting(request'[r])
            BY <2>1 DEF ResultsInv, ResultsTyped, A!Busy
        <3>2. ResultsTyped'
            BY <2>1, <3>1 DEF ResultsInv, ResultsTyped, Fitting
        <3> QED
            BY <2>1, <3>2, TokensKeep DEF ResultsInv, NothingLeft, A!There
    <2> QED
        BY <2>1, <2>2, NoTurn
<1>2. ASSUME A!Next PROVE ResultsInv'
    BY <1>2, RequestsKeep, TokenActionsKeep, JobMovesKeeps, SweepKeeps, EmptyBucketKeeps DEF A!Next
<1> QED
    BY <1>1, <1>2

LEMMA ResultsInvAlways == A!Spec => []ResultsInv
PROOF BY ResultsInitially, ResultsStepKeeps, PTL DEF A!Spec

\* For any workers, files and contents, and any number of requests that
\* interleave and die anywhere.  At rest: while nothing happened that the
\* counter cannot follow (exact: requests that cross or die, a NULL counter, a
\* refused body whose deletion failed), the counter is the size of what the
\* bucket holds; if moreover uploads pass through the Worker and no column was
\* written from an older reading (stale), the row vouches for every byte; and
\* if no upload outlived its claim (late) either, a finished job lists only
\* what is there.  Unless the job or a file came back during a sweep (revived),
\* nothing outlives its row.  Always: a token writes once (routes/jobs.ts,
\* core/cleanup.ts).
THEOREM ResultsKeptHolds == A!Spec => []ResultsKept
<1>1. ResultsInv => ResultsKept
    <2> SUFFICES ASSUME ResultsInv PROVE ResultsKept
        OBVIOUS
    <2>1. A!CounterAgrees
        <3>1. SUFFICES ASSUME A!Busy = {}, exact, row # None, row.bytes # None
                       PROVE  row.bytes = A!Sum(store)
            BY DEF A!CounterAgrees, A!AtRest, A!There
        <3>2. PICK f \in [Names -> Nat] : Standing(f) /\ row.bytes = Total(f)
            BY <3>1 DEF ResultsInv, Balanced, A!There, Clearing
        <3>3. store \in [Names -> Contents \cup {Garbage, None}] /\ ResultsTyped
            BY DEF ResultsInv, ResultsTyped
        <3>4. \A n \in Names : f[n] = A!Size(n)
            BY <3>1, <3>2 DEF Standing
        <3>5. f = SizesAt(store)
            BY <3>3, <3>4 DEF SizesAt, A!Size
        <3> QED
            BY <3>2, <3>3, <3>5, StoreSumIs
    <2>2. A!OnlyVerified
        BY DEF A!OnlyVerified, A!AtRest, ResultsInv, Vouched
    <2>3. A!ListedIsStored
        BY DEF A!ListedIsStored, A!AtRest, ResultsInv, Listed
    <2>4. A!NothingOrphaned
        BY DEF A!NothingOrphaned, ResultsInv, NothingLeft
    <2>5. A!TokenOnce
        BY DEF ResultsInv, TokensStand
    <2> QED
        BY <2>1, <2>2, <2>3, <2>4, <2>5 DEF ResultsKept, A!ResultsKept
<1> QED
    BY <1>1, ResultsInvAlways, PTL
=============================================================================
