------------------------- MODULE FwIsoManageProofs -------------------------
(* Proofs about FwIsoManage for any number of users, channels, bandwidth   *)
(* units, tries and bus resets: ResourcesExact, and that the compare-swap  *)
(* loops implement IsoLedger.                                              *)
EXTENDS FwIsoManage, FiniteSetTheorems, TLAPS

-----------------------------------------------------------------------------
(* The inductive invariant.                                                *)

\* The channels and the bandwidth that user u has at the IRM at least, by its place in
\* fw_iso_resource_manage(): what it was told, what a running allocation took so far or
\* what a running deallocation has still to give back.
Mine(u) ==
    IF job[u] = NoJob THEN {Told(u).channel} \cap Channel
    ELSE IF Stale(job[u]) THEN {}
    ELSE IF job[u].pc = "bandwidth"
         THEN IF job[u].allocate THEN {job[u].channel} \cap Channel ELSE {}
    ELSE IF Taking(job[u]) THEN {} ELSE job[u].mask
MineBw(u) ==
    IF job[u] = NoJob THEN Told(u).bandwidth
    ELSE IF Stale(job[u]) \/ job[u].allocate THEN 0 ELSE job[u].bandwidth

\* User u has channels cs and bandwidth n, and more only if it used up its tries.
Has(u, cs, n) ==
    /\ cs \subseteq held[u] /\ n <= heldbw[u]
    /\ u \notin spent => held[u] = cs /\ heldbw[u] = n

\* What distinguishes the jobs that occur.
JobShape(u) ==
    job[u] # NoJob =>
        /\ job[u].generation <= irmgen
        /\ job[u].pc = "bandwidth" => job[u].bandwidth > 0
        /\ job[u].pc = "undo" => job[u].allocate /\ job[u].channel < 0
        /\ job[u].pc # "bandwidth" /\ ~Taking(job[u]) =>
              \E c \in Channel : /\ job[u].mask = {c}
                                 /\ c \in Register(job[u].pc, job[u].mask)

\* A loop that gives something back is not done before its tries are.
GiveShape(u) ==
    job[u] # NoJob /\ ~Stale(job[u]) =>
        /\ job[u].pc # "bandwidth" /\ ~Taking(job[u]) =>
              /\ job[u].mask \cap job[u].old = {}
              /\ job[u].retry = 0 \/ job[u].from = 0
        /\ job[u].pc = "bandwidth" /\ ~job[u].allocate =>
              job[u].units + job[u].bandwidth <= Initial

UserOK(u) ==
    /\ hold[u].generation <= irmgen
    /\ JobShape(u)
    /\ failed \/ (Has(u, Mine(u), MineBw(u)) /\ GiveShape(u))

ChannelsAgree ==
    /\ \A c \in Channel : c \in avail <=> \A u \in User : c \notin held[u]
    /\ \A u, v \in User : u # v => held[u] \cap held[v] = {}
BandwidthAgrees == failed \/ (IsFiniteSet(Taken) /\ bw + Cardinality(Taken) = Initial)

IrmInv ==
    /\ IrmTypeOK /\ ChannelsAgree /\ BandwidthAgrees
    /\ \A u \in User : UserOK(u)

-----------------------------------------------------------------------------
(* Facts about the operators.                                              *)

LEMMA MinIsMember ==
    ASSUME NEW S \in SUBSET Nat, S # {}
    PROVE  Min(S) \in S /\ \A x \in S : Min(S) <= x
<1> DEFINE R == OpToRel(<, Nat)
<1>1. IsWellFoundedOn(R, Nat)
    BY NatLessThanWellFounded
<1>2. \A x, y \in Nat : x < y => <<x, y>> \in R
    BY DEF OpToRel
<1> HIDE DEF R
<1>3. PICK x \in S : \A y \in S : ~ (<<y, x>> \in R)
    BY <1>1, WFMin
<1>4. ASSUME NEW y \in S PROVE x <= y
  <2>1. ~ (y < x)
      BY <1>2, <1>3
  <2>2. QED
      BY <2>1
<1>5. QED
    BY <1>4 DEF Min

\* The units of bandwidth that a function gives the users.
UnitsOf(f) == UNION {{u} \X (1 .. f[u]) : u \in User}

LEMMA NoUnits == UnitsOf([u \in User |-> 0]) = {}
BY DEF UnitsOf

LEMMA UnitsAdd ==
    ASSUME NEW f \in [User -> Nat], IsFiniteSet(UnitsOf(f)), NEW u \in User, NEW n \in Nat
    PROVE  LET g == [f EXCEPT ![u] = f[u] + n]
           IN  /\ IsFiniteSet(UnitsOf(g))
               /\ Cardinality(UnitsOf(g)) = Cardinality(UnitsOf(f)) + n
<1> DEFINE g == [f EXCEPT ![u] = f[u] + n]
           N == {u} \X (f[u] + 1 .. f[u] + n)
<1>1. IsFiniteSet(N) /\ Cardinality(N) = n
  <2> DEFINE a == f[u] + 1
             b == f[u] + n
  <2>1. a \in Int /\ b \in Int /\ n = IF a > b THEN 0 ELSE b - a + 1
      OBVIOUS
  <2>2. IsFiniteSet(a .. b) /\ Cardinality(a .. b) = n
    <3> HIDE DEF a, b
    <3>1. QED
        BY <2>1, FS_Interval
  <2>3. IsFiniteSet({u}) /\ Cardinality({u}) = 1
      BY FS_Singleton
  <2>4. IsFiniteSet(N) /\ Cardinality(N) = 1 * n
    <3>1. N = {u} \X (a .. b)
        OBVIOUS
    <3> HIDE DEF a, b, N
    <3>2. QED
        BY <2>2, <2>3, <3>1, FS_Product
  <2>5. QED
      BY <2>4
<1>2. UnitsOf(g) = UnitsOf(f) \cup N
  <2>1. \A v \in User : v # u => {v} \X (1 .. g[v]) = {v} \X (1 .. f[v])
      OBVIOUS
  <2>2. {u} \X (1 .. g[u]) = ({u} \X (1 .. f[u])) \cup N
    <3>1. 1 .. f[u] + n = (1 .. f[u]) \cup (f[u] + 1 .. f[u] + n)
        OBVIOUS
    <3>2. QED
        BY <3>1
  <2>3. QED
      BY <2>1, <2>2 DEF UnitsOf
<1>3. UnitsOf(f) \cap N = {}
  <2>1. \A p \in UnitsOf(f) : \E v \in User : p \in {v} \X (1 .. f[v])
      BY DEF UnitsOf
  <2>2. QED
      BY <2>1
<1>4. Cardinality(UnitsOf(f)) \in Nat
    BY FS_CardinalityType
<1>5. /\ IsFiniteSet(UnitsOf(f) \cup N)
      /\ Cardinality(UnitsOf(f) \cup N) = Cardinality(UnitsOf(f)) + n - Cardinality({})
  <2> HIDE DEF N
  <2>1. QED
      BY <1>1, <1>3, FS_Union
<1>6. Cardinality({}) = 0
    BY FS_EmptySet
<1>7. IsFiniteSet(UnitsOf(g)) /\ Cardinality(UnitsOf(g)) = Cardinality(UnitsOf(f)) + n
  <2> HIDE DEF N, g
  <2>1. QED
      BY <1>2, <1>4, <1>5, <1>6
<1>8. QED
    BY <1>7

\* Giving back is taking in reverse.
LEMMA UnitsSub ==
    ASSUME NEW f \in [User -> Nat], IsFiniteSet(UnitsOf(f)), NEW u \in User, NEW n \in Nat,
           n <= f[u]
    PROVE  LET g == [f EXCEPT ![u] = f[u] - n]
           IN  /\ IsFiniteSet(UnitsOf(g))
               /\ Cardinality(UnitsOf(g)) = Cardinality(UnitsOf(f)) - n
<1> DEFINE g == [f EXCEPT ![u] = f[u] - n]
<1>1. g \in [User -> Nat] /\ f = [g EXCEPT ![u] = g[u] + n]
  <2>1. f[u] - n \in Nat /\ f[u] - n + n = f[u]
      OBVIOUS
  <2>2. QED
      BY <2>1
<1>2. UnitsOf(g) \subseteq UnitsOf(f)
  <2>1. \A v \in User : {v} \X (1 .. g[v]) \subseteq {v} \X (1 .. f[v])
      BY <1>1
  <2>2. QED
      BY <2>1 DEF UnitsOf
<1>3. IsFiniteSet(UnitsOf(g))
    BY <1>2, FS_Subset
<1>4. Cardinality(UnitsOf(f)) = Cardinality(UnitsOf(g)) + n
    BY <1>1, <1>3, UnitsAdd
<1>5. Cardinality(UnitsOf(g)) \in Nat
    BY <1>3, FS_CardinalityType
<1>6. QED
    BY <1>3, <1>4, <1>5

LEMMA UnitsOwn ==
    ASSUME NEW f \in [User -> Nat], IsFiniteSet(UnitsOf(f)), NEW u \in User
    PROVE  f[u] <= Cardinality(UnitsOf(f))
<1> DEFINE g == [f EXCEPT ![u] = f[u] - f[u]]
<1>1. IsFiniteSet(UnitsOf(g)) /\ Cardinality(UnitsOf(g)) = Cardinality(UnitsOf(f)) - f[u]
  <2>1. f[u] \in Nat /\ f[u] <= f[u]
      OBVIOUS
  <2>2. QED
      BY <2>1, UnitsSub
<1>2. Cardinality(UnitsOf(g)) \in Nat /\ Cardinality(UnitsOf(f)) \in Nat
    BY <1>1, FS_CardinalityType
<1>3. QED
    BY <1>1, <1>2

-----------------------------------------------------------------------------
(* Types, and what the ends of the loops do to the user that they are of.  *)

LEMMA JobFacts ==
    /\ NoJob \notin JobType
    /\ \A j \in JobType : j # NoJob
BY DEF JobType, NoJob

LEMMA NoChannel ==
    \A c \in Outcome :
        /\ {c} \cap Channel = IF c < 0 THEN {} ELSE {c}
        /\ c < 0 <=> ~(c >= 0)
<1>1. \A c \in Channel : ~(c < 0) /\ c >= 0
    BY IsoAssumption
<1>2. QED
    BY <1>1 DEF Outcome, Failure, Again

LEMMA RegisterType == \A pc, mask : Register(pc, mask) \subseteq Channel
BY DEF Register, Channel

LEMMA LoopType ==
    ASSUME NEW j \in JobType, NEW pc \in {"hi", "lo", "undo"}
    PROVE  Loop(j, pc) \in JobType
<1>1. Register(pc, j.mask) \in SUBSET Channel
    BY RegisterType
<1>2. 0 \in Nat /\ Tries \in 0 .. Tries
    BY IsoAssumption
<1>3. QED
    BY <1>1, <1>2 DEF Loop, JobType

LEMMA BwLoopType == ASSUME NEW j \in JobType PROVE BwLoop(j) \in JobType
<1>1. Tries \in 0 .. Tries /\ Initial \in 0 .. Initial /\ 0 \in 0 .. Initial
    BY IsoAssumption
<1>2. QED
    BY <1>1 DEF BwLoop, JobType

LEMMA CandidateFacts ==
    ASSUME NEW j \in JobType, Candidates(j) # {}
    PROVE  /\ Min(Candidates(j)) \in j.mask \cap Register(j.pc, j.mask)
           /\ Min(Candidates(j)) \in Channel
           /\ Min(Candidates(j)) \in j.old <=> Taking(j)
<1>1. Candidates(j) \in SUBSET Nat
    BY RegisterType, IsoAssumption DEF Candidates
<1>2. Min(Candidates(j)) \in Candidates(j)
    BY <1>1, MinIsMember
<1>3. QED
    BY <1>2, RegisterType DEF Candidates

\* What user u has after a step.
HasNow(u, cs, n) ==
    /\ cs \subseteq held'[u] /\ n <= heldbw'[u]
    /\ u \notin spent' => held'[u] = cs /\ heldbw'[u] = n

\* The user of a step has a job, and what it was told, in order.
StepOf(u) ==
    /\ job' \in [User -> JobType \cup {NoJob}]
    /\ hold' \in [User -> [channel : Outcome, bandwidth : Nat, generation : 0 .. IrmMaxGen]]
    /\ UserOK(u)'
    /\ \A v \in User : v # u => job'[v] = job[v] /\ hold'[v] = hold[v]

LEMMA ReturnsOK ==
    ASSUME IrmTypeOK, NEW u \in User, NEW j \in JobType, NEW c \in Outcome, NEW b \in Nat,
           j.generation <= irmgen, irmgen' = irmgen, OperationReturns(u, j, c, b),
           failed' \/ IF j.allocate /\ ~Stale(j) THEN HasNow(u, {c} \cap Channel, b)
                                               ELSE HasNow(u, {}, 0)
    PROVE  StepOf(u)
<1> DEFINE h == IF ~j.allocate THEN Nothing
                ELSE [channel |-> c, bandwidth |-> b, generation |-> j.generation]
<1>1. h \in [channel : Outcome, bandwidth : Nat, generation : 0 .. IrmMaxGen]
    BY IsoAssumption DEF JobType, Nothing, Outcome
<1>2. job'[u] = NoJob /\ hold'[u] = h
    BY DEF OperationReturns, Set, IrmTypeOK
<1>3. h.generation <= irmgen
    BY IsoAssumption DEF Nothing, IrmTypeOK
<1>4. {Nothing.channel} \cap Channel = {} /\ Nothing.bandwidth = 0
    BY IsoAssumption DEF Nothing, Failure
<1>5. failed' \/ HasNow(u, {(Told(u)').channel} \cap Channel, (Told(u)').bandwidth)
    BY <1>2, <1>4 DEF Told, Stale, Nothing
<1>6. UserOK(u)'
    BY <1>2, <1>3, <1>5 DEF UserOK, JobShape, GiveShape, Mine, MineBw, Has, HasNow, NoJob
<1>7. QED
    BY <1>1, <1>6 DEF StepOf, OperationReturns, Set, IrmTypeOK

\* The job of u becomes k, and nothing was told.
LEMMA ContinuesOK ==
    ASSUME IrmTypeOK, NEW u \in User, UserOK(u), NEW k \in JobType,
           Set(u, k), UNCHANGED <<irmgen, hold>>,
           /\ k.generation <= irmgen
           /\ k.pc = "bandwidth" => k.bandwidth > 0
           /\ k.pc = "undo" => k.allocate /\ k.channel < 0
           /\ k.pc # "bandwidth" /\ ~Taking(k) =>
                 \E c \in Channel : k.mask = {c} /\ c \in Register(k.pc, k.mask),
           failed' \/ Stale(k) \/
              (/\ k.pc # "bandwidth" /\ ~Taking(k) =>
                     k.mask \cap k.old = {} /\ (k.retry = 0 \/ k.from = 0)
               /\ k.pc = "bandwidth" /\ ~k.allocate => k.units + k.bandwidth <= Initial),
           failed' \/ HasNow(u, IF Stale(k) THEN {}
                                ELSE IF k.pc = "bandwidth"
                                     THEN IF k.allocate THEN {k.channel} \cap Channel ELSE {}
                                ELSE IF Taking(k) THEN {} ELSE k.mask,
                                IF Stale(k) \/ k.allocate THEN 0 ELSE k.bandwidth)
    PROVE  StepOf(u)
<1>1. job'[u] = k /\ k # NoJob /\ hold' = hold /\ irmgen' = irmgen
    BY JobFacts DEF Set, IrmTypeOK
<1>2. JobShape(u)'
    BY <1>1 DEF JobShape, Taking
<1>3. failed' \/ GiveShape(u)'
    BY <1>1 DEF GiveShape, Taking, Stale
<1>4. failed' \/ Has(u, Mine(u), MineBw(u))'
    BY <1>1 DEF Has, HasNow, Mine, MineBw, Taking, Stale
<1>5. UserOK(u)'
    BY <1>1, <1>2, <1>3, <1>4 DEF UserOK
<1>6. QED
    BY <1>5 DEF StepOf, Set, IrmTypeOK

\* What follows manage_channel(), if u has what that returned.
LEMMA AfterChannelOK ==
    ASSUME IrmTypeOK, NEW u \in User, UserOK(u), InChannel(u), NEW c \in Outcome,
           AfterChannel(u, job[u], c), irmgen' = irmgen,
           failed' \/ Stale(job[u]) \/ job[u].allocate \/ job[u].bandwidth <= Initial,
           failed' \/ HasNow(u, IF Taking(job[u]) /\ ~Stale(job[u]) THEN {c} \cap Channel
                                                                  ELSE {},
                                IF Stale(job[u]) \/ job[u].allocate THEN 0
                                                                   ELSE job[u].bandwidth)
    PROVE  StepOf(u)
<1> DEFINE j == job[u]
<1>1. j \in JobType /\ j # NoJob /\ j.generation <= irmgen
    BY DEF IrmTypeOK, InChannel, UserOK, JobShape
<1>2. c < 0 => {c} \cap Channel = {}
    BY NoChannel
<1>3. CASE j.pc = "undo"
  <2>1. j.allocate /\ j.channel < 0 /\ j.channel \in Outcome /\ ~Taking(j)
      BY <1>1, <1>3 DEF UserOK, JobShape, Taking, JobType
  <2>2. {j.channel} \cap Channel = {}
      BY <2>1, NoChannel
  <2>3. OperationReturns(u, j, j.channel, 0)
      BY <1>3 DEF AfterChannel
  <2>4. QED
      BY <1>1, <2>1, <2>2, <2>3, ReturnsOK
<1>4. CASE j.pc = "hi" /\ c < 0 /\ j.mask \cap Lo # {}
  <2> DEFINE i == [j EXCEPT !.channel = c]
             k == Loop(i, "lo")
  <2>1. Set(u, k) /\ UNCHANGED hold
      BY <1>4 DEF AfterChannel
  <2>2. j.allocate /\ Taking(j)
      BY <1>1, <1>4, IsoAssumption DEF UserOK, JobShape, Taking, Register
  <2>3. i \in JobType
      BY <1>1 DEF JobType
  <2>4. k \in JobType
      BY <2>3, LoopType
  <2>5. k.pc = "lo" /\ k.allocate = j.allocate /\ k.generation = j.generation
      BY <1>1, <2>3 DEF Loop, JobType
  <2>6. Taking(k)
      BY <2>2, <2>5 DEF Taking
  <2>7. failed' \/ HasNow(u, {}, 0)
      BY <1>2, <1>4, <2>2
  <2> HIDE DEF k
  <2>8. QED
      BY <1>1, <2>1, <2>2, <2>4, <2>5, <2>6, <2>7, ContinuesOK DEF Stale
<1>5. CASE /\ j.pc # "undo" /\ ~(j.pc = "hi" /\ c < 0 /\ j.mask \cap Lo # {})
           /\ (j.allocate /\ c < 0) \/ j.bandwidth = 0
  <2>1. OperationReturns(u, j, c, 0)
      BY <1>5 DEF AfterChannel
  <2>2. j.allocate => Taking(j)
      BY <1>5 DEF Taking
  <2>3. failed' \/ IF j.allocate /\ ~Stale(j) THEN HasNow(u, {c} \cap Channel, 0)
                                             ELSE HasNow(u, {}, 0)
      BY <1>5, <2>2 DEF Taking
  <2>4. QED
      BY <1>1, <2>1, <2>3, ReturnsOK
<1>6. CASE /\ j.pc # "undo" /\ ~(j.pc = "hi" /\ c < 0 /\ j.mask \cap Lo # {})
           /\ ~((j.allocate /\ c < 0) \/ j.bandwidth = 0)
  <2> DEFINE i == [j EXCEPT !.channel = c]
             k == BwLoop(i)
  <2>1. Set(u, k) /\ UNCHANGED hold
      BY <1>6 DEF AfterChannel
  <2>2. i \in JobType
      BY <1>1 DEF JobType
  <2>3. k \in JobType
      BY <2>2, BwLoopType
  <2>4. /\ k.pc = "bandwidth" /\ k.allocate = j.allocate /\ k.generation = j.generation
        /\ k.bandwidth = j.bandwidth /\ k.channel = c
        /\ ~j.allocate => k.units = 0
      BY <1>1, <2>2 DEF BwLoop, JobType
  <2>5. j.bandwidth > 0 /\ (Taking(j) <=> j.allocate)
      BY <1>1, <1>6 DEF JobType, Taking
  <2>6. failed' \/ Stale(j) \/ j.allocate \/ 0 + j.bandwidth <= Initial
      BY <1>1 DEF JobType
  <2> HIDE DEF k
  <2>7. QED
      BY <1>1, <2>1, <2>3, <2>4, <2>5, <2>6, ContinuesOK DEF Stale
<1>7. QED
    BY <1>3, <1>4, <1>5, <1>6

\* What follows manage_bandwidth() when it failed, if u has its channel only.
LEMMA BandwidthFailedOK ==
    ASSUME IrmTypeOK, NEW u \in User, UserOK(u), InBandwidth(u), NEW ret \in {Failure, Again},
           BandwidthFailed(u, job[u], ret), irmgen' = irmgen,
           failed' \/ HasNow(u, IF job[u].allocate /\ ~Stale(job[u])
                                THEN {job[u].channel} \cap Channel ELSE {}, 0)
    PROVE  StepOf(u)
<1> DEFINE j == job[u]
<1>1. j \in JobType /\ j # NoJob /\ j.generation <= irmgen /\ j.channel \in Outcome
    BY DEF IrmTypeOK, InBandwidth, UserOK, JobShape, JobType
<1>2. ret \in Outcome /\ ret < 0 /\ {ret} \cap Channel = {}
    BY IsoAssumption DEF Outcome, Failure, Again
<1>3. CASE j.allocate /\ j.channel >= 0
  <2> DEFINE i == [j EXCEPT !.channel = ret, !.mask = {j.channel}]
             k == Loop(i, "undo")
  <2>1. Set(u, k) /\ UNCHANGED hold
      BY <1>3 DEF BandwidthFailed
  <2>2. j.channel \in Channel
      BY <1>1, <1>3, IsoAssumption DEF Outcome, Failure, Again
  <2>3. i \in JobType
      BY <1>1, <1>2, <2>2 DEF JobType
  <2>4. k \in JobType
      BY <2>3, LoopType
  <2>5. /\ k.pc = "undo" /\ k.allocate = j.allocate /\ k.generation = j.generation
        /\ k.mask = {j.channel} /\ k.channel = ret /\ k.old = {} /\ k.from = 0
      BY <1>1, <2>3 DEF Loop, JobType
  <2>6. ~Taking(k) /\ j.channel \in Register(k.pc, k.mask)
      BY <2>2, <2>5 DEF Taking, Register, Channel
  <2> HIDE DEF k
  <2>7. failed' \/ HasNow(u, IF Stale(k) THEN {} ELSE k.mask, 0)
      BY <1>3, <2>2, <2>5 DEF Stale
  <2>8. QED
      BY <1>1, <1>2, <1>3, <2>1, <2>2, <2>4, <2>5, <2>6, <2>7, ContinuesOK
<1>4. CASE ~(j.allocate /\ j.channel >= 0)
  <2> DEFINE c == IF j.allocate THEN ret ELSE j.channel
  <2>1. OperationReturns(u, j, c, 0)
      BY <1>4 DEF BandwidthFailed
  <2>2. c \in Outcome
      BY <1>1, <1>2
  <2>3. j.allocate => {j.channel} \cap Channel = {}
      BY <1>1, <1>4, NoChannel
  <2>4. failed' \/ IF j.allocate /\ ~Stale(j) THEN HasNow(u, {c} \cap Channel, 0)
                                             ELSE HasNow(u, {}, 0)
      BY <1>2, <2>3
  <2> HIDE DEF c
  <2>5. QED
      BY <1>1, <2>1, <2>2, <2>4, ReturnsOK
<1>5. QED
    BY <1>3, <1>4

-----------------------------------------------------------------------------
(* The registers.                                                          *)

LEMMA SwapTakes ==
    ASSUME IrmTypeOK, ChannelsAgree, NEW u \in User, NEW j \in JobType, Candidates(j) # {},
           SwapMatches(j), Taking(j), Swap(u, j, Min(Candidates(j)))
    PROVE  /\ avail' \subseteq Channel /\ held' \in [User -> SUBSET Channel] /\ ChannelsAgree'
           /\ \A v \in User : Min(Candidates(j)) \notin held[v]
           /\ held' = [held EXCEPT ![u] = held[u] \cup {Min(Candidates(j))}]
<1> DEFINE c == Min(Candidates(j))
<1>1. c \in avail /\ c \in Channel
    BY CandidateFacts DEF SwapMatches
<1>2. \A v \in User : c \notin held[v]
    BY <1>1 DEF ChannelsAgree
<1>3. avail' = avail \ {c} /\ held' = [held EXCEPT ![u] = held[u] \cup {c}]
    BY DEF Swap
<1> HIDE DEF c
<1>4. avail' \subseteq Channel /\ held' \in [User -> SUBSET Channel]
    BY <1>1, <1>3 DEF IrmTypeOK
<1>5. \A d \in Channel : d \in avail' <=> \A v \in User : d \notin held'[v]
    BY <1>2, <1>3 DEF IrmTypeOK, ChannelsAgree
<1>6. \A v, w \in User : v # w => held'[v] \cap held'[w] = {}
    BY <1>2, <1>3 DEF ChannelsAgree, IrmTypeOK
<1>7. ChannelsAgree'
    BY <1>3, <1>5, <1>6 DEF ChannelsAgree
<1>8. QED
    BY <1>2, <1>3, <1>4, <1>7 DEF c

LEMMA SwapGives ==
    ASSUME IrmTypeOK, ChannelsAgree, NEW u \in User, NEW j \in JobType, Candidates(j) # {},
           ~Taking(j), Swap(u, j, Min(Candidates(j)))
    PROVE  /\ avail' \subseteq Channel /\ held' \in [User -> SUBSET Channel] /\ ChannelsAgree'
           /\ held' = [v \in User |-> held[v] \ {Min(Candidates(j))}]
           /\ Min(Candidates(j)) \in held[u] =>
                 \A v \in User : v # u => held'[v] = held[v]
<1> DEFINE c == Min(Candidates(j))
<1>1. c \in Channel
    BY CandidateFacts
<1>2. avail' = avail \cup {c} /\ held' = [v \in User |-> held[v] \ {c}]
    BY DEF Swap
<1> HIDE DEF c
<1>3. avail' \subseteq Channel /\ held' \in [User -> SUBSET Channel]
    BY <1>1, <1>2 DEF IrmTypeOK
<1>4. \A d \in Channel : d \in avail' <=> \A v \in User : d \notin held'[v]
    BY <1>2 DEF IrmTypeOK, ChannelsAgree
<1>5. ChannelsAgree'
    BY <1>1, <1>2, <1>4 DEF ChannelsAgree
<1>6. c \in held[u] => \A v \in User : v # u => held'[v] = held[v]
    BY <1>2 DEF ChannelsAgree
<1>7. QED
    BY <1>2, <1>3, <1>5, <1>6 DEF c

LEMMA SwapBandwidthOK ==
    ASSUME IrmTypeOK, BandwidthAgrees, NEW u \in User, NEW j \in JobType, Fits(j),
           j.units = bw, SwapBandwidth(u, j), failed \/ j.allocate \/ j.bandwidth <= heldbw[u]
    PROVE  /\ bw' \in 0 .. Initial /\ heldbw' \in [User -> Nat]
           /\ failed \/ (IsFiniteSet(Taken') /\ bw' + Cardinality(Taken') = Initial)
           /\ \A v \in User : v # u => heldbw'[v] = heldbw[v]
           /\ j.allocate => heldbw'[u] = heldbw[u] + j.bandwidth
           /\ ~j.allocate /\ j.bandwidth <= heldbw[u] => heldbw'[u] = heldbw[u] - j.bandwidth
<1>1. /\ bw \in 0 .. Initial /\ heldbw \in [User -> Nat] /\ j.bandwidth \in Nat
      /\ Initial \in Nat
    BY IsoAssumption DEF IrmTypeOK, JobType
<1>2. bw' \in 0 .. Initial
    BY <1>1 DEF Fits, SwapBandwidth
<1>3. heldbw' \in [User -> Nat]
    BY <1>1 DEF SwapBandwidth
<1>4. /\ \A v \in User : v # u => heldbw'[v] = heldbw[v]
      /\ j.allocate => heldbw' = [heldbw EXCEPT ![u] = heldbw[u] + j.bandwidth]
      /\ ~j.allocate /\ j.bandwidth <= heldbw[u] =>
            heldbw' = [heldbw EXCEPT ![u] = heldbw[u] - j.bandwidth]
    BY <1>1 DEF SwapBandwidth
<1>5. Taken = UnitsOf(heldbw) /\ Taken' = UnitsOf(heldbw')
    BY DEF Taken, UnitsOf
<1>6. ASSUME ~failed PROVE IsFiniteSet(Taken') /\ bw' + Cardinality(Taken') = Initial
  <2>1. IsFiniteSet(UnitsOf(heldbw)) /\ bw + Cardinality(UnitsOf(heldbw)) = Initial
      BY <1>5, <1>6 DEF BandwidthAgrees
  <2>2. Cardinality(UnitsOf(heldbw)) \in Nat
      BY <2>1, FS_CardinalityType
  <2>3. CASE j.allocate
    <3>1. /\ IsFiniteSet(UnitsOf(heldbw'))
          /\ Cardinality(UnitsOf(heldbw')) = Cardinality(UnitsOf(heldbw)) + j.bandwidth
        BY <1>1, <1>4, <2>1, <2>3, UnitsAdd
    <3>2. bw' = bw - j.bandwidth
        BY <2>3 DEF SwapBandwidth
    <3>3. QED
        BY <1>1, <1>5, <2>1, <2>2, <3>1, <3>2
  <2>4. CASE ~j.allocate
    <3>1. /\ IsFiniteSet(UnitsOf(heldbw'))
          /\ Cardinality(UnitsOf(heldbw')) = Cardinality(UnitsOf(heldbw)) - j.bandwidth
        BY <1>1, <1>4, <1>6, <2>1, <2>4, UnitsSub
    <3>2. bw' = bw + j.bandwidth
        BY <2>4 DEF SwapBandwidth
    <3>3. QED
        BY <1>1, <1>5, <2>1, <2>2, <3>1, <3>2
  <2>5. QED
      BY <2>3, <2>4
<1>7. QED
    BY <1>1, <1>2, <1>3, <1>4, <1>6

\* Users that a step is not of.
LEMMA OthersOK ==
    ASSUME IrmInv, NEW u \in User, StepOf(u), irmgen' = irmgen, failed => failed',
           \A v \in User : v # u =>
               /\ failed' \/ held'[v] = held[v]
               /\ heldbw'[v] = heldbw[v]
               /\ v \in spent' <=> v \in spent
    PROVE  \A v \in User : UserOK(v)'
<1> SUFFICES ASSUME NEW v \in User, v # u PROVE UserOK(v)'
    BY DEF StepOf
<1>0. UserOK(v)
    BY DEF IrmInv
<1>1. /\ job'[v] = job[v] /\ hold'[v] = hold[v]
      /\ failed' \/ held'[v] = held[v]
      /\ heldbw'[v] = heldbw[v] /\ (v \in spent' <=> v \in spent)
    BY DEF StepOf
<1>2. JobShape(v)' /\ (hold[v].generation <= irmgen)'
    BY <1>0, <1>1 DEF UserOK, JobShape
<1>3. CASE failed'
    BY <1>2, <1>3 DEF UserOK
<1>4. CASE ~failed'
  <2>1. ~failed /\ held'[v] = held[v] /\ (v \in spent' <=> v \in spent)
      BY <1>1, <1>4
  <2>2. Mine(v)' = Mine(v) /\ MineBw(v)' = MineBw(v)
      BY <1>1 DEF Mine, MineBw, Told, Stale
  <2>3. Has(v, Mine(v), MineBw(v))'
      BY <1>0, <1>1, <2>1, <2>2 DEF UserOK, Has
  <2>4. GiveShape(v)'
      BY <1>0, <1>1, <2>1 DEF UserOK, GiveShape, Stale
  <2>5. QED
      BY <1>2, <2>3, <2>4 DEF UserOK
<1>5. QED
    BY <1>3, <1>4

-----------------------------------------------------------------------------
(* The steps.                                                              *)

\* A step of u that leaves the registers alone.
LEMMA QuietStep ==
    ASSUME IrmInv, NEW u \in User, StepOf(u),
           UNCHANGED <<irmgen, avail, bw, held, heldbw>>, ops' \in 0 .. MaxOps,
           failed' \in BOOLEAN, failed => failed', spent' \in {spent, spent \cup {u}}
    PROVE  IrmInv'
<1>1. \A v \in User : UserOK(v)'
    BY OthersOK
<1>2. IrmTypeOK'
    BY DEF IrmInv, IrmTypeOK, StepOf
<1>3. ChannelsAgree'
    BY DEF IrmInv, ChannelsAgree
<1>4. Taken' = Taken
    BY DEF Taken
<1>5. BandwidthAgrees'
    BY <1>4 DEF IrmInv, BandwidthAgrees
<1>6. QED
    BY <1>1, <1>2, <1>3, <1>5 DEF IrmInv

LEMMA IrmInitInv == IrmInit => IrmInv
<1> SUFFICES ASSUME IrmInit PROVE IrmInv
    OBVIOUS
<1> USE IsoAssumption DEF IrmInit
<1>1. hold \in [User -> [channel : Outcome, bandwidth : Nat, generation : 0 .. IrmMaxGen]]
    BY DEF Nothing, Outcome
<1>2. job \in [User -> JobType \cup {NoJob}]
    OBVIOUS
<1>3. IrmTypeOK
  <2>1. failed \in BOOLEAN
      BY Zenon
  <2>2. irmgen \in 0 .. IrmMaxGen /\ ops \in 0 .. MaxOps /\ bw \in 0 .. Initial
      OBVIOUS
  <2>3. held \in [User -> SUBSET Channel] /\ heldbw \in [User -> Nat]
      OBVIOUS
  <2>4. QED
      BY <1>1, <1>2, <2>1, <2>2, <2>3 DEF IrmTypeOK
<1>4. ChannelsAgree
    BY DEF ChannelsAgree
<1>5. BandwidthAgrees
  <2>1. Taken = {}
      BY NoUnits DEF Taken, UnitsOf
  <2>2. QED
      BY <2>1, FS_EmptySet DEF BandwidthAgrees
<1>6. ASSUME NEW u \in User PROVE UserOK(u)
  <2>1. {Nothing.channel} \cap Channel = {} /\ Nothing.bandwidth = 0 /\ Nothing.generation = 0
      BY DEF Nothing, Failure
  <2>2. QED
      BY <2>1 DEF UserOK, JobShape, GiveShape, Has, Mine, MineBw, Told
<1>7. QED
    BY <1>3, <1>4, <1>5, <1>6 DEF IrmInv

\* After a bus reset, nobody has anything, and every job is stale.
LEMMA ResetOK == IrmInv /\ IrmReset => IrmInv'
<1> SUFFICES ASSUME IrmInv, IrmReset PROVE IrmInv'
    OBVIOUS
<1> USE IsoAssumption DEF IrmInv, IrmReset
<1>1. IrmTypeOK'
  <2>1. failed' \in BOOLEAN
      BY Zenon
  <2>2. irmgen' \in 0 .. IrmMaxGen /\ bw' \in 0 .. Initial
      BY DEF IrmTypeOK
  <2>3. held' \in [User -> SUBSET Channel] /\ heldbw' \in [User -> Nat]
      OBVIOUS
  <2>4. QED
      BY <2>1, <2>2, <2>3 DEF IrmTypeOK
<1>2. ChannelsAgree'
    BY DEF ChannelsAgree
<1>3. BandwidthAgrees'
  <2>1. Taken' = {}
      BY NoUnits DEF Taken, UnitsOf
  <2>2. QED
      BY <2>1, FS_EmptySet DEF BandwidthAgrees
<1>4. ASSUME NEW u \in User PROVE UserOK(u)'
  <2>1. UserOK(u) /\ job' = job /\ hold' = hold /\ irmgen' = irmgen + 1 /\ irmgen \in Nat
      BY DEF IrmTypeOK
  <2>2. hold[u].generation \in Nat /\ hold[u].generation < irmgen'
      BY <2>1 DEF UserOK, IrmTypeOK
  <2>3. job[u] # NoJob => job[u].generation \in Nat /\ job[u].generation < irmgen'
      BY <2>1 DEF UserOK, JobShape, IrmTypeOK, JobType
  <2>4. {Nothing.channel} \cap Channel = {} /\ Nothing.bandwidth = 0
      BY DEF Nothing, Failure
  <2>5. Told(u)' = Nothing
      BY <2>1, <2>2 DEF Told
  <2>6. job[u] # NoJob => Stale(job[u])'
      BY <2>1, <2>3 DEF Stale
  <2>7. Mine(u)' = {} /\ MineBw(u)' = 0
      BY <2>1, <2>4, <2>5, <2>6 DEF Mine, MineBw
  <2>8. Has(u, Mine(u), MineBw(u))'
      BY <2>7 DEF Has
  <2>9. GiveShape(u)' /\ JobShape(u)'
      BY <2>1, <2>3, <2>6 DEF GiveShape, JobShape, UserOK
  <2>10. QED
      BY <2>1, <2>2, <2>8, <2>9 DEF UserOK
<1>5. QED
    BY <1>1, <1>2, <1>3, <1>4

\* An operation of an idle user that has what it gives back begins.
LEMMA StartOK ==
    ASSUME IrmInv, NEW u \in User, job[u] = NoJob, NEW allocate \in BOOLEAN,
           NEW mask \in SUBSET Channel, NEW n \in Nat, NEW generation \in 0 .. IrmMaxGen,
           generation <= irmgen, mask # {} \/ n > 0,
           StartOperation(u, allocate, mask, n, generation),
           IF allocate
           THEN hold[u].channel < 0 /\ hold[u].bandwidth = 0
           ELSE /\ mask = {hold[u].channel} \cap Channel /\ n = hold[u].bandwidth
                /\ generation = hold[u].generation,
           UNCHANGED <<irmgen, avail, bw, held, heldbw, hold, failed, spent>>,
           ops' \in 0 .. MaxOps
    PROVE  IrmInv'
<1> DEFINE j == [pc |-> "hi", allocate |-> allocate, mask |-> mask, bandwidth |-> n,
                 generation |-> generation, from |-> 0, old |-> {}, retry |-> 0, units |-> 0,
                 channel |-> Failure]
           k == IF mask \cap Hi # {} THEN Loop(j, "hi")
                ELSE IF mask # {} THEN Loop(j, "lo") ELSE BwLoop(j)
<1>1. IrmTypeOK /\ UserOK(u)
    BY DEF IrmInv
<1>2. j \in JobType
    BY IsoAssumption DEF JobType, Outcome
<1>3. k \in JobType
    BY <1>2, LoopType, BwLoopType
<1>4. Set(u, k)
    BY DEF StartOperation
<1>5. /\ k.generation = generation /\ k.allocate = allocate /\ k.bandwidth = n
      /\ k.mask = mask /\ k.channel = Failure
      /\ k.pc = IF mask \cap Hi # {} THEN "hi" ELSE IF mask # {} THEN "lo" ELSE "bandwidth"
      /\ ~allocate => k.old = {} /\ k.units = 0
      /\ k.pc # "bandwidth" => k.from = 0
    BY DEF Loop, BwLoop
<1> HIDE DEF k
<1>6. k.pc # "undo" /\ (k.pc = "bandwidth" => n > 0 /\ mask = {})
    BY <1>5
<1>7. Taking(k) <=> allocate
    BY <1>5, <1>6 DEF Taking
<1>8. ~allocate /\ mask # {} => mask = {hold[u].channel} /\ hold[u].channel \in Channel
    OBVIOUS
<1>9. k.pc # "bandwidth" /\ ~Taking(k) =>
          \E c \in Channel : k.mask = {c} /\ c \in Register(k.pc, k.mask)
    BY <1>5, <1>7, <1>8 DEF Register, Channel
<1>10. Stale(k) <=> generation # irmgen
    BY <1>5 DEF Stale
<1>11. failed \/ Has(u, {Told(u).channel} \cap Channel, Told(u).bandwidth)
    BY <1>1 DEF UserOK, Mine, MineBw
<1>12. {Nothing.channel} \cap Channel = {} /\ Nothing.bandwidth = 0
    BY IsoAssumption DEF Nothing, Failure
<1>13. allocate => Told(u).bandwidth = 0 /\ {Told(u).channel} \cap Channel = {}
  <2>1. hold[u].channel \in Outcome
      BY <1>1 DEF IrmTypeOK
  <2>2. QED
      BY <1>12, <2>1, NoChannel DEF Told
<1>14. ~allocate => IF generation = irmgen
                   THEN {Told(u).channel} \cap Channel = mask /\ Told(u).bandwidth = n
                   ELSE {Told(u).channel} \cap Channel = {} /\ Told(u).bandwidth = 0
    BY <1>12 DEF Told
<1>15. failed \/ IF allocate \/ generation # irmgen THEN Has(u, {}, 0) ELSE Has(u, mask, n)
    BY <1>11, <1>13, <1>14
<1>16. failed' \/ HasNow(u, IF Stale(k) THEN {}
                            ELSE IF k.pc = "bandwidth"
                                 THEN IF k.allocate THEN {k.channel} \cap Channel ELSE {}
                            ELSE IF Taking(k) THEN {} ELSE k.mask,
                            IF Stale(k) \/ k.allocate THEN 0 ELSE k.bandwidth)
  <2>1. {Failure} \cap Channel = {}
      BY <1>12 DEF Nothing
  <2>2. QED
      BY <1>5, <1>6, <1>7, <1>10, <1>15, <2>1 DEF Has, HasNow
<1>17. ASSUME ~failed, ~Stale(k), ~allocate PROVE n <= Initial
  <2>1. n <= heldbw[u]
      BY <1>10, <1>15, <1>17 DEF Has
  <2>2. IsFiniteSet(UnitsOf(heldbw)) /\ bw + Cardinality(UnitsOf(heldbw)) = Initial
      BY <1>17 DEF IrmInv, BandwidthAgrees, Taken, UnitsOf
  <2>3. heldbw[u] <= Cardinality(UnitsOf(heldbw)) /\ heldbw[u] \in Nat
      BY <1>1, <2>2, UnitsOwn DEF IrmTypeOK
  <2>4. Cardinality(UnitsOf(heldbw)) \in Nat
      BY <2>2, FS_CardinalityType
  <2>5. QED
      BY <1>1, <2>1, <2>2, <2>3, <2>4, IsoAssumption DEF IrmTypeOK
<1>18. failed' \/ Stale(k) \/
          (/\ k.pc # "bandwidth" /\ ~Taking(k) =>
                 k.mask \cap k.old = {} /\ (k.retry = 0 \/ k.from = 0)
           /\ k.pc = "bandwidth" /\ ~k.allocate => k.units + k.bandwidth <= Initial)
    BY <1>5, <1>7, <1>17
<1>19. StepOf(u)
    BY <1>1, <1>3, <1>4, <1>5, <1>6, <1>9, <1>16, <1>18, ContinuesOK
<1>20. QED
    BY <1>1, <1>19, QuietStep DEF IrmTypeOK

LEMMA AllocateOK == \A u \in User : IrmInv /\ AllocateResource(u) => IrmInv'
<1> SUFFICES ASSUME NEW u \in User, IrmInv, AllocateResource(u) PROVE IrmInv'
    OBVIOUS
<1>1. PICK mask \in Masks, n \in Units :
          (mask # {} \/ n > 0) /\ StartOperation(u, TRUE, mask, n, irmgen)
    BY DEF AllocateResource
<1>2. mask \in SUBSET Channel /\ n \in Nat
    BY IsoAssumption
<1>3. irmgen \in 0 .. IrmMaxGen /\ irmgen <= irmgen /\ ops' \in 0 .. MaxOps
    BY IsoAssumption DEF AllocateResource, IrmInv, IrmTypeOK
<1>4. /\ job[u] = NoJob /\ hold[u].channel < 0 /\ hold[u].bandwidth = 0
      /\ UNCHANGED <<irmgen, avail, bw, held, heldbw, hold, failed, spent>>
    BY DEF AllocateResource
<1>5. TRUE \in BOOLEAN
    OBVIOUS
<1>6. QED
    BY <1>1, <1>2, <1>3, <1>4, <1>5, StartOK

LEMMA DeallocateOK == \A u \in User : IrmInv /\ DeallocateResource(u) => IrmInv'
<1> SUFFICES ASSUME NEW u \in User, IrmInv, DeallocateResource(u) PROVE IrmInv'
    OBVIOUS
<1> DEFINE mask == {hold[u].channel} \cap Channel
           n == hold[u].bandwidth
           generation == hold[u].generation
<1>1. /\ job[u] = NoJob /\ (hold[u].channel >= 0 \/ n > 0)
      /\ StartOperation(u, FALSE, mask, n, generation)
      /\ UNCHANGED <<irmgen, avail, bw, held, heldbw, hold, failed, spent>>
    BY DEF DeallocateResource
<1>2. /\ hold[u].channel \in Outcome /\ n \in Nat /\ generation \in 0 .. IrmMaxGen
      /\ generation <= irmgen
    BY DEF IrmInv, IrmTypeOK, UserOK
<1>3. mask \in SUBSET Channel /\ (mask # {} \/ n > 0)
    BY <1>1, <1>2, NoChannel
<1>4. ops' \in 0 .. MaxOps
    BY IsoAssumption DEF DeallocateResource, IrmInv, IrmTypeOK
<1>5. FALSE \in BOOLEAN
    OBVIOUS
<1> HIDE DEF mask, n, generation
<1>6. mask = {hold[u].channel} \cap Channel /\ n = hold[u].bandwidth /\ generation = hold[u].generation
    BY DEF mask, n, generation
<1>7. QED
    BY <1>1, <1>2, <1>3, <1>4, <1>5, <1>6, StartOK

\* What the invariant says of a job in manage_channel().
LEMMA ChannelJob ==
    ASSUME IrmInv, NEW u \in User, InChannel(u)
    PROVE  /\ IrmTypeOK /\ ChannelsAgree /\ BandwidthAgrees /\ UserOK(u) /\ JobShape(u)
           /\ job[u] \in JobType /\ job[u] # NoJob /\ job[u].generation <= irmgen
           /\ failed \/ GiveShape(u)
           /\ failed \/ Has(u, IF Taking(job[u]) \/ Stale(job[u]) THEN {} ELSE job[u].mask,
                               IF Stale(job[u]) \/ job[u].allocate THEN 0
                                                                  ELSE job[u].bandwidth)
<1>1. IrmTypeOK /\ ChannelsAgree /\ BandwidthAgrees /\ UserOK(u) /\ JobShape(u)
    BY DEF IrmInv, UserOK
<1>2. job[u] \in JobType /\ job[u] # NoJob /\ job[u].pc # "bandwidth"
    BY <1>1 DEF InChannel, IrmTypeOK
<1>3. QED
    BY <1>1, <1>2 DEF UserOK, JobShape, Mine, MineBw

\* The bandwidth a user gives back fits into the register.
LEMMA BandwidthFits ==
    ASSUME IrmTypeOK, BandwidthAgrees, ~failed, NEW u \in User, NEW n \in Nat, n <= heldbw[u]
    PROVE  bw + n <= Initial /\ n <= Initial
<1>1. IsFiniteSet(UnitsOf(heldbw)) /\ bw + Cardinality(UnitsOf(heldbw)) = Initial
    BY DEF BandwidthAgrees, Taken, UnitsOf
<1>2. heldbw[u] <= Cardinality(UnitsOf(heldbw)) /\ heldbw[u] \in Nat
    BY <1>1, UnitsOwn DEF IrmTypeOK
<1>3. Cardinality(UnitsOf(heldbw)) \in Nat
    BY <1>1, FS_CardinalityType
<1>4. QED
    BY <1>1, <1>2, <1>3, IsoAssumption DEF IrmTypeOK

LEMMA ChannelExhaustedOK == \A u \in User : IrmInv /\ ChannelExhausted(u) => IrmInv'
<1> SUFFICES ASSUME NEW u \in User, IrmInv, ChannelExhausted(u) PROVE IrmInv'
    OBVIOUS
<1> DEFINE j == job[u]
<1>1. /\ InChannel(u) /\ Candidates(j) = {} /\ AfterChannel(u, j, Failure)
      /\ UNCHANGED <<irmgen, avail, bw, held, heldbw, ops, failed>>
      /\ spent' = IF ~Taking(j) /\ ~Stale(j) /\ j.retry = 0 THEN spent \cup {u} ELSE spent
    BY DEF ChannelExhausted, GivesUp
<1>2. /\ IrmTypeOK /\ BandwidthAgrees /\ UserOK(u) /\ JobShape(u)
      /\ j \in JobType /\ j # NoJob
      /\ failed \/ GiveShape(u)
      /\ failed \/ Has(u, IF Taking(j) \/ Stale(j) THEN {} ELSE j.mask,
                          IF Stale(j) \/ j.allocate THEN 0 ELSE j.bandwidth)
    BY <1>1, ChannelJob
<1>3. Failure \in Outcome /\ {Failure} \cap Channel = {}
    BY IsoAssumption DEF Outcome, Failure
\* A channel to give back is a candidate until the tries are used up.
<1>4. ~failed /\ ~Taking(j) /\ ~Stale(j) => j.retry = 0
  <2> SUFFICES ASSUME ~failed, ~Taking(j), ~Stale(j), j.retry # 0 PROVE FALSE
      OBVIOUS
  <2>1. PICK c \in Channel : j.mask = {c} /\ c \in Register(j.pc, j.mask)
      BY <1>1, <1>2 DEF JobShape, InChannel
  <2>2. c \notin j.old /\ j.from = 0
      BY <1>1, <1>2, <2>1 DEF GiveShape, InChannel
  <2>3. c >= j.from
      BY <2>2, IsoAssumption
  <2>4. c \in Candidates(j)
      BY <2>1, <2>2, <2>3 DEF Candidates
  <2>5. QED
      BY <1>1, <2>4
<1>5. failed' \/ HasNow(u, {}, IF Stale(j) \/ j.allocate THEN 0 ELSE j.bandwidth)
    BY <1>1, <1>2, <1>4 DEF Has, HasNow
<1>6. failed' \/ Stale(j) \/ j.allocate \/ j.bandwidth <= Initial
    BY <1>1, <1>2, BandwidthFits DEF Has, JobType
<1>7. StepOf(u)
    BY <1>1, <1>2, <1>3, <1>5, <1>6, AfterChannelOK
<1>8. QED
    BY <1>1, <1>2, <1>7, QuietStep DEF IrmTypeOK

LEMMA ChannelStaleOK == \A u \in User : IrmInv /\ ChannelStale(u) => IrmInv'
<1> SUFFICES ASSUME NEW u \in User, IrmInv, ChannelStale(u) PROVE IrmInv'
    OBVIOUS
<1> DEFINE j == job[u]
           c == IF Taking(j) THEN Again ELSE Min(Candidates(j))
<1>1. /\ InChannel(u) /\ Candidates(j) # {} /\ Stale(j) /\ AfterChannel(u, j, c)
      /\ UNCHANGED <<irmgen, avail, bw, held, heldbw, ops, failed, spent>>
    BY DEF ChannelStale
<1>2. /\ IrmTypeOK /\ UserOK(u) /\ j \in JobType
      /\ failed \/ Has(u, {}, 0)
    BY <1>1, ChannelJob
<1>3. c \in Outcome
    BY <1>1, <1>2, CandidateFacts DEF Outcome
<1> HIDE DEF c
<1>4. failed' \/ HasNow(u, {}, 0)
    BY <1>1, <1>2 DEF Has, HasNow
<1>5. StepOf(u)
    BY <1>1, <1>2, <1>3, <1>4, AfterChannelOK
<1>6. QED
    BY <1>1, <1>2, <1>5, QuietStep DEF IrmTypeOK

\* A step of u in manage_channel() that swaps or not, and tries again.
RetryShape(j, k) ==
    /\ k \in JobType
    /\ k.pc = j.pc /\ k.allocate = j.allocate /\ k.mask = j.mask /\ k.channel = j.channel
    /\ k.bandwidth = j.bandwidth /\ k.generation = j.generation
    /\ k.retry = 0 \/ (k.from = j.from /\ j.retry # 0)

LEMMA RetryOK ==
    ASSUME NEW j \in JobType, NEW c \in Nat
    PROVE  RetryShape(j, Retry(j, c)) /\ Retry(j, c).old = j.old
<1>1. CASE j.retry > 0
  <2>1. j.retry - 1 \in 0 .. Tries
      BY <1>1, IsoAssumption DEF JobType
  <2>2. QED
      BY <1>1, <2>1 DEF Retry, RetryShape, JobType
<1>2. CASE ~(j.retry > 0)
  <2>1. c + 1 \in Nat /\ j.retry = 0
      BY <1>2, IsoAssumption DEF JobType
  <2>2. QED
      BY <1>2, <2>1 DEF Retry, RetryShape, JobType
<1>3. QED
    BY <1>1, <1>2

\* The loop goes on with the same operation; the user has what it had.
LEMMA ChannelRetryOK ==
    ASSUME IrmInv, NEW u \in User, InChannel(u), NEW k, RetryShape(job[u], k), Set(u, k),
           UNCHANGED <<irmgen, hold, heldbw, spent>>, failed => failed',
           failed' \/ Stale(job[u]) \/ Taking(job[u]) \/ k.mask \cap k.old = {},
           failed' \/ held' = held
    PROVE  StepOf(u)
<1> DEFINE j == job[u]
<1>1. /\ IrmTypeOK /\ UserOK(u) /\ JobShape(u)
      /\ j \in JobType /\ j # NoJob /\ j.generation <= irmgen
      /\ failed \/ GiveShape(u)
      /\ failed \/ Has(u, IF Taking(j) \/ Stale(j) THEN {} ELSE j.mask,
                          IF Stale(j) \/ j.allocate THEN 0 ELSE j.bandwidth)
    BY ChannelJob
<1>2. k \in JobType /\ (Taking(k) <=> Taking(j)) /\ (Stale(k) <=> Stale(j))
    BY DEF RetryShape, Taking, Stale
<1>3. k.pc # "bandwidth"
    BY DEF InChannel, RetryShape
<1>4. /\ k.generation <= irmgen
      /\ k.pc = "bandwidth" => k.bandwidth > 0
      /\ k.pc = "undo" => k.allocate /\ k.channel < 0
      /\ k.pc # "bandwidth" /\ ~Taking(k) =>
            \E c \in Channel : k.mask = {c} /\ c \in Register(k.pc, k.mask)
    BY <1>1, <1>2, <1>3 DEF JobShape, RetryShape
<1>5. failed' \/ Stale(k) \/ Taking(k) \/ k.retry = 0 \/ k.from = 0
  <2>1. failed \/ Stale(j) \/ Taking(j) \/ j.retry = 0 \/ j.from = 0
      BY <1>1, <1>3 DEF GiveShape, RetryShape
  <2>2. QED
      BY <1>2, <2>1 DEF RetryShape
<1>6. failed' \/ HasNow(u, IF Taking(k) \/ Stale(k) THEN {} ELSE k.mask,
                           IF Stale(k) \/ k.allocate THEN 0 ELSE k.bandwidth)
    BY <1>1, <1>2 DEF Has, HasNow, RetryShape
<1>7. QED
    BY <1>1, <1>2, <1>3, <1>4, <1>5, <1>6, ContinuesOK

LEMMA ChannelLockOK == \A u \in User : IrmInv /\ ChannelLock(u) => IrmInv'
<1> SUFFICES ASSUME NEW u \in User, IrmInv, ChannelLock(u) PROVE IrmInv'
    OBVIOUS
<1> DEFINE j == job[u]
           c == Min(Candidates(j))
           now == avail \cap Register(j.pc, j.mask)
           seen == [j EXCEPT !.old = now]
<1>1. /\ InChannel(u) /\ Candidates(j) # {} /\ ~Stale(j)
      /\ UNCHANGED <<irmgen, bw, heldbw, ops, failed, spent>>
    BY DEF ChannelLock
<1>2. /\ IrmTypeOK /\ ChannelsAgree /\ BandwidthAgrees /\ UserOK(u) /\ JobShape(u)
      /\ j \in JobType /\ j # NoJob /\ j.pc # "bandwidth"
      /\ failed \/ Has(u, IF Taking(j) THEN {} ELSE j.mask,
                          IF j.allocate THEN 0 ELSE j.bandwidth)
    BY <1>1, ChannelJob DEF InChannel
<1>3. c \in Channel /\ c \in Nat /\ c \in Outcome /\ c \in j.mask
    BY <1>1, <1>2, CandidateFacts, IsoAssumption DEF Outcome
<1>4. ~Taking(j) => j.mask = {c}
    BY <1>2, <1>3 DEF JobShape
<1>5. failed \/ j.allocate \/ j.bandwidth <= Initial
    BY <1>2, BandwidthFits DEF Has, JobType
<1>6. Taken' = Taken
    BY <1>1 DEF Taken
<1>7. CASE SwapMatches(j)
  <2>1. Swap(u, j, c) /\ AfterChannel(u, j, c)
      BY <1>7 DEF ChannelLock
  <2>2. /\ avail' \subseteq Channel /\ held' \in [User -> SUBSET Channel] /\ ChannelsAgree'
        /\ held'[u] = IF Taking(j) THEN held[u] \cup {c} ELSE held[u] \ {c}
        /\ failed \/ \A v \in User : v # u => held'[v] = held[v]
    <3>1. CASE Taking(j)
        BY <1>1, <1>2, <1>7, <2>1, <3>1, SwapTakes DEF IrmTypeOK
    <3>2. CASE ~Taking(j)
      <4>1. failed \/ c \in held[u]
          BY <1>2, <1>4, <3>2 DEF Has
      <4>2. QED
          BY <1>1, <1>2, <2>1, <3>2, <4>1, SwapGives
    <3>3. QED
        BY <3>1, <3>2
  <2>3. failed' \/ HasNow(u, IF Taking(j) THEN {c} \cap Channel ELSE {},
                             IF j.allocate THEN 0 ELSE j.bandwidth)
      BY <1>1, <1>2, <1>3, <1>4, <2>2 DEF Has, HasNow
  <2> HIDE DEF c
  <2>4. StepOf(u)
      BY <1>1, <1>2, <1>3, <1>5, <2>1, <2>3, AfterChannelOK
  <2>5. \A v \in User : UserOK(v)'
      BY <1>1, <2>2, <2>4, OthersOK
  <2>6. IrmTypeOK'
      BY <1>1, <1>2, <2>2, <2>4 DEF IrmTypeOK, StepOf
  <2>7. QED
      BY <1>1, <1>2, <1>6, <2>2, <2>5, <2>6 DEF IrmInv, BandwidthAgrees
<1>8. CASE ~SwapMatches(j)
  <2> DEFINE k == IF c \in now <=> Taking(j) THEN Retry(seen, c) ELSE [seen EXCEPT !.from = c + 1]
  <2>1. Set(u, k) /\ UNCHANGED <<avail, held, hold>>
      BY <1>8 DEF ChannelLock
  <2>2. /\ seen \in JobType /\ seen.old = now /\ seen.pc = j.pc /\ seen.allocate = j.allocate
        /\ seen.mask = j.mask /\ seen.bandwidth = j.bandwidth /\ seen.channel = j.channel
        /\ seen.generation = j.generation /\ seen.retry = j.retry /\ seen.from = j.from
    <3>1. now \in SUBSET Channel
        BY <1>2 DEF IrmTypeOK
    <3> HIDE DEF now
    <3>2. QED
        BY <1>2, <3>1 DEF JobType
  <2>3. failed \/ Taking(j) \/ c \notin now
      BY <1>2, <1>3, <1>4 DEF Has, ChannelsAgree
  <2>4. CASE failed \/ Taking(j) \/ (c \in now <=> Taking(j))
    <3>1. CASE c \in now <=> Taking(j)
      <4>1. RetryShape(seen, k) /\ k.old = now
        <5> HIDE DEF c, seen, now
        <5>1. QED
            BY <1>3, <2>2, <3>1, RetryOK
      <4> HIDE DEF k, seen, now, c
      <4>2. RetryShape(j, k)
          BY <2>2, <4>1 DEF RetryShape
      <4>3. failed \/ Taking(j) \/ k.mask \cap k.old = {}
          BY <1>4, <2>2, <2>3, <4>1, <4>2 DEF RetryShape
      <4>4. StepOf(u)
          BY <1>1, <2>1, <4>2, <4>3, ChannelRetryOK
      <4>5. QED
          BY <1>1, <1>2, <2>1, <4>4, QuietStep DEF IrmTypeOK
    <3>2. CASE ~(c \in now <=> Taking(j))
      <4>1. /\ k \in JobType /\ k.pc = j.pc /\ k.allocate = j.allocate
            /\ k.mask = j.mask /\ k.bandwidth = j.bandwidth /\ k.channel = j.channel
            /\ k.generation = j.generation
        <5>1. k = [seen EXCEPT !.from = c + 1] /\ c + 1 \in Nat
            BY <1>3, <3>2
        <5> HIDE DEF k, seen, now, c
        <5>2. QED
            BY <2>2, <5>1 DEF JobType
      <4>2. failed \/ Taking(j)
          BY <2>4, <3>2
      <4> HIDE DEF k, seen, now, c
      <4>3. (Taking(k) <=> Taking(j)) /\ ~Stale(k)
          BY <1>1, <4>1 DEF Taking, Stale
      <4>4. failed' \/ HasNow(u, IF Taking(k) THEN {} ELSE k.mask,
                                 IF k.allocate THEN 0 ELSE k.bandwidth)
          BY <1>1, <1>2, <2>1, <4>1, <4>2, <4>3 DEF Has, HasNow
      <4>5. /\ k.generation <= irmgen
            /\ k.pc = "undo" => k.allocate /\ k.channel < 0
            /\ ~Taking(k) => \E d \in Channel : k.mask = {d} /\ d \in Register(k.pc, k.mask)
          BY <1>2, <4>1, <4>3 DEF JobShape
      <4>6. StepOf(u)
          BY <1>1, <1>2, <2>1, <4>1, <4>2, <4>3, <4>4, <4>5, ContinuesOK
      <4>7. QED
          BY <1>1, <1>2, <2>1, <4>6, QuietStep DEF IrmTypeOK
    <3>3. QED
        BY <3>1, <3>2
  <2>5. QED
      BY <2>3, <2>4
<1>9. QED
    BY <1>7, <1>8

LEMMA ChannelFailsOK == \A u \in User : IrmInv /\ ChannelFails(u) => IrmInv'
<1> SUFFICES ASSUME NEW u \in User, IrmInv, ChannelFails(u) PROVE IrmInv'
    OBVIOUS
<1> DEFINE j == job[u]
           c == Min(Candidates(j))
<1>1. /\ InChannel(u) /\ Candidates(j) # {} /\ ~Stale(j) /\ Set(u, Retry(j, c))
      /\ (SwapMatches(j) /\ Swap(u, j, c)) \/ UNCHANGED <<avail, held>>
      /\ UNCHANGED <<irmgen, bw, heldbw, hold, spent>> /\ failed' = TRUE
    BY DEF ChannelFails
<1>2. IrmTypeOK /\ ChannelsAgree /\ j \in JobType
    BY <1>1, ChannelJob
<1>3. c \in Nat
    BY <1>1, <1>2, CandidateFacts, IsoAssumption
<1>4. avail' \subseteq Channel /\ held' \in [User -> SUBSET Channel] /\ ChannelsAgree'
  <2>1. CASE SwapMatches(j) /\ Swap(u, j, c)
      BY <1>1, <1>2, <2>1, SwapTakes, SwapGives
  <2>2. CASE UNCHANGED <<avail, held>>
      BY <1>2, <2>2 DEF ChannelsAgree, IrmTypeOK
  <2>3. QED
      BY <1>1, <2>1, <2>2
<1>5. RetryShape(j, Retry(j, c))
    BY <1>2, <1>3, RetryOK
<1>6. ops' \in 0 .. MaxOps
    BY <1>2, IsoAssumption DEF ChannelFails, IrmTypeOK
<1> HIDE DEF c
<1>7. StepOf(u)
    BY <1>1, <1>5, ChannelRetryOK
<1>8. \A v \in User : UserOK(v)'
    BY <1>1, <1>7, OthersOK
<1>9. IrmTypeOK'
    BY <1>1, <1>2, <1>4, <1>6, <1>7 DEF IrmTypeOK, StepOf
<1>10. QED
    BY <1>1, <1>4, <1>8, <1>9 DEF IrmInv, BandwidthAgrees

\* What the invariant says of a job in manage_bandwidth().
LEMMA BandwidthJob ==
    ASSUME IrmInv, NEW u \in User, InBandwidth(u)
    PROVE  /\ IrmTypeOK /\ ChannelsAgree /\ BandwidthAgrees /\ UserOK(u)
           /\ job[u] \in JobType /\ job[u] # NoJob /\ job[u].generation <= irmgen
           /\ job[u].pc = "bandwidth" /\ job[u].bandwidth > 0
           /\ failed \/ Stale(job[u]) \/ job[u].allocate
                 \/ job[u].units + job[u].bandwidth <= Initial
           /\ failed \/ Has(u, IF job[u].allocate /\ ~Stale(job[u])
                               THEN {job[u].channel} \cap Channel ELSE {},
                               IF Stale(job[u]) \/ job[u].allocate THEN 0
                                                                  ELSE job[u].bandwidth)
<1>1. IrmTypeOK /\ ChannelsAgree /\ BandwidthAgrees /\ UserOK(u)
    BY DEF IrmInv
<1>2. job[u] \in JobType /\ job[u] # NoJob /\ job[u].pc = "bandwidth"
    BY <1>1 DEF InBandwidth, IrmTypeOK
<1>3. QED
    BY <1>1, <1>2 DEF UserOK, JobShape, GiveShape, Mine, MineBw

LEMMA BandwidthExhaustedOK == \A u \in User : IrmInv /\ BandwidthExhausted(u) => IrmInv'
<1> SUFFICES ASSUME NEW u \in User, IrmInv, BandwidthExhausted(u) PROVE IrmInv'
    OBVIOUS
<1> DEFINE j == job[u]
<1>1. /\ InBandwidth(u) /\ ~MayTry(j) /\ BandwidthFailed(u, j, Failure)
      /\ UNCHANGED <<irmgen, avail, bw, held, heldbw, ops, failed>>
      /\ spent' = IF ~j.allocate /\ ~Stale(j) /\ j.retry = 0 THEN spent \cup {u} ELSE spent
    BY DEF BandwidthExhausted, GivesUp
<1>2. /\ IrmTypeOK /\ UserOK(u) /\ j \in JobType
      /\ failed \/ Stale(j) \/ j.allocate \/ j.units + j.bandwidth <= Initial
      /\ failed \/ Has(u, IF j.allocate /\ ~Stale(j) THEN {j.channel} \cap Channel ELSE {},
                          IF Stale(j) \/ j.allocate THEN 0 ELSE j.bandwidth)
    BY <1>1, BandwidthJob
<1>3. failed \/ Stale(j) \/ j.allocate \/ j.retry = 0
    BY <1>1, <1>2, IsoAssumption DEF MayTry, Fits, JobType
<1>4. failed' \/ HasNow(u, IF j.allocate /\ ~Stale(j) THEN {j.channel} \cap Channel ELSE {}, 0)
    BY <1>1, <1>2, <1>3 DEF Has, HasNow, IrmTypeOK
<1>5. StepOf(u)
    BY <1>1, <1>2, <1>4, BandwidthFailedOK
<1>6. QED
    BY <1>1, <1>2, <1>5, QuietStep DEF IrmTypeOK

LEMMA BandwidthStaleOK == \A u \in User : IrmInv /\ BandwidthStale(u) => IrmInv'
<1> SUFFICES ASSUME NEW u \in User, IrmInv, BandwidthStale(u) PROVE IrmInv'
    OBVIOUS
<1> DEFINE j == job[u]
<1>1. /\ InBandwidth(u) /\ Stale(j)
      /\ IF j.allocate THEN BandwidthFailed(u, j, Again)
                       ELSE OperationReturns(u, j, j.channel, j.bandwidth)
      /\ UNCHANGED <<irmgen, avail, bw, held, heldbw, ops, failed, spent>>
    BY DEF BandwidthStale
<1>2. /\ IrmTypeOK /\ UserOK(u) /\ j \in JobType /\ j.generation <= irmgen
      /\ failed \/ Has(u, {}, 0)
    BY <1>1, BandwidthJob
<1>3. j.channel \in Outcome /\ j.bandwidth \in Nat
    BY <1>2 DEF JobType
<1>4. failed' \/ HasNow(u, {}, 0)
    BY <1>1, <1>2 DEF Has, HasNow
<1>5. StepOf(u)
    BY <1>1, <1>2, <1>3, <1>4, BandwidthFailedOK, ReturnsOK
<1>6. QED
    BY <1>1, <1>2, <1>5, QuietStep DEF IrmTypeOK

LEMMA BandwidthLockOK == \A u \in User : IrmInv /\ BandwidthLock(u) => IrmInv'
<1> SUFFICES ASSUME NEW u \in User, IrmInv, BandwidthLock(u) PROVE IrmInv'
    OBVIOUS
<1> DEFINE j == job[u]
<1>1. /\ InBandwidth(u) /\ j.retry > 0 /\ Fits(j) /\ ~Stale(j)
      /\ UNCHANGED <<irmgen, avail, held, ops, failed, spent>>
    BY DEF BandwidthLock, MayTry
<1>2. /\ IrmTypeOK /\ ChannelsAgree /\ BandwidthAgrees /\ UserOK(u)
      /\ j \in JobType /\ j.generation <= irmgen /\ j.pc = "bandwidth" /\ j.bandwidth > 0
      /\ failed \/ Has(u, IF j.allocate THEN {j.channel} \cap Channel ELSE {},
                          IF j.allocate THEN 0 ELSE j.bandwidth)
    BY <1>1, BandwidthJob
<1>3. ChannelsAgree'
    BY <1>1, <1>2 DEF ChannelsAgree
<1>4. CASE j.units = bw
  <2>1. SwapBandwidth(u, j) /\ OperationReturns(u, j, j.channel, j.bandwidth)
      BY <1>4 DEF BandwidthLock
  <2>2. /\ bw' \in 0 .. Initial /\ heldbw' \in [User -> Nat]
        /\ failed \/ (IsFiniteSet(Taken') /\ bw' + Cardinality(Taken') = Initial)
        /\ \A v \in User : v # u => heldbw'[v] = heldbw[v]
        /\ j.allocate => heldbw'[u] = heldbw[u] + j.bandwidth
        /\ ~j.allocate /\ j.bandwidth <= heldbw[u] => heldbw'[u] = heldbw[u] - j.bandwidth
    <3>1. failed \/ j.allocate \/ j.bandwidth <= heldbw[u]
        BY <1>2 DEF Has
    <3>2. QED
        BY <1>1, <1>2, <1>4, <2>1, <3>1, SwapBandwidthOK
  <2>3. j.channel \in Outcome /\ j.bandwidth \in Nat /\ heldbw[u] \in Nat
      BY <1>2 DEF JobType, IrmTypeOK
  <2>4. failed' \/ IF j.allocate THEN HasNow(u, {j.channel} \cap Channel, j.bandwidth)
                                ELSE HasNow(u, {}, 0)
      BY <1>1, <1>2, <2>2, <2>3 DEF Has, HasNow
  <2>5. StepOf(u)
      BY <1>1, <1>2, <2>1, <2>3, <2>4, ReturnsOK
  <2>6. \A v \in User : UserOK(v)'
      BY <1>1, <2>2, <2>5, OthersOK
  <2>7. IrmTypeOK'
      BY <1>1, <1>2, <2>2, <2>5 DEF IrmTypeOK, StepOf
  <2>8. QED
      BY <1>1, <1>3, <2>2, <2>6, <2>7 DEF IrmInv, BandwidthAgrees
<1>5. CASE j.units # bw
  <2> DEFINE k == [j EXCEPT !.units = bw, !.retry = j.retry - 1]
  <2>1. Set(u, k) /\ UNCHANGED <<bw, heldbw, hold>>
      BY <1>5 DEF BandwidthLock
  <2>2. j.retry - 1 \in 0 .. Tries /\ bw \in 0 .. Initial
      BY <1>1, <1>2, IsoAssumption DEF JobType, IrmTypeOK
  <2>3. /\ k \in JobType /\ k.pc = "bandwidth" /\ k.generation = j.generation
        /\ k.allocate = j.allocate /\ k.bandwidth = j.bandwidth /\ k.channel = j.channel
        /\ k.units = bw
      BY <1>2, <2>2 DEF JobType
  <2> HIDE DEF k
  <2>4. failed' \/ HasNow(u, IF k.allocate THEN {k.channel} \cap Channel ELSE {},
                             IF k.allocate THEN 0 ELSE k.bandwidth)
      BY <1>1, <1>2, <2>1, <2>3 DEF Has, HasNow
  <2>5. failed' \/ k.allocate \/ k.units + k.bandwidth <= Initial
      BY <1>1, <1>2, <2>3, BandwidthFits DEF Has, JobType
  <2>6. ~Stale(k)
      BY <1>1, <2>3 DEF Stale
  <2>7. StepOf(u)
      BY <1>1, <1>2, <2>1, <2>3, <2>4, <2>5, <2>6, ContinuesOK
  <2>8. QED
      BY <1>1, <1>2, <2>1, <2>7, QuietStep DEF IrmTypeOK
<1>6. QED
    BY <1>4, <1>5

LEMMA BandwidthFailsOK == \A u \in User : IrmInv /\ BandwidthFails(u) => IrmInv'
<1> SUFFICES ASSUME NEW u \in User, IrmInv, BandwidthFails(u) PROVE IrmInv'
    OBVIOUS
<1> DEFINE j == job[u]
           k == [j EXCEPT !.retry = j.retry - 1]
<1>1. /\ InBandwidth(u) /\ j.retry > 0 /\ Fits(j) /\ ~Stale(j) /\ Set(u, k)
      /\ (j.units = bw /\ SwapBandwidth(u, j)) \/ UNCHANGED <<bw, heldbw>>
      /\ UNCHANGED <<irmgen, avail, held, hold, spent>> /\ failed' = TRUE
    BY DEF BandwidthFails, MayTry
<1>2. /\ IrmTypeOK /\ ChannelsAgree /\ BandwidthAgrees /\ UserOK(u)
      /\ j \in JobType /\ j.generation <= irmgen /\ j.pc = "bandwidth" /\ j.bandwidth > 0
      /\ failed \/ j.allocate \/ j.bandwidth <= heldbw[u]
    BY <1>1, BandwidthJob DEF Has
<1>3. /\ bw' \in 0 .. Initial /\ heldbw' \in [User -> Nat]
      /\ \A v \in User : v # u => heldbw'[v] = heldbw[v]
  <2>1. CASE j.units = bw /\ SwapBandwidth(u, j)
      BY <1>1, <1>2, <2>1, SwapBandwidthOK
  <2>2. CASE UNCHANGED <<bw, heldbw>>
      BY <1>2, <2>2 DEF IrmTypeOK
  <2>3. QED
      BY <1>1, <2>1, <2>2
<1>4. j.retry - 1 \in 0 .. Tries
    BY <1>1, <1>2, IsoAssumption DEF JobType
<1>5. /\ k \in JobType /\ k.pc = "bandwidth" /\ k.generation = j.generation
      /\ k.bandwidth = j.bandwidth
    BY <1>2, <1>4 DEF JobType
<1>6. ops' \in 0 .. MaxOps
    BY <1>2, IsoAssumption DEF BandwidthFails, IrmTypeOK
<1> HIDE DEF k
<1>7. StepOf(u)
    BY <1>1, <1>2, <1>5, ContinuesOK
<1>8. \A v \in User : UserOK(v)'
    BY <1>1, <1>3, <1>7, OthersOK
<1>9. IrmTypeOK'
    BY <1>1, <1>2, <1>3, <1>6, <1>7 DEF IrmTypeOK, StepOf
<1>10. ChannelsAgree'
    BY <1>1, <1>2 DEF ChannelsAgree
<1>11. QED
    BY <1>1, <1>8, <1>9, <1>10 DEF IrmInv, BandwidthAgrees

LEMMA IrmStep == IrmInv /\ [IrmNext]_irmvars => IrmInv'
<1> SUFFICES ASSUME IrmInv, [IrmNext]_irmvars PROVE IrmInv'
    OBVIOUS
<1>1. CASE IrmReset
    BY <1>1, ResetOK
<1>2. CASE \E u \in User : AllocateResource(u) \/ DeallocateResource(u) \/ Manage(u)
    BY <1>2, AllocateOK, DeallocateOK, ChannelExhaustedOK, ChannelStaleOK, ChannelLockOK,
       ChannelFailsOK, BandwidthExhaustedOK, BandwidthStaleOK, BandwidthLockOK,
       BandwidthFailsOK DEF Manage
<1>3. CASE UNCHANGED irmvars
    BY <1>3 DEF irmvars, IrmInv, IrmTypeOK, ChannelsAgree, BandwidthAgrees, Taken, UserOK,
                JobShape, GiveShape, Has, Mine, MineBw, Told, Stale
<1>4. QED
    BY <1>1, <1>2, <1>3 DEF IrmNext

-----------------------------------------------------------------------------
LEMMA IrmInvMeans == IrmInv => ResourcesExact
<1> SUFFICES ASSUME IrmInv PROVE ResourcesExact
    OBVIOUS
<1>1. avail = Channel \ UNION {held[u] : u \in User}
    BY DEF IrmInv, ChannelsAgree, IrmTypeOK
<1>2. RegistersAgree
    BY <1>1 DEF IrmInv, RegistersAgree, ChannelsAgree, BandwidthAgrees
<1>3. ~failed => BothOrNeither
    BY DEF IrmInv, BothOrNeither, UserOK, Has, Mine, MineBw
<1>4. QED
    BY <1>2, <1>3 DEF ResourcesExact, NothingLeaks

\* Whoever runs fw_iso_resource_manage() at the same time, and whatever bus resets come
\* in between: a channel has one owner, the registers of the IRM tell what is left, and
\* an operation whose transactions were answered does all or nothing, unless its tries
\* to give something back were used up.
THEOREM ResourcesCorrect == IrmSpec => []ResourcesExact
BY IrmInitInv, IrmStep, IrmInvMeans, PTL DEF IrmSpec

-----------------------------------------------------------------------------
(* The refinement of IsoLedger: a transaction that swaps a register is a   *)
(* step of the ledger, a bus reset is BusReset, and everything else leaves *)
(* the ledger alone.                                                       *)

LedgerStep == [Ledger!Next]_(Ledger!ledger)

\* The instance has the operator of FiniteSets under a name of its own.
LEMMA LedgerCardinality == \A S : Ledger!Cardinality(S) = Cardinality(S)
BY DEF Cardinality, Ledger!Cardinality, IsFiniteSet, Ledger!IsFiniteSet

LEMMA LedgerStutters == UNCHANGED <<held, heldbw, failed>> => LedgerStep
BY DEF LedgerStep, Ledger!ledger

LEMMA SwapLedger ==
    ASSUME IrmInv, NEW u \in User, InChannel(u), Candidates(job[u]) # {}, ~Stale(job[u]),
           SwapMatches(job[u]), Swap(u, job[u], Min(Candidates(job[u]))),
           UNCHANGED heldbw, failed' \in {failed, TRUE}
    PROVE  LedgerStep
<1> DEFINE j == job[u]
           c == Min(Candidates(j))
<1>1. /\ IrmTypeOK /\ ChannelsAgree /\ JobShape(u) /\ j \in JobType /\ j # NoJob
      /\ j.pc # "bandwidth"
      /\ failed \/ Has(u, IF Taking(j) THEN {} ELSE j.mask,
                          IF j.allocate THEN 0 ELSE j.bandwidth)
    BY ChannelJob DEF InChannel
<1>2. c \in Channel /\ c \in j.mask
    BY <1>1, CandidateFacts
<1>3. CASE Taking(j)
  <2>1. /\ \A v \in User : c \notin held[v]
        /\ held' = [held EXCEPT ![u] = held[u] \cup {c}]
      BY <1>1, <1>3, SwapTakes
  <2> HIDE DEF c
  <2>2. Ledger!TakeChannel(u, c)
      BY <2>1 DEF Ledger!TakeChannel, Ledger!Lose
  <2>3. QED
      BY <1>2, <2>2 DEF LedgerStep, Ledger!Next
<1>4. CASE ~Taking(j) /\ c \in held[u]
  <2>1. /\ held' = [v \in User |-> held[v] \ {c}]
        /\ \A v \in User : v # u => held'[v] = held[v]
      BY <1>1, <1>4, SwapGives
  <2> HIDE DEF c
  <2>2. held' = [held EXCEPT ![u] = held[u] \ {c}]
      BY <1>1, <2>1 DEF IrmTypeOK
  <2>3. Ledger!GiveChannel(u, c)
      BY <1>4, <2>2 DEF Ledger!GiveChannel, Ledger!Lose
  <2>4. QED
      BY <1>2, <2>3 DEF LedgerStep, Ledger!Next
\* Only after an answer was lost, a channel is given back that was given back before.
<1>5. CASE ~Taking(j) /\ c \notin held[u]
  <2>1. failed /\ UNCHANGED failed
      BY <1>1, <1>2, <1>5 DEF Has, IrmTypeOK
  <2>2. held' = [v \in User |-> held[v] \ {c}]
      BY <1>1, <1>5, SwapGives
  <2> HIDE DEF c
  <2>3. Ledger!GiveForeignChannel(c)
      BY <2>1, <2>2 DEF Ledger!GiveForeignChannel
  <2>4. QED
      BY <1>2, <2>3 DEF LedgerStep, Ledger!Next
<1>6. QED
    BY <1>3, <1>4, <1>5

LEMMA SwapBandwidthLedger ==
    ASSUME IrmInv, NEW u \in User, InBandwidth(u), ~Stale(job[u]), Fits(job[u]),
           job[u].units = bw, SwapBandwidth(u, job[u]), UNCHANGED held,
           failed' \in {failed, TRUE}
    PROVE  LedgerStep
<1> DEFINE j == job[u]
           n == j.bandwidth
<1>1. /\ IrmTypeOK /\ BandwidthAgrees /\ j \in JobType /\ n > 0
      /\ failed \/ j.allocate \/ n <= heldbw[u]
    BY BandwidthJob DEF Has
<1>2. /\ n \in Nat /\ bw \in 0 .. Initial /\ Initial \in Nat /\ n \in 1 .. Initial
      /\ heldbw \in [User -> Nat] /\ (j.allocate => n <= bw)
    BY <1>1, IsoAssumption DEF JobType, IrmTypeOK, Fits
<1>3. CASE j.allocate
  <2>1. heldbw' = [heldbw EXCEPT ![u] = heldbw[u] + n]
      BY <1>2, <1>3 DEF SwapBandwidth
  <2>2. failed \/ Cardinality(Ledger!Given) + n <= Initial
    <3>1. Ledger!Given = Taken
        BY DEF Ledger!Given, Taken
    <3>2. failed \/ (Cardinality(Taken) \in Nat /\ bw + Cardinality(Taken) = Initial)
        BY <1>1, FS_CardinalityType DEF BandwidthAgrees
    <3>3. QED
        BY <1>2, <1>3, <3>1, <3>2
  <2> HIDE DEF n
  <2>3. Ledger!Lose
      BY DEF Ledger!Lose
  <2>4. Ledger!TakeBandwidth(u, n)
      BY <2>1, <2>2, <2>3, LedgerCardinality DEF Ledger!TakeBandwidth
  <2>5. QED
      BY <1>2, <2>4 DEF LedgerStep, Ledger!Next
<1>4. CASE ~j.allocate /\ n <= heldbw[u]
  <2>1. heldbw' = [heldbw EXCEPT ![u] = heldbw[u] - n]
      BY <1>2, <1>4 DEF SwapBandwidth
  <2> HIDE DEF n
  <2>2. Ledger!GiveBandwidth(u, n)
      BY <1>4, <2>1 DEF Ledger!GiveBandwidth, Ledger!Lose
  <2>3. QED
      BY <1>2, <2>2 DEF LedgerStep, Ledger!Next
\* Only after an answer was lost, bandwidth is given back that was given back before.
<1>5. CASE ~j.allocate /\ ~(n <= heldbw[u])
  <2> DEFINE m == heldbw[u]
  <2>1. failed /\ UNCHANGED failed /\ m \in Nat /\ m <= Initial /\ m - m = 0
    <3>1. failed /\ m \in Nat /\ m <= Initial /\ m - m = 0
        BY <1>1, <1>2, <1>5
    <3>2. failed = TRUE
        BY <1>1, <3>1 DEF IrmTypeOK
    <3>3. QED
        BY <3>1, <3>2
  <2>2. heldbw' = [heldbw EXCEPT ![u] = 0]
      BY <1>2, <1>5 DEF SwapBandwidth
  <2>3. CASE m = 0
    <3>1. UNCHANGED heldbw
        BY <1>2, <2>2, <2>3
    <3>2. QED
        BY <2>1, <3>1, LedgerStutters
  <2>4. CASE m # 0
    <3>0. m \in 1 .. Initial
        BY <1>2, <2>1, <2>4
    <3>1. heldbw' = [heldbw EXCEPT ![u] = heldbw[u] - m]
        BY <2>1, <2>2
    <3>2. m <= heldbw[u]
        BY <2>1
    <3> HIDE DEF m
    <3>3. Ledger!GiveBandwidth(u, m)
        BY <2>1, <3>1, <3>2 DEF Ledger!GiveBandwidth, Ledger!Lose
    <3>4. QED
        BY <3>0, <3>3 DEF LedgerStep, Ledger!Next
  <2>5. QED
      BY <2>3, <2>4
<1>6. QED
    BY <1>3, <1>4, <1>5

\* A transaction that fails without effect.
LEMMA LoseLedger == UNCHANGED <<held, heldbw>> /\ failed' = TRUE => LedgerStep
BY DEF LedgerStep, Ledger!Next, Ledger!LoseAnswer

LEMMA StepImplementsLedger == IrmInv /\ [IrmNext]_irmvars => LedgerStep
<1> SUFFICES ASSUME IrmInv, [IrmNext]_irmvars PROVE LedgerStep
    OBVIOUS
<1>1. CASE IrmReset
    BY <1>1 DEF IrmReset, LedgerStep, Ledger!Next, Ledger!BusReset, Ledger!Init
<1>2. ASSUME NEW u \in User, AllocateResource(u) \/ DeallocateResource(u) PROVE LedgerStep
    BY <1>2, LedgerStutters DEF AllocateResource, DeallocateResource
<1>3. ASSUME NEW u \in User,
             \/ ChannelExhausted(u) \/ ChannelStale(u)
             \/ BandwidthExhausted(u) \/ BandwidthStale(u)
      PROVE  LedgerStep
    BY <1>3, LedgerStutters
       DEF ChannelExhausted, ChannelStale, BandwidthExhausted, BandwidthStale
<1>4. ASSUME NEW u \in User, ChannelLock(u) PROVE LedgerStep
  <2>1. CASE SwapMatches(job[u])
      BY <1>4, <2>1, SwapLedger DEF ChannelLock
  <2>2. CASE ~SwapMatches(job[u])
      BY <1>4, <2>2, LedgerStutters DEF ChannelLock
  <2>3. QED
      BY <2>1, <2>2
<1>5. ASSUME NEW u \in User, ChannelFails(u) PROVE LedgerStep
  <2>1. CASE UNCHANGED <<avail, held>>
      BY <1>5, <2>1, LoseLedger DEF ChannelFails
  <2>2. CASE SwapMatches(job[u]) /\ Swap(u, job[u], Min(Candidates(job[u])))
      BY <1>5, <2>2, SwapLedger DEF ChannelFails
  <2>3. QED
      BY <1>5, <2>1, <2>2 DEF ChannelFails
<1>6. ASSUME NEW u \in User, BandwidthLock(u) PROVE LedgerStep
  <2>1. CASE job[u].units = bw
      BY <1>6, <2>1, SwapBandwidthLedger DEF BandwidthLock, MayTry
  <2>2. CASE job[u].units # bw
      BY <1>6, <2>2, LedgerStutters DEF BandwidthLock
  <2>3. QED
      BY <2>1, <2>2
<1>7. ASSUME NEW u \in User, BandwidthFails(u) PROVE LedgerStep
  <2>1. CASE UNCHANGED <<bw, heldbw>>
      BY <1>7, <2>1, LoseLedger DEF BandwidthFails
  <2>2. CASE job[u].units = bw /\ SwapBandwidth(u, job[u])
      BY <1>7, <2>2, SwapBandwidthLedger DEF BandwidthFails, MayTry
  <2>3. QED
      BY <1>7, <2>1, <2>2 DEF BandwidthFails
<1>8. CASE UNCHANGED irmvars
    BY <1>8, LedgerStutters DEF irmvars
<1>9. QED
    BY <1>1, <1>2, <1>3, <1>4, <1>5, <1>6, <1>7, <1>8 DEF IrmNext, Manage

\* The compare-swap loops of all users together implement the ledger: seen from the
\* IRM, users take what is free and give back what is theirs, as long as every
\* transaction is answered.
THEOREM LoopsImplementLedger == IrmSpec => ImplementsLedger
<1>1. IrmInit => Ledger!Init
    BY DEF IrmInit, Ledger!Init
<1>2. QED
    BY <1>1, IrmInitInv, IrmStep, StepImplementsLedger, PTL
       DEF IrmSpec, ImplementsLedger, Ledger!Spec, LedgerStep
=============================================================================
