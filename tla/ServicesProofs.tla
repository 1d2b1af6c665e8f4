---------------------------- MODULE ServicesProofs -----------------------------
(*************************************************************************)
(* Four services around the chain. MinerRounds: whatever a graphics      *)
(* batch covers, whichever lane is first, no lane leaves a golden nonce  *)
(* behind and a round ends empty only if nothing was sent in time.       *)
(* MiningJobs: however requests interleave, a job that was handed out is *)
(* answered for until it expires, is settled, or is pushed out by        *)
(* younger ones, and no two jobs on one parent are accepted. Outbox:     *)
(* whoever writes the file of pending payments has a reason for every    *)
(* record he forgets. PeerSessions: the books of the connections are     *)
(* kept for every number of sockets and every cap. Each is proved from   *)
(* an inductive invariant; filters and batches are folds, reasoned about *)
(* with FoldFacts.                                                       *)
(*************************************************************************)
EXTENDS Outbox, MiningJobs, MinerRounds, Difficulty, PeerSessions, FiniteSetTheorems, SequenceTheorems, TLAPS

-----------------------------------------------------------------------------
(* MinerRounds *)

Position == [at : {"gone", "looks", "scans", "sends"}, extra : Nat, nonce : Nat]
Found == [extra : Nat, nonce : Nat, heard : BOOLEAN]
Controlled == [at : {"prepares", "listens", "checks", "joins", "submits", "left"},
               chosen : SUBSET Found]

(* A lane at work is at a nonce of its own, and every golden nonce of    *)
(* the lane is still ahead of it.                                        *)
NotPassed(w) ==
  worker[w].at \in {"looks", "scans"} =>
    /\ worker[w].extra \in Extras(w) /\ worker[w].nonce \in 0..LastNonce
    /\ \A g \in golden : g[1] \in Extras(w) =>
         \/ g[1] > worker[w].extra
         \/ g[1] = worker[w].extra /\ g[2] >= worker[w].nonce

(* The invariant of a round: types, nothing golden passed, and no        *)
(* message that was sent to a listening controller is left when it has   *)
(* looked at the channel for the last time without one.                  *)
RoundsInv ==
  /\ worker \in [Lanes -> Position]
  /\ golden \subseteq Nat \X (0..LastNonce)
  /\ \A w \in Lanes : NotPassed(w)
  /\ channel \in Seq(Found)
  /\ controller \in Controlled
  /\ controller.at = "checks" \/ (controller.at = "joins" /\ controller.chosen = {}) =>
       \A i \in 1..Len(channel) : ~channel[i].heard

(* A lane has extra nonces of its own, the first among them              *)
(* (mine_worker: thread t takes t, t + CpuThreads, ...; a graphics lane  *)
(* counts up from its own base).                                         *)
LEMMA LaneFacts ==
  ASSUME NEW w \in Lanes
  PROVE  /\ FirstExtra(w) \in Nat
         /\ Extras(w) \subseteq Nat
         /\ FirstExtra(w) \in Extras(w)
         /\ \A e \in Nat : NextExtra(w, e) \in Nat
<1>0. CpuThreads \in Nat \ {0} /\ ExtraBound \in Nat /\ GpuLane \in [Gpus -> Nat]
  BY RoundsAssumption
<1>1. CASE w[1] = "cpu" /\ w[2] \in Cpus
  <2>1. w[2] \in Nat
    BY <1>0, <1>1 DEF Cpus
  <2>2. w[2] - w[2] = 0 /\ 0 % CpuThreads = 0
    BY <1>0, <2>1
  <2> QED
    BY <1>0, <1>1, <2>1, <2>2 DEF FirstExtra, Extras, NextExtra
<1>2. CASE w[1] = "gpu" /\ w[2] \in Gpus
  BY <1>0, <1>2 DEF FirstExtra, Extras, NextExtra
<1> QED
  BY <1>1, <1>2 DEF Lanes

(* Multiplication is monotonic.                                          *)
LEMMA Multiples ==
  ASSUME NEW a \in Nat, NEW b \in Nat, a <= b, NEW k \in Nat
  PROVE  a * k <= b * k
<1>1. b - a \in Nat /\ b = a + (b - a)
  OBVIOUS
<1>2. b * k = a * k + (b - a) * k
  BY <1>1
<1>3. (b - a) * k \in Nat
  BY <1>1
<1>4. a * k \in Nat /\ b * k \in Nat
  OBVIOUS
<1> QED
  BY <1>2, <1>3, <1>4

(* The next extra nonce of a lane really is the next one of its own.     *)
LEMMA NoExtraBetween ==
  ASSUME NEW w \in Lanes, NEW e \in Extras(w), NEW f \in Extras(w), f > e
  PROVE  f >= NextExtra(w, e)
<1>0. CpuThreads \in Nat \ {0} /\ e \in Nat /\ f \in Nat
  BY RoundsAssumption, LaneFacts
<1>1. CASE w[1] = "gpu"
  BY <1>0, <1>1 DEF NextExtra
<1>2. CASE w[1] = "cpu" /\ w[2] \in Cpus
  <2> DEFINE C == CpuThreads  a == e - w[2]  b == f - w[2]
  <2>1. w[2] \in Nat /\ a \in Nat /\ b \in Nat /\ a % C = 0 /\ b % C = 0 /\ b > a
    BY <1>0, <1>2 DEF Extras, Cpus, FirstExtra
  <2>2. \A x \in Nat : x % C = 0 => \E q \in Nat : x = q * C
    BY <1>0
  <2>3. PICK p \in Nat : a = p * C
    BY <2>1, <2>2
  <2>4. PICK q \in Nat : b = q * C
    BY <2>1, <2>2
  <2>5. b >= a + C
    <3>1. p < q
      <4> SUFFICES ASSUME q <= p PROVE FALSE
        OBVIOUS
      <4>1. q * C <= p * C
        BY <1>0, Multiples
      <4> QED
        BY <2>1, <2>3, <2>4, <4>1
    <3>2. (p + 1) * C <= q * C
      BY <1>0, <3>1, Multiples
    <3>3. (p + 1) * C = p * C + C
      BY <1>0
    <3> HIDE DEF C
    <3> QED
      BY <2>3, <2>4, <3>2, <3>3
  <2> QED
    BY <1>0, <1>2, <2>1, <2>5 DEF NextExtra
<1> QED
  BY <1>1, <1>2 DEF Lanes

(* What one request to a device covers is a number of nonces.            *)
LEMMA HashesAreNat ==
  ASSUME NEW w \in Lanes, NEW start \in 0..LastNonce, NEW size \in Requests(w, start)
  PROVE  Hashes(w, size) \in Nat
<1>0. LastNonce \in Nat /\ WorkGroup \in Nat \ {0} /\ Batches \subseteq Nat \ {0}
  BY RoundsAssumption
<1>1. size \in Nat
  BY <1>0 DEF Requests
<1>2. size \div WorkGroup \in Nat
  BY <1>0, <1>1
<1>3. (size \div WorkGroup) * WorkGroup \in Nat
  BY <1>0, <1>2
<1> QED
  BY <1>1, <1>3 DEF Hashes, Scanned, AlignWorkItems

(* A program that has started no round has passed nothing.               *)
LEMMA RoundsStart == RoundsInit => RoundsInv
<1> SUFFICES ASSUME RoundsInit PROVE RoundsInv
  OBVIOUS
<1>1. worker \in [Lanes -> Position] /\ \A w \in Lanes : worker[w].at = "gone"
  BY DEF RoundsInit, Gone, Position
<1>2. channel \in Seq(Found) /\ golden \subseteq Nat \X (0..LastNonce)
  BY DEF RoundsInit
<1>3. controller \in Controlled
  BY DEF RoundsInit, Away, Controlled
<1>4. controller.at = "prepares"
  BY DEF RoundsInit, Away
<1>5. \A w \in Lanes : NotPassed(w)
  BY <1>1 DEF NotPassed
<1> QED
  BY <1>1, <1>2, <1>3, <1>4, <1>5 DEF RoundsInv

(* A step of one lane: the others have passed nothing new, and a message *)
(* it sends is marked as heard only while the controller listens.        *)
LEMMA WorkerMoves ==
  ASSUME RoundsInv, NEW w \in Lanes, NEW k \in Position, worker' = [worker EXCEPT ![w] = k],
         golden' = golden, controller' = controller,
         channel' \in Seq(Found),
         \A i \in 1..Len(channel') : channel'[i].heard =>
            controller.at = "listens" \/ \E j \in 1..Len(channel) : channel[j].heard,
         k.at \in {"looks", "scans"} =>
           /\ k.extra \in Extras(w) /\ k.nonce \in 0..LastNonce
           /\ \A g \in golden : g[1] \in Extras(w) =>
                g[1] > k.extra \/ (g[1] = k.extra /\ g[2] >= k.nonce)
  PROVE  RoundsInv'
<1>1. worker' \in [Lanes -> Position]
  BY DEF RoundsInv
<1>2. ASSUME NEW v \in Lanes PROVE NotPassed(v)'
  <2>1. CASE v = w
    <3>1. worker'[v] = k
      BY <2>1 DEF RoundsInv
    <3> QED
      BY <2>1, <3>1 DEF NotPassed, Extras
  <2>2. CASE v # w
    <3>1. worker'[v] = worker[v]
      BY <2>2 DEF RoundsInv
    <3>2. NotPassed(v)
      BY DEF RoundsInv
    <3> QED
      BY <3>1, <3>2 DEF NotPassed, Extras
  <2> QED
    BY <2>1, <2>2
<1>3. controller.at = "checks" \/ (controller.at = "joins" /\ controller.chosen = {}) =>
        \A i \in 1..Len(channel') : ~channel'[i].heard
  BY DEF RoundsInv
<1> QED
  BY <1>1, <1>2, <1>3 DEF RoundsInv

(* Between two batches a lane looks at the two stop flags, or a device   *)
(* gives up; neither moves its nonce.                                    *)
LEMMA LooksKeeps ==
  ASSUME RoundsInv, NEW w \in Lanes, Looks(w) \/ GivesUp(w)
  PROVE  RoundsInv'
<1> DEFINE at == IF GivesUp(w) \/ stop \/ roundStop THEN "gone" ELSE "scans"
           k == [worker[w] EXCEPT !.at = at]
<1>1. worker[w] \in Position /\ worker[w].at \in {"looks", "scans"} /\ NotPassed(w)
  BY DEF RoundsInv, Looks, GivesUp
<1>2. at \in {"gone", "scans"} /\ worker' = [worker EXCEPT ![w] = k]
  <2>1. at \in {"gone", "scans"}
    OBVIOUS
  <2>2. worker' = [worker EXCEPT ![w].at = at]
    <3>1. CASE GivesUp(w)
      BY <3>1 DEF GivesUp
    <3>2. CASE Looks(w)
      <4>1. worker[w].at = "looks" /\ ~GivesUp(w)
        BY <3>2 DEF Looks, GivesUp
      <4> QED
        BY <3>2, <4>1 DEF Looks
    <3> QED
      BY <3>1, <3>2
  <2> HIDE DEF at
  <2> QED
    BY <2>1, <2>2 DEF RoundsInv
<1>3. k \in Position /\ k.extra = worker[w].extra /\ k.nonce = worker[w].nonce
  <2> HIDE DEF at
  <2> QED
    BY <1>1, <1>2 DEF Position
<1>4. channel' = channel /\ golden' = golden /\ controller' = controller
  BY DEF Looks, GivesUp
<1> HIDE DEF k
<1>5. k.extra \in Extras(w) /\ k.nonce \in 0..LastNonce
           /\ \A g \in golden : g[1] \in Extras(w) =>
                g[1] > k.extra \/ (g[1] = k.extra /\ g[2] >= k.nonce)
  BY <1>1, <1>3 DEF NotPassed
<1>6. /\ channel' \in Seq(Found)
      /\ \A i \in 1..Len(channel') : channel'[i].heard =>
            controller.at = "listens" \/ \E j \in 1..Len(channel) : channel[j].heard
  BY <1>4 DEF RoundsInv
<1> QED
  BY <1>2, <1>3, <1>4, <1>5, <1>6, WorkerMoves

(* A batch without a hit (gpu_mine_worker, mine_worker): what it covered *)
(* held no golden nonce, so the lane may advance past it, over the end   *)
(* of an extra nonce too.                                                *)
LEMMA ScansOnKeeps ==
  ASSUME RoundsInv, NEW w \in Lanes, ScansOn(w)
  PROVE  RoundsInv'
<1>1. PICK size \in Requests(w, worker[w].nonce) :
        /\ Hits(w, size) = {}
        /\ worker' = [worker EXCEPT ![w] = Advanced(w, worker[w], Hashes(w, size))]
  BY DEF ScansOn
<1> DEFINE hashes == Hashes(w, size)
           e == worker[w].extra
           n == worker[w].nonce
           k == Advanced(w, worker[w], hashes)
<1>2. worker[w] \in Position /\ worker[w].at = "scans" /\ NotPassed(w)
  BY DEF RoundsInv, ScansOn
<1>3. /\ e \in Extras(w) /\ n \in 0..LastNonce /\ e \in Nat
      /\ \A g \in golden : g[1] \in Extras(w) => g[1] > e \/ (g[1] = e /\ g[2] >= n)
  BY <1>2 DEF NotPassed, Position
<1>4. hashes \in Nat /\ LastNonce \in Nat /\ n \in Nat
  BY <1>1, <1>3, HashesAreNat, RoundsAssumption
<1>5. \A g \in golden : g[1] \in Extras(w) => g[1] > e \/ (g[1] = e /\ g[2] >= n + hashes)
  <2> SUFFICES ASSUME NEW g \in golden, g[1] \in Extras(w), g[1] = e, g[2] < n + hashes
               PROVE  FALSE
    <3>1. \A g \in golden : g[1] \in Nat /\ g[2] \in Nat
      BY <1>4 DEF RoundsInv
    <3> HIDE DEF hashes, n
    <3> QED
      BY <1>3, <1>4, <3>1
  <2>1. g[2] \in 0..LastNonce /\ g[2] >= n /\ g[2] \in n..(n + hashes - 1)
    BY <1>3, <1>4 DEF RoundsInv
  <2>2. <<e, g[2]>> \notin golden
    BY <1>1, <2>1 DEF Hits, Hashes
  <2>3. g = <<g[1], g[2]>>
    BY DEF RoundsInv
  <2> QED
    BY <2>2, <2>3
<1>6. channel' = channel /\ golden' = golden /\ controller' = controller
  BY DEF ScansOn
<1>7. /\ k \in Position
      /\ k.at \in {"looks", "scans"} =>
           /\ k.extra \in Extras(w) /\ k.nonce \in 0..LastNonce
           /\ \A g \in golden : g[1] \in Extras(w) =>
                g[1] > k.extra \/ (g[1] = k.extra /\ g[2] >= k.nonce)
  <2>1. CASE n + hashes <= LastNonce
    <3>1. k = [worker[w] EXCEPT !.at = "looks", !.nonce = n + hashes]
      BY <2>1 DEF Advanced
    <3>2. k \in Position /\ k.extra = e /\ k.nonce = n + hashes
      <4> DEFINE m == n + hashes
      <4>1. m \in Nat /\ k = [worker[w] EXCEPT !.at = "looks", !.nonce = m]
        BY <1>4, <3>1
      <4> HIDE DEF m, k
      <4> QED
        BY <1>2, <4>1 DEF Position, m
    <3> HIDE DEF k, hashes
    <3> QED
      BY <1>3, <1>4, <1>5, <2>1, <3>2
  <2>2. CASE n + hashes > LastNonce
    <3> DEFINE next == NextExtra(w, e)
    <3>1. k = [at |-> IF next \in Extras(w) THEN "looks" ELSE "gone", extra |-> next, nonce |-> 0]
      BY <1>4, <2>2 DEF Advanced
    <3>2. next \in Nat
      BY <1>3, LaneFacts
    <3>3. \A g \in golden : g[1] \in Extras(w) => g[1] >= next /\ g[2] >= 0
      <4> SUFFICES ASSUME NEW g \in golden, g[1] \in Extras(w) PROVE g[1] >= next /\ g[2] >= 0
        OBVIOUS
      <4>1. g[2] \in 0..LastNonce
        BY DEF RoundsInv
      <4>2. g[1] > e
        BY <1>4, <1>5, <2>2, <4>1
      <4> QED
        BY <1>3, <4>1, <4>2, NoExtraBetween
    <3>4. \A g \in golden : g[1] \in Nat
      BY DEF RoundsInv
    <3>5. k \in Position /\ k.extra = next /\ k.nonce = 0 /\ (k.at = "looks" => next \in Extras(w))
          /\ k.at \in {"looks", "gone"}
      BY <3>1, <3>2 DEF Position
    <3> HIDE DEF k, next
    <3> QED
      BY <1>4, <3>2, <3>3, <3>4, <3>5
  <2> QED
    BY <1>4, <2>1, <2>2
<1>8. /\ channel' \in Seq(Found)
      /\ \A i \in 1..Len(channel') : channel'[i].heard =>
            controller.at = "listens" \/ \E j \in 1..Len(channel) : channel[j].heard
  BY <1>6 DEF RoundsInv
<1> HIDE DEF k
<1> QED
  BY <1>1, <1>6, <1>7, <1>8, WorkerMoves DEF k

(* A batch with a hit: the lane will send what it found.                 *)
LEMMA FindsKeeps ==
  ASSUME RoundsInv, NEW w \in Lanes, Finds(w)
  PROVE  RoundsInv'
<1>1. PICK size \in Requests(w, worker[w].nonce) : \E n \in Hits(w, size) :
        worker' = [worker EXCEPT ![w] = [at |-> "sends", extra |-> worker[w].extra, nonce |-> n]]
  BY DEF Finds
<1>2. PICK n \in Hits(w, size) :
        worker' = [worker EXCEPT ![w] = [at |-> "sends", extra |-> worker[w].extra, nonce |-> n]]
  BY <1>1
<1> DEFINE k == [at |-> "sends", extra |-> worker[w].extra, nonce |-> n]
<1>3. n \in Nat /\ worker[w].extra \in Nat
  <2>1. <<worker[w].extra, n>> \in golden
    BY DEF Hits
  <2> QED
    BY <2>1, RoundsAssumption DEF RoundsInv
<1>4. k \in Position /\ k.at = "sends"
  BY <1>3 DEF Position
<1>5. channel' = channel /\ golden' = golden /\ controller' = controller
  BY DEF Finds
<1>6. /\ channel' \in Seq(Found)
      /\ \A i \in 1..Len(channel') : channel'[i].heard =>
            controller.at = "listens" \/ \E j \in 1..Len(channel) : channel[j].heard
  BY <1>5 DEF RoundsInv
<1>7. worker' = [worker EXCEPT ![w] = k]
  BY <1>2
<1> HIDE DEF k
<1> QED
  BY <1>4, <1>5, <1>6, <1>7, WorkerMoves

(* A lane sends what it found and ends; it is heard if the controller    *)
(* still listens.                                                        *)
LEMMA SendsKeeps ==
  ASSUME RoundsInv, NEW w \in Lanes, Sends(w)
  PROVE  RoundsInv'
<1> DEFINE k == [worker[w] EXCEPT !.at = "gone"]
           f == [extra |-> worker[w].extra, nonce |-> worker[w].nonce,
                 heard |-> controller.at = "listens"]
<1>1. k \in Position /\ k.at = "gone" /\ worker' = [worker EXCEPT ![w] = k]
  BY DEF Sends, RoundsInv, Position
<1>2. f \in Found /\ (f.heard => controller.at = "listens")
  BY DEF RoundsInv, Position, Found
<1>3. channel' = Append(channel, f) /\ golden' = golden /\ controller' = controller
  BY DEF Sends
<1> HIDE DEF f, k
<1>4. channel \in Seq(Found)
  BY DEF RoundsInv
<1>5. channel' \in Seq(Found) /\ Len(channel') = Len(channel) + 1
      /\ channel'[Len(channel) + 1] = f /\ \A i \in 1..Len(channel) : channel'[i] = channel[i]
  BY <1>2, <1>3, <1>4
<1>6. \A i \in 1..Len(channel') : channel'[i].heard =>
            controller.at = "listens" \/ \E j \in 1..Len(channel) : channel[j].heard
  <2> TAKE i \in 1..Len(channel')
  <2>1. i = Len(channel) + 1 \/ i \in 1..Len(channel)
    BY <1>4, <1>5
  <2> QED
    BY <1>2, <1>5, <2>1
<1> QED
  BY <1>1, <1>3, <1>5, <1>6, WorkerMoves

(* A new round: every lane begins at its first extra nonce with nonce 0, *)
(* and the golden nonces are anywhere in the lanes.                      *)
LEMMA RoundStarts ==
  ASSUME RoundsInv, StartRounds
  PROVE  RoundsInv'
<1>1. PICK some \in SUBSET Gpus :
          worker' = [w \in Lanes |->
              [at |-> IF w[1] = "cpu" \/ w[2] \in some THEN "looks" ELSE "gone",
               extra |-> FirstExtra(w), nonce |-> 0]]
  BY DEF StartRounds
<1>2. PICK a \in UNION {Extras(w) \X (0..LastNonce) : w \in Lanes},
           b \in UNION {Extras(w) \X (0..LastNonce) : w \in Lanes} : golden' = {a, b}
  BY DEF StartRounds
<1>3. golden' \subseteq Nat \X (0..LastNonce)
  BY <1>2, LaneFacts
<1>4. worker' \in [Lanes -> Position]
  <2>1. \A w \in Lanes : FirstExtra(w) \in Nat
    BY LaneFacts
  <2> QED
    BY <1>1, <2>1 DEF Position
<1>5. ASSUME NEW w \in Lanes PROVE NotPassed(w)'
  <2>1. worker'[w].extra = FirstExtra(w) /\ worker'[w].nonce = 0
    BY <1>1
  <2>2. FirstExtra(w) \in Extras(w) /\ FirstExtra(w) \in Nat /\ LastNonce \in Nat
    BY LaneFacts, RoundsAssumption
  <2>3. \A e \in Extras(w) : e \in Nat /\ e >= FirstExtra(w)
    BY LaneFacts, <2>2, RoundsAssumption DEF Extras
  <2>4. \A g \in golden' : g[1] \in Nat /\ g[2] \in Nat
    BY <1>3, <2>2
  <2> QED
    BY <2>1, <2>2, <2>3, <2>4 DEF NotPassed, Extras, FirstExtra
<1>6. controller' = [Away EXCEPT !.at = "listens"] /\ channel' = <<>>
  BY DEF StartRounds
<1>7. /\ controller' \in Controlled /\ controller'.at = "listens"
      /\ channel' \in Seq(Found)
  BY <1>6 DEF Away, Controlled
<1> QED
  BY <1>3, <1>4, <1>5, <1>7 DEF RoundsInv

(* Steps of the controller leave the workers where they are.             *)
LEMMA ControllerMoves ==
  ASSUME RoundsInv, UNCHANGED <<worker, golden>>,
         channel' \in Seq(Found), controller' \in Controlled,
         controller'.at = "checks" \/ (controller'.at = "joins" /\ controller'.chosen = {}) =>
           \A i \in 1..Len(channel') : ~channel'[i].heard
  PROVE  RoundsInv'
<1>1. \A w \in Lanes : NotPassed(w)'
  BY DEF RoundsInv, NotPassed, Extras
<1> QED
  BY <1>1 DEF RoundsInv

(* The controller receives, or stops listening: an empty channel then    *)
(* holds nothing that was heard.                                         *)
LEMMA ListensKeeps ==
  ASSUME RoundsInv, Listens
  PROVE  RoundsInv'
<1>1. worker' = worker /\ golden' = golden /\ channel \in Seq(Found) /\ controller.at = "listens"
      /\ controller \in Controlled
  BY DEF Listens, RoundsInv
<1>2. CASE channel # <<>> /\ channel' = Tail(channel) /\ Ends({Head(channel)})
  <2>1. channel' \in Seq(Found) /\ Head(channel) \in Found
    BY <1>1, <1>2
  <2>2. controller' = [at |-> "joins", chosen |-> {Head(channel)}]
    BY <1>2 DEF Ends
  <2>3. controller' \in Controlled /\ controller'.at = "joins" /\ controller'.chosen # {}
    BY <2>1, <2>2 DEF Controlled
  <2> QED
    BY <1>1, <2>1, <2>3, ControllerMoves
<1>3. CASE channel = <<>> /\ channel' = channel
           /\ (Ends({}) \/ controller' = [controller EXCEPT !.at = "checks"])
  <2>1. \A i \in 1..Len(channel') : ~channel'[i].heard
    BY <1>3
  <2>2. controller' \in Controlled
    BY <1>1, <1>3 DEF Ends, Controlled
  <2> QED
    BY <1>1, <1>3, <2>1, <2>2, ControllerMoves
<1> QED
  BY <1>2, <1>3 DEF Listens

(* After listening the controller only joins the lanes, submits, or      *)
(* leaves.                                                               *)
LEMMA ChecksKeeps ==
  ASSUME RoundsInv, Checks \/ Joins \/ SubmitsFound \/ TipMoves \/ UserStops
  PROVE  RoundsInv'
<1>1. worker' = worker /\ golden' = golden /\ channel' = channel /\ channel \in Seq(Found)
      /\ controller \in Controlled
  BY DEF RoundsInv, Checks, Joins, SubmitsFound, TipMoves, UserStops
<1>2. CASE Checks
  <2>1. \A i \in 1..Len(channel') : ~channel'[i].heard
    <3>1. controller.at = "checks"
      BY <1>2 DEF Checks
    <3>2. \A i \in 1..Len(channel) : ~channel[i].heard
      BY <3>1 DEF RoundsInv
    <3> QED
      BY <1>1, <3>2
  <2>2. controller' \in Controlled
    <3>1. Ends({}) \/ controller' = [controller EXCEPT !.at = "listens"]
      BY <1>2 DEF Checks, LoopsOn
    <3> QED
      BY <1>1, <3>1 DEF Ends, Controlled
  <2> QED
    BY <1>1, <2>1, <2>2, ControllerMoves
<1>3. CASE Joins
  <2>1. /\ controller' \in Controlled
        /\ controller'.at \in {"left", "prepares", "submits"}
    BY <1>1, <1>3 DEF Joins, Controlled
  <2> QED
    BY <1>1, <2>1, ControllerMoves
<1>4. CASE SubmitsFound
  <2>1. controller' \in Controlled /\ controller'.at = "prepares"
    BY <1>4 DEF SubmitsFound, Away, Controlled
  <2> QED
    BY <1>1, <2>1, ControllerMoves
<1>5. CASE TipMoves \/ UserStops
  <2>1. controller' = controller
    BY <1>5 DEF TipMoves, UserStops
  <2> QED
    BY <1>1, <2>1, ControllerMoves DEF RoundsInv
<1> QED
  BY <1>2, <1>3, <1>4, <1>5

(* Every step of the miner keeps the invariant of a round.               *)
LEMMA RoundsStep == RoundsInv /\ [RoundsNext]_roundsVars => RoundsInv'
<1> SUFFICES ASSUME RoundsInv, [RoundsNext]_roundsVars PROVE RoundsInv'
  OBVIOUS
<1>1. CASE RoundsNext
  BY <1>1, RoundStarts, ListensKeeps, ChecksKeeps, LooksKeeps, ScansOnKeeps, FindsKeeps, SendsKeeps
     DEF RoundsNext
<1>2. CASE UNCHANGED roundsVars
  BY <1>2, ControllerMoves DEF roundsVars, RoundsInv
<1> QED
  BY <1>1, <1>2

(* No lane of the miner ever steps over a golden nonce of its own,       *)
(* whatever a device covers with a request, and a controller that gives  *)
(* a round up has had nothing sent to it while it listened               *)
(* (bin/qub_core.rs, mine_worker, gpu_mine_worker and the controllers'   *)
(* loops): for any number of threads, devices and nonces.                *)
THEOREM MinersAlwaysDeliver == RoundsSpec => []MinersDeliver
<1>1. RoundsInv => MinersDeliver
  BY DEF RoundsInv, MinersDeliver, NotPassed
<1> QED
  BY <1>1, RoundsStart, RoundsStep, PTL DEF RoundsSpec

-----------------------------------------------------------------------------
(* MiningJobs *)

Block == [job : Nat, nonce : Golden \cup {0}]
Job == [extra : Nat \ {0}, parent : Seq(Block), expires : Int]

(* A cache s of jobs from S, up to the extra nonce top: oldest first, and  *)
(* every job up to top is in it, or among those that may be missing (P),   *)
(* or followed by enough younger ones.                                     *)
YoungerIn(S, j) == {k \in S : k.extra > j.extra}
Increasing(s) == \A i, k \in 1..Len(s) : i < k => s[i].extra < s[k].extra
Held(s, S, P, upto) ==
  /\ s \in Seq(S) /\ Increasing(s)
  /\ \A i \in 1..Len(s) : s[i].extra <= upto
  /\ \A j \in S : j.extra <= upto =>
       InCache(s, j) \/ j \in P \/ Cardinality(YoungerIn(S, j)) >= MaxCached - 1

(* The filters and the insertion of a batch as folds.                      *)
Never(c, k, s) == FALSE
KeepLive(c, s, j) == IF j.expires >= c THEN Append(s, j) ELSE s
KeepOthers(c, s, j) == IF j.parent # c THEN Append(s, j) ELSE s
LiveFold == INSTANCE FoldFacts WITH Op <- KeepLive, Inv <- Never
OthersFold == INSTANCE FoldFacts WITH Op <- KeepOthers, Inv <- Never

PrunedAt(now, jobs) ==
    LET live == LiveFold!Fold(now, <<>>, jobs)
        excess == Len(live) - (MaxCached - 1)
    IN  IF excess > 0 THEN SubSeq(live, 1 + excess, Len(live)) ELSE live

(* JobCache::prune, its filter as a fold of this module's.               *)
LEMMA PrunedNow == \A jobs : Pruned(jobs) = PrunedAt(tick, jobs)
<1> SUFFICES ASSUME NEW jobs PROVE Pruned(jobs) = PrunedAt(tick, jobs)
  OBVIOUS
<1>1. Where(jobs, LAMBDA j : j.expires >= tick) = LiveFold!Fold(tick, <<>>, jobs)
  BY Zenon DEF Where, KeepLive, Folded,
    LiveFold!Fold, LiveFold!Table
<1> QED
  BY <1>1, Zenon DEF Pruned, PrunedAt

(* What is picked out of a list in order is in order.                    *)
LEMMA PickedHolds ==
  ASSUME NEW S, NEW T, S \subseteq Job, NEW s \in Seq(S), Increasing(s), NEW r,
         LiveFold!Picked(s, Len(s), T, r)
  PROVE  /\ r \in Seq(S) /\ r \in Seq(T) /\ Increasing(r) /\ Len(r) <= Len(s)
         /\ \A j \in 1..Len(r) : InCache(s, r[j])
         /\ \A i \in 1..Len(s) : s[i] \in T => InCache(r, s[i])
<1>1. r \in Seq(T) /\ Len(r) \in Nat /\ Len(r) <= Len(s) /\ Len(s) \in Nat /\ DOMAIN s = 1..Len(s)
  BY DEF LiveFold!Picked
<1>2. PICK e \in [1..Len(r) -> 1..Len(s)] : /\ \A j \in 1..Len(r) : r[j] = s[e[j]]
                                  /\ \A i, j \in 1..Len(r) : i < j => e[i] < e[j]
  BY DEF LiveFold!Picked
<1>3. \A j \in 1..Len(r) : e[j] \in 1..Len(s) /\ r[j] \in S
  BY <1>2
<1>4. r \in Seq(S)
  BY <1>1, <1>3
<1>5. Increasing(r)
  BY <1>2, <1>3 DEF Increasing
<1>6. \A i \in 1..Len(s) : s[i] \in T => \E j \in 1..Len(r) : r[j] = s[i]
  BY DEF LiveFold!Picked
<1> QED
  BY <1>1, <1>2, <1>3, <1>4, <1>5, <1>6, SMTT(60) DEF InCache

(* The last n elements of a list.                                        *)
LEMMA SuffixFacts ==
  ASSUME NEW S, NEW l \in Seq(S), NEW n \in Nat, NEW x \in Nat, Len(l) = n + x
  PROVE  LET p == SubSeq(l, 1 + x, Len(l)) IN
         p \in Seq(S) /\ Len(p) = n /\ \A k \in 1..n : k + x \in 1..Len(l) /\ p[k] = l[k + x]
<1> DEFINE p == SubSeq(l, 1 + x, Len(l))
<1>1. \A i \in (1 + x)..Len(l) : i \in 1..Len(l) /\ l[i] \in S
  OBVIOUS
<1>2. p \in Seq(S) /\ Len(p) = n
  BY <1>1
<1>3. \A k \in 1..n : k + x \in 1..Len(l) /\ p[k] = l[k + x]
  OBVIOUS
<1> QED
  BY <1>2, <1>3

(* To be in the cache is to be at one of its places.                     *)
LEMMA InDomain ==
  ASSUME NEW S, NEW l \in Seq(S), NEW j
  PROVE  InCache(l, j) <=> \E i \in 1..Len(l) : l[i] = j
BY DEF InCache

(* JobCache::prune keeps the cache honest: a cut leaves the youngest     *)
(* MaxCached - 1, so what it takes away has that many younger ones, and  *)
(* room for one more is made.                                            *)
LEMMA PruneHolds ==
  ASSUME NEW now \in Int, NEW S, S \subseteq Job, IsFiniteSet(S), NEW P, NEW upto \in Nat, NEW s,
         Held(s, S, P, upto), \A j \in S : j.expires < now => j \in P
  PROVE  Held(PrunedAt(now, s), S, P, upto) /\ Len(PrunedAt(now, s)) <= MaxCached - 1
<1> DEFINE T == {j \in S : j.expires >= now}
           live == LiveFold!Fold(now, <<>>, s)
           excess == Len(live) - (MaxCached - 1)
           p == PrunedAt(now, s)
<1>0. MaxCached \in Nat /\ MaxCached >= 1
  BY JobsAssumption
<1>1. s \in Seq(S) /\ Increasing(s) /\ Len(s) \in Nat /\ DOMAIN s = 1..Len(s) /\ \A i \in 1..Len(s) : s[i] \in S
  BY DEF Held
<1>2. \A i \in 1..Len(s) : \A q : KeepLive(now, q, s[i]) = IF s[i] \in T THEN Append(q, s[i]) ELSE q
  BY <1>1 DEF KeepLive
<1>3. LiveFold!Picked(s, Len(s), T, live)
  <2> HIDE DEF T
  <2> QED
    BY <1>1, <1>2, LiveFold!FilterFacts
<1> HIDE DEF live
<1>4. /\ live \in Seq(S) /\ Increasing(live)
      /\ \A j \in 1..Len(live) : InCache(s, live[j])
      /\ \A i \in 1..Len(s) : s[i] \in T => InCache(live, s[i])
  <2> HIDE DEF T
  <2> QED
    BY <1>1, <1>3, PickedHolds
<1>5. p = IF excess > 0 THEN SubSeq(live, 1 + excess, Len(live)) ELSE live
  BY DEF PrunedAt, live
<1>6. \A j \in S : InCache(s, j) => InCache(live, j) \/ j \in P
  <2> SUFFICES ASSUME NEW j \in S, InCache(s, j) PROVE InCache(live, j) \/ j \in P
    OBVIOUS
  <2>1. PICK i \in 1..Len(s) : s[i] = j
    BY <1>1 DEF InCache
  <2>2. CASE j.expires >= now
    BY <1>4, <2>1, <2>2
  <2>3. CASE ~(j.expires >= now)
    <3>1. j.expires \in Int
      BY DEF Job
    <3> QED
      BY <2>3, <3>1
  <2> QED
    BY <2>2, <2>3
<1>7. \A i \in 1..Len(live) : live[i].extra <= upto
  <2> TAKE i \in 1..Len(live)
  <2>1. PICK k \in 1..Len(s) : s[k] = live[i]
    BY <1>1, <1>4 DEF InCache
  <2> QED
    BY <2>1 DEF Held
<1>8. CASE excess <= 0
  <2>1. p = live /\ Len(p) <= MaxCached - 1
    BY <1>0, <1>4, <1>5, <1>8
  <2>2. \A j \in S : j.extra <= upto =>
       InCache(live, j) \/ j \in P \/ Cardinality(YoungerIn(S, j)) >= MaxCached - 1
    BY <1>6 DEF Held
  <2>3. Held(live, S, P, upto)
    BY <1>4, <1>7, <2>2 DEF Held
  <2> QED
    BY <2>1, <2>3
<1>9. CASE excess > 0
  <2> DEFINE M == MaxCached - 1
  <2>0. live \in Seq(S) /\ Len(live) \in Nat /\ excess \in Nat /\ M \in Nat /\ Len(live) = M + excess
        /\ \A i \in 1..Len(live) : live[i] \in S
    BY <1>0, <1>4, <1>9
  <2>1. p = SubSeq(live, 1 + excess, Len(live))
    BY <1>5, <1>9
  <2> HIDE DEF p, excess
  <2>2. p \in Seq(S) /\ Len(p) = M /\ \A k \in 1..M : k + excess \in 1..Len(live) /\ p[k] = live[k + excess]
    BY <2>0, <2>1, SuffixFacts
  <2> HIDE DEF M
  <2>3. Increasing(p)
    BY <1>4, <2>0, <2>2 DEF Increasing
  <2>4. \A k \in 1..Len(p) : p[k].extra <= upto
    BY <1>7, <2>2
  <2>5. ASSUME NEW j \in S, InCache(live, j), ~InCache(p, j)
        PROVE  Cardinality(YoungerIn(S, j)) >= M
    <3>1. PICK i \in 1..Len(live) : live[i] = j
      BY <2>0, <2>5 DEF InCache
    <3>2. i <= excess
      <4> SUFFICES ASSUME i > excess PROVE FALSE
        BY <2>0
      <4>1. i - excess \in 1..M /\ (i - excess) + excess = i
        BY <2>0
      <4>2. p[i - excess] = j
        BY <2>2, <3>1, <4>1
      <4> QED
        BY <2>0, <2>2, <2>5, <4>1, <4>2, InDomain
    <3> DEFINE f == [k \in 1..M |-> p[k]]
               Y == YoungerIn(S, j)
    <3>3. \A k \in 1..M : p[k] \in Y
      <4> TAKE k \in 1..M
      <4>1. k + excess \in 1..Len(live) /\ i < k + excess /\ p[k] = live[k + excess]
        BY <2>0, <2>2, <3>2
      <4>2. live[i].extra < live[k + excess].extra /\ live[k + excess] \in S
        BY <1>4, <2>0, <4>1 DEF Increasing
      <4>3. live[i].extra \in Nat /\ live[k + excess].extra \in Nat
        BY <2>0, <4>1 DEF Job
      <4> QED
        BY <3>1, <4>1, <4>2, <4>3 DEF YoungerIn
    <3>4. \A k, l \in 1..M : p[k] = p[l] => k = l
      <4> SUFFICES ASSUME NEW k \in 1..M, NEW l \in 1..M, p[k] = p[l], k < l PROVE FALSE
        BY <2>0
      <4>1. p[k].extra < p[l].extra /\ p[k].extra \in Nat
        BY <2>2, <2>3, <3>3 DEF Increasing, YoungerIn, Job
      <4> QED
        BY <4>1
    <3>5. f \in Injection(1..M, Y)
      BY <3>3, <3>4 DEF Injection, IsInjective
    <3>6. IsFiniteSet(Y)
      BY FS_Subset DEF YoungerIn
    <3>7. Cardinality(1..M) = M /\ M \in Int /\ 1 \in Int
      <4>1. M \in Int /\ 1 \in Int
        BY <2>0
      <4> QED
        BY <2>0, <4>1, FS_Interval
    <3>8. Cardinality(1..M) <= Cardinality(Y)
      <4> HIDE DEF f, Y
      <4> QED
        BY <3>5, <3>6, FS_Injection
    <3>9. Cardinality(Y) \in Nat
      BY <3>6, FS_CardinalityType
    <3> HIDE DEF Y
    <3> QED
      BY <2>0, <3>7, <3>8, <3>9 DEF Y
  <2>6. \A j \in S : j.extra <= upto =>
       InCache(p, j) \/ j \in P \/ Cardinality(YoungerIn(S, j)) >= MaxCached - 1
    BY <1>6, <2>5 DEF Held, M
  <2>7. Len(p) <= MaxCached - 1
    BY <1>0, <2>2 DEF M
  <2> QED
    BY <2>2, <2>3, <2>4, <2>6, <2>7 DEF Held, p
<1> QED
  BY <1>0, <1>4, <1>8, <1>9

InsertNext(c, s, j) == Inserted(s, j)
BatchInv(c, k, s) == Held(s, c[1], c[2], c[3] + k) /\ Len(s) <= MaxCached
BatchFold == INSTANCE FoldFacts WITH Op <- InsertNext, Inv <- BatchInv

(* create_templates, its insertions as a fold of this module's.          *)
LEMMA BatchIsFold ==
  \A c, jobs : Folded(Inserted, cache, jobs) = BatchFold!Fold(c, cache, jobs)
BY Zenon DEF InsertNext, Folded,
    BatchFold!Fold, BatchFold!Table

(* JobCache::insert: the new job is the youngest.                        *)
LEMMA InsertHolds ==
  ASSUME tick \in Int, NEW S, S \subseteq Job, IsFiniteSet(S), NEW P, NEW upto \in Nat, NEW s,
         Held(s, S, P, upto), \A k \in S : k.expires < tick => k \in P,
         NEW j \in S, j.extra = upto + 1, \A k \in S : k.extra = j.extra => k = j
  PROVE  Held(Inserted(s, j), S, P, upto + 1) /\ Len(Inserted(s, j)) <= MaxCached
<1> DEFINE p == PrunedAt(tick, s)
           q == Append(p, j)
<1>0. MaxCached \in Nat
  BY JobsAssumption
<1>1. Held(p, S, P, upto) /\ Len(p) <= MaxCached - 1
  BY PruneHolds
<1>2. Inserted(s, j) = q
  BY PrunedNow DEF Inserted
<1> HIDE DEF p
<1>3. p \in Seq(S) /\ Len(p) \in Nat
  BY <1>1 DEF Held
<1>4. q \in Seq(S) /\ Len(q) = Len(p) + 1 /\ q[Len(p) + 1] = j /\ \A i \in 1..Len(p) : q[i] = p[i]
  BY <1>3
<1> HIDE DEF q
<1>5. \A i \in 1..Len(p) : p[i].extra <= upto /\ p[i].extra \in Nat
  BY <1>1, <1>3, SMTT(60) DEF Held, Job
<1>6. Increasing(q)
  <2> SUFFICES ASSUME NEW i \in 1..Len(q), NEW k \in 1..Len(q), i < k PROVE q[i].extra < q[k].extra
    BY DEF Increasing
  <2>1. i \in 1..Len(p) /\ q[i] = p[i]
    BY <1>3, <1>4
  <2>2. CASE k \in 1..Len(p)
    BY <1>1, <1>4, <2>1, <2>2 DEF Increasing, Held
  <2>3. CASE k = Len(p) + 1
    BY <1>4, <1>5, <2>1, <2>3
  <2> QED
    BY <1>3, <1>4, <2>2, <2>3, SMTT(60)
<1>7. \A i \in 1..Len(q) : q[i].extra <= upto + 1
  BY <1>3, <1>4, <1>5
<1>8. ASSUME NEW k \in S, k.extra <= upto + 1
      PROVE  InCache(q, k) \/ k \in P \/ Cardinality(YoungerIn(S, k)) >= MaxCached - 1
  <2>1. CASE k = j
    BY <1>3, <1>4, <2>1, InDomain
  <2>2. CASE k # j
    <3>1. k.extra \in Nat /\ k.extra <= upto
      BY <1>8, <2>2 DEF Job
    <3>2. InCache(p, k) => InCache(q, k)
      BY <1>3, <1>4, InDomain
    <3> QED
      BY <1>1, <3>1, <3>2 DEF Held
  <2> QED
    BY <2>1, <2>2
<1>9. Held(q, S, P, upto + 1)
  BY <1>4, <1>6, <1>7, <1>8 DEF Held
<1> QED
  BY <1>0, <1>1, <1>2, <1>3, <1>4, <1>9

(* A batch: one insertion after the other, by induction over the batch.  *)
LEMMA BatchHolds ==
  ASSUME tick \in Int, NEW S, S \subseteq Job, IsFiniteSet(S), NEW P, NEW upto \in Nat,
         Held(cache, S, P, upto), Len(cache) <= MaxCached, \A k \in S : k.expires < tick => k \in P,
         NEW count \in Nat, NEW jobs \in [1..count -> S],
         \A i \in 1..count : /\ jobs[i].extra = upto + i
                             /\ \A k \in S : k.extra = upto + i => k = jobs[i]
  PROVE  /\ Held(Folded(Inserted, cache, jobs), S, P, upto + count)
         /\ Len(Folded(Inserted, cache, jobs)) <= MaxCached
<1> DEFINE c == <<S, P, upto>>
<1>1. c[1] = S /\ c[2] = P /\ c[3] = upto
  OBVIOUS
<1> HIDE DEF c
<1>2. BatchInv(c, 0, cache)
  BY <1>1 DEF BatchInv
<1>3. ASSUME NEW i \in 1..count, NEW s, BatchInv(c, i - 1, s)
      PROVE  BatchInv(c, i, InsertNext(c, s, jobs[i]))
  <2>1. Held(s, S, P, upto + (i - 1)) /\ upto + (i - 1) \in Nat
    BY <1>1, <1>3 DEF BatchInv
  <2>2. jobs[i] \in S /\ jobs[i].extra = (upto + (i - 1)) + 1 /\ (upto + (i - 1)) + 1 = upto + i
        /\ \A k \in S : k.extra = jobs[i].extra => k = jobs[i]
    OBVIOUS
  <2>3. /\ Held(Inserted(s, jobs[i]), S, P, (upto + (i - 1)) + 1)
        /\ Len(Inserted(s, jobs[i])) <= MaxCached
    BY <2>1, <2>2, InsertHolds
  <2> QED
    BY <1>1, <2>2, <2>3 DEF BatchInv, InsertNext
<1>4. DOMAIN jobs = 1..count
  OBVIOUS
<1>5. BatchInv(c, count, BatchFold!Fold(c, cache, jobs))
  BY <1>2, <1>3, <1>4, BatchFold!FoldInvariant
<1>6. Folded(Inserted, cache, jobs) = BatchFold!Fold(c, cache, jobs)
  BY BatchIsFold
<1> QED
  BY <1>1, <1>5, <1>6 DEF BatchInv

(* What settles a parent leaves the jobs on other parents.               *)
LEMMA SettleHolds ==
  ASSUME NEW S, S \subseteq Job, NEW P, NEW upto, NEW s, Held(s, S, P, upto),
         NEW old, \A j \in S : j.parent = old => j \in P
  PROVE  Held(WithoutParent(s, old), S, P, upto) /\ Len(WithoutParent(s, old)) <= Len(s)
<1> DEFINE T == {j \in S : j.parent # old}
           r == OthersFold!Fold(old, <<>>, s)
<1>1. s \in Seq(S) /\ Increasing(s) /\ Len(s) \in Nat /\ DOMAIN s = 1..Len(s) /\ \A i \in 1..Len(s) : s[i] \in S
  BY DEF Held
<1>2. \A i \in 1..Len(s) : \A q : KeepOthers(old, q, s[i]) = IF s[i] \in T THEN Append(q, s[i]) ELSE q
  BY <1>1 DEF KeepOthers
<1>3. OthersFold!Picked(s, Len(s), T, r)
  <2> HIDE DEF T
  <2> QED
    BY <1>1, <1>2, OthersFold!FilterFacts
<1>4. WithoutParent(s, old) = r
  BY Zenon DEF WithoutParent, Where, KeepOthers, Folded,
    OthersFold!Fold, OthersFold!Table
<1> HIDE DEF r
<1>5. LiveFold!Picked(s, Len(s), T, r)
  BY <1>3 DEF LiveFold!Picked, OthersFold!Picked
<1>6. /\ r \in Seq(S) /\ Increasing(r) /\ Len(r) <= Len(s)
      /\ \A j \in 1..Len(r) : InCache(s, r[j])
      /\ \A i \in 1..Len(s) : s[i] \in T => InCache(r, s[i])
  <2> HIDE DEF T
  <2> QED
    BY <1>1, <1>5, PickedHolds
<1>7. \A i \in 1..Len(r) : r[i].extra <= upto
  <2> TAKE i \in 1..Len(r)
  <2>1. PICK k \in 1..Len(s) : s[k] = r[i]
    BY <1>1, <1>6, InDomain
  <2> QED
    BY <2>1 DEF Held
<1>8. \A j \in S : InCache(s, j) => InCache(r, j) \/ j \in P
  <2> SUFFICES ASSUME NEW j \in S, InCache(s, j) PROVE InCache(r, j) \/ j \in P
    OBVIOUS
  <2>1. PICK i \in 1..Len(s) : s[i] = j
    BY <1>1, InDomain
  <2> QED
    BY <1>6, <2>1
<1>9. Held(r, S, P, upto)
  BY <1>6, <1>7, <1>8 DEF Held
<1> QED
  BY <1>4, <1>6, <1>9

(* The jobs that may be missing: Outdated.                                 *)
Lost == {j \in issued : Outdated(j)}

(* Jobs have extra nonces of their own, counted up.  An accepted block has *)
(* made the chain longer than the parent of its job, for good; and the tip *)
(* is the block of an accepted job, or of somebody else.                   *)
IssuedInv ==
  /\ tick \in Nat /\ issued \subseteq Job /\ IsFiniteSet(issued)
  /\ \A j, k \in issued : j.extra = k.extra => j = k
  /\ \A j \in issued : j.extra <= Cardinality(issued)
AcceptedInv ==
  /\ tip \in Seq(Block) /\ accepted \subseteq Job
  /\ \A a \in accepted : Len(a.parent) < Len(tip)
  /\ \A a, b \in accepted : a.parent = b.parent => a = b
  /\ \/ tip = <<>> \/ tip[Len(tip)].job = 0
     \/ \E a \in accepted, x \in Block : tip = Append(a.parent, x)
CacheInv == Held(cache, issued, Lost, Cardinality(issued)) /\ Len(cache) <= MaxCached

Solution == [job : Job, nonce : Golden]
Serving == [at : {"free", "verifies", "connects", "settles"},
            job : SUBSET Job, nonce : SUBSET Golden, client : SUBSET Miners]
Mining == [at : {"idle", "mines", "joins", "submits", "exited"},
           jobs : SUBSET Job, found : Seq(Solution), chosen : SUBSET Solution]
(* A thread serves one job at most.                                      *)
Single(S) == \A j, k \in S : j = k
ThreadInv ==
  /\ thread \in [Threads -> Serving]
  /\ \A t \in Threads : Single(thread[t].job)
  /\ \A t \in Threads : thread[t].at = "settles" =>
       \A j \in thread[t].job : \E a \in accepted : a.parent = j.parent
MinerInv == miner \in [Miners -> Mining]

JobsInv == IssuedInv /\ AcceptedInv /\ CacheInv /\ ThreadInv /\ MinerInv

(* A cache that answers for its jobs still does when more of them may be *)
(* missing.                                                              *)
LEMMA HeldMore ==
  ASSUME NEW s, NEW S, NEW P, NEW Q, NEW upto, Held(s, S, P, upto), P \subseteq Q
  PROVE  Held(s, S, Q, upto)
BY DEF Held

(* A free thread and a worker that begins a round are of their types.    *)
LEMMA FreshRecords ==
  /\ FreeThread \in Serving /\ FreeThread.at = "free" /\ Single(FreeThread.job)
  /\ NewRound \in Mining
  /\ \A m \in Mining : [NewRound EXCEPT !.at = "exited"] \in Mining
<1>1. FreeThread \in Serving /\ FreeThread.at = "free" /\ Single(FreeThread.job)
  BY DEF FreeThread, Serving, Single
<1>2. <<>> \in Seq(Solution)
  OBVIOUS
<1>3. NewRound \in Mining /\ [NewRound EXCEPT !.at = "exited"] \in Mining
  BY <1>2 DEF NewRound, Mining
<1> QED
  BY <1>1, <1>3

(* A service that has handed nothing out answers for everything.         *)
LEMMA JobsStart == JobsInit => JobsInv
<1> SUFFICES ASSUME JobsInit PROVE JobsInv
  OBVIOUS
<1>1. IssuedInv /\ AcceptedInv
  BY FS_EmptySet DEF JobsInit, IssuedInv, AcceptedInv
<1>2. CacheInv
  <2>1. cache \in Seq(issued) /\ Len(cache) = 0
    BY DEF JobsInit
  <2> QED
    BY <2>1, JobsAssumption DEF JobsInit, CacheInv, Held, Increasing
<1>3. ThreadInv /\ MinerInv
  BY FreshRecords DEF JobsInit, ThreadInv, MinerInv
<1> QED
  BY <1>1, <1>2, <1>3 DEF JobsInv

(* More time or more accepted blocks: no job has to be in the cache that *)
(* had not to be before.                                                 *)
LEMMA CacheStays ==
  ASSUME IssuedInv, CacheInv, tick' \in Nat, tick' >= tick, accepted \subseteq accepted',
         UNCHANGED <<issued, cache>>
  PROVE  CacheInv' /\ IssuedInv'
<1>1. Lost \subseteq Lost'
  BY DEF Lost, Outdated, IssuedInv, Job
<1>2. Held(cache, issued, Lost', Cardinality(issued))
  BY <1>1, HeldMore DEF CacheInv
<1>3. CacheInv'
  BY <1>2 DEF CacheInv
<1> QED
  BY <1>3 DEF IssuedInv

(* A look-up prunes the cache, and changes nothing else.                 *)
LEMMA CachePruned ==
  ASSUME IssuedInv, CacheInv, cache' = Pruned(cache), UNCHANGED <<tick, issued, accepted>>
  PROVE  CacheInv' /\ IssuedInv'
<1> DEFINE N == Cardinality(issued)
<1>1. N \in Nat /\ tick \in Int /\ issued \subseteq Job /\ IsFiniteSet(issued) /\ MaxCached \in Nat
  BY FS_CardinalityType, JobsAssumption DEF IssuedInv
<1>2. \A j \in issued : j.expires < tick => j \in Lost
  BY DEF Lost, Outdated
<1>3. Held(cache, issued, Lost, N)
  BY DEF CacheInv
<1>4. Held(PrunedAt(tick, cache), issued, Lost, N) /\ Len(PrunedAt(tick, cache)) <= MaxCached - 1
  <2> HIDE DEF N
  <2> QED
    BY <1>1, <1>2, <1>3, PruneHolds
<1>5. cache' = PrunedAt(tick, cache) /\ Lost' = Lost
  BY PrunedNow DEF Lost, Outdated
<1>6. Len(cache') \in Nat
  BY <1>4, <1>5 DEF Held
<1> QED
  BY <1>1, <1>4, <1>5, <1>6 DEF CacheInv, IssuedInv

(* create_templates: the new jobs have the next extra nonces, and the    *)
(* cache answers for them and for the older ones.                        *)
LEMMA TemplatesHold ==
  ASSUME IssuedInv, CacheInv, AcceptedInv, NEW count \in Nat, CreateTemplates(count),
         UNCHANGED <<tick, accepted>>
  PROVE  CacheInv' /\ IssuedInv' /\ {NewJobs(count)[i] : i \in 1..count} \subseteq Job
<1> DEFINE N == Cardinality(issued)
           jobs == NewJobs(count)
           new == {jobs[i] : i \in 1..count}
           S == issued \cup new
<1>0. /\ N \in Nat /\ tick \in Nat /\ tick \in Int /\ issued \subseteq Job /\ IsFiniteSet(issued)
      /\ JobTtl \in Nat \ {0}
  BY FS_CardinalityType, JobsAssumption DEF IssuedInv
<1>1. /\ issued' = S /\ cache' = Folded(Inserted, cache, jobs)
  BY DEF CreateTemplates
<1>2. ASSUME NEW i \in 1..count
      PROVE  jobs[i] \in Job /\ jobs[i].extra = N + i /\ jobs[i].expires >= tick
  <2> DEFINE x == N + i  e == tick + JobTtl
  <2>1. x \in Nat \ {0} /\ e \in Int /\ e >= tick /\ tip \in Seq(Block)
    BY <1>0 DEF AcceptedInv
  <2>2. jobs[i] = [extra |-> x, parent |-> tip, expires |-> e]
    BY DEF NewJobs
  <2> HIDE DEF x, e, jobs
  <2>3. jobs[i] \in Job /\ jobs[i].extra = x /\ jobs[i].expires = e
    BY <2>1, <2>2 DEF Job
  <2> QED
    BY <2>1, <2>3 DEF x
<1>3. jobs = [i \in 1..count |-> jobs[i]]
  BY DEF NewJobs
<1> HIDE DEF jobs
<1>4. S \subseteq Job
  BY <1>0, <1>2
<1>5. \A j \in issued : j.extra <= N /\ j.extra \in Nat
  BY <1>0 DEF IssuedInv, Job
<1>6. \A j, k \in S : j.extra = k.extra => j = k
  <2> SUFFICES ASSUME NEW j \in S, NEW k \in S, j.extra = k.extra PROVE j = k
    OBVIOUS
  <2>1. CASE j \in issued /\ k \in issued
    BY <2>1 DEF IssuedInv
  <2>2. CASE j \in issued /\ k \in new
    BY <1>0, <1>2, <1>5, <2>2
  <2>3. CASE j \in new /\ k \in issued
    BY <1>0, <1>2, <1>5, <2>3
  <2>4. CASE j \in new /\ k \in new
    <3>1. PICK i \in 1..count, l \in 1..count : j = jobs[i] /\ k = jobs[l]
      BY <2>4
    <3> QED
      BY <1>0, <1>2, <3>1
  <2> QED
    BY <2>1, <2>2, <2>3, <2>4
<1>7. IsFiniteSet(S) /\ Cardinality(S) = N + count
  <2> DEFINE f == [i \in 1..count |-> jobs[i]]
  <2>1. IsFiniteSet(1..count) /\ Cardinality(1..count) = count
    <3>1. 1 \in Int /\ count \in Int /\ count >= 0
      OBVIOUS
    <3> QED
      BY <3>1, FS_Interval
  <2>2. f \in Surjection(1..count, new)
    BY DEF Surjection
  <2>3. f \in Injection(1..count, new)
    <3>1. \A i, l \in 1..count : jobs[i] = jobs[l] => i = l
      BY <1>0, <1>2
    <3> QED
      BY <3>1 DEF Injection, IsInjective
  <2> HIDE DEF f, new
  <2>4. IsFiniteSet(new) /\ Cardinality(new) = count
    BY <2>1, <2>2, <2>3, FS_Surjection
  <2>5. issued \cap new = {}
    BY <1>0, <1>2, <1>5 DEF new
  <2>6. Cardinality(issued \cap new) = 0
    BY <2>5, FS_EmptySet
  <2>7. IsFiniteSet(issued \cup new) /\ Cardinality(issued \cup new) = N + count - 0
    BY <1>0, <2>4, <2>6, FS_Union
  <2> QED
    BY <1>0, <2>7
<1>8. IssuedInv'
  <2>1. \A j \in S : j.extra <= N + count
    BY <1>0, <1>2, <1>5
  <2> QED
    BY <1>0, <1>1, <1>4, <1>6, <1>7, <2>1 DEF IssuedInv
<1> DEFINE P == Lost'
<1>9. Lost \subseteq P /\ \A k \in S : k.expires < tick => k \in P
  BY <1>1 DEF Lost, Outdated
<1>10. Held(cache, S, P, N)
  <2>1. Held(cache, issued, Lost, N)
    BY DEF CacheInv
  <2>2. ASSUME NEW j \in S, j.extra <= N
        PROVE  InCache(cache, j) \/ j \in P \/ Cardinality(YoungerIn(S, j)) >= MaxCached - 1
    <3>1. j \in issued
      BY <1>0, <1>2, <2>2
    <3>2. YoungerIn(issued, j) \subseteq YoungerIn(S, j) /\ IsFiniteSet(YoungerIn(S, j))
      BY <1>7, FS_Subset DEF YoungerIn
    <3>3. Cardinality(YoungerIn(issued, j)) <= Cardinality(YoungerIn(S, j))
          /\ Cardinality(YoungerIn(issued, j)) \in Nat /\ Cardinality(YoungerIn(S, j)) \in Nat
      <4> HIDE DEF S
      <4>1. IsFiniteSet(YoungerIn(issued, j))
        BY <3>2, FS_Subset
      <4> QED
        BY <3>2, <4>1, FS_Subset, FS_CardinalityType
    <3>4. MaxCached - 1 \in Int
      BY JobsAssumption
    <3>5. InCache(cache, j) \/ j \in Lost \/ Cardinality(YoungerIn(issued, j)) >= MaxCached - 1
      BY <2>1, <2>2, <3>1 DEF Held
    <3> QED
      BY <1>9, <3>3, <3>4, <3>5
  <2>3. cache \in Seq(S)
    BY <2>1 DEF Held
  <2> HIDE DEF P, S
  <2> QED
    BY <2>1, <2>2, <2>3 DEF Held
<1>11. jobs \in [1..count -> S]
  BY <1>3
<1>12. \A i \in 1..count : /\ jobs[i].extra = N + i
                           /\ \A k \in S : k.extra = N + i => k = jobs[i]
  BY <1>2, <1>6, <1>11
<1> HIDE DEF P, S
<1>13. Len(cache) <= MaxCached
  BY DEF CacheInv
<1>14. Held(cache', S, P, N + count) /\ Len(cache') <= MaxCached
  <2> HIDE DEF N
  <2> QED
    BY <1>0, <1>1, <1>4, <1>7, <1>9, <1>10, <1>11, <1>12, <1>13, BatchHolds
<1>15. CacheInv'
  BY <1>1, <1>7, <1>14 DEF CacheInv, P
<1>16. {NewJobs(count)[i] : i \in 1..count} \subseteq Job
  BY <1>2 DEF jobs
<1> QED
  BY <1>8, <1>15, <1>16

(* A request moves on; if it is to settle, the parent of its job has     *)
(* been accepted.                                                        *)
LEMMA ThreadMoves ==
  ASSUME ThreadInv, NEW t \in Threads, NEW r \in Serving, thread' = [thread EXCEPT ![t] = r],
         Single(r.job), accepted \subseteq accepted',
         r.at = "settles" => \A j \in r.job : \E a \in accepted' : a.parent = j.parent
  PROVE  ThreadInv'
<1>1. thread' \in [Threads -> Serving]
  BY DEF ThreadInv
<1>2. ASSUME NEW u \in Threads, thread'[u].at = "settles", NEW j \in thread'[u].job
      PROVE  \E a \in accepted' : a.parent = j.parent
  <2>1. CASE u = t
    BY <1>2, <2>1 DEF ThreadInv
  <2>2. CASE u # t
    <3>1. thread'[u] = thread[u]
      BY <2>2 DEF ThreadInv
    <3>2. PICK a \in accepted : a.parent = j.parent
      BY <1>2, <3>1 DEF ThreadInv
    <3> QED
      BY <3>2
  <2> QED
    BY <2>1, <2>2
<1>3. ASSUME NEW u \in Threads PROVE Single(thread'[u].job)
  <2>1. CASE u = t
    BY <2>1 DEF ThreadInv
  <2>2. CASE u # t
    BY <2>2 DEF ThreadInv
  <2> QED
    BY <2>1, <2>2
<1> QED
  BY <1>1, <1>2, <1>3 DEF ThreadInv

(* A step that no thread takes.                                          *)
LEMMA ThreadStays ==
  ASSUME ThreadInv, thread' = thread, accepted' = accepted
  PROVE  ThreadInv'
BY DEF ThreadInv

(* A reply frees the thread, and its client goes on or gives up.         *)
LEMMA RepliedKeeps ==
  ASSUME ThreadInv, MinerInv, NEW t \in Threads, NEW ok \in BOOLEAN, Replied(t, ok), accepted' = accepted
  PROVE  ThreadInv' /\ MinerInv'
<1>1. thread' = [thread EXCEPT ![t] = FreeThread]
  BY DEF Replied
<1>2. ThreadInv'
  BY <1>1, FreshRecords, ThreadMoves
<1>3. miner' = [m \in Miners |->
                    IF m \in thread[t].client
                    THEN IF ok THEN NewRound ELSE [NewRound EXCEPT !.at = "exited"]
                    ELSE miner[m]]
  BY DEF Replied
<1>4. ASSUME NEW m \in Miners PROVE miner'[m] \in Mining
  <2>1. miner[m] \in Mining /\ NewRound \in Mining /\ [NewRound EXCEPT !.at = "exited"] \in Mining
    BY FreshRecords DEF MinerInv
  <2> QED
    BY <1>3, <2>1
<1> QED
  BY <1>2, <1>3, <1>4 DEF MinerInv

(* A request begins with a look-up, for a worker or for a stranger.      *)
LEMMA LookUpKeeps ==
  ASSUME IssuedInv, CacheInv, ThreadInv, NEW t \in Threads, NEW j \in Job, NEW n \in Golden,
         NEW client \in SUBSET Miners, LookUp(t, j, n, client) \/ LookUpFails(t, j),
         UNCHANGED <<tick, issued, accepted>>
  PROVE  IssuedInv' /\ CacheInv' /\ ThreadInv'
<1>1. IssuedInv' /\ CacheInv'
  BY CachePruned DEF LookUp, LookUpFails
<1>2. CASE LookUp(t, j, n, client)
  <2> DEFINE r == [at |-> "verifies", job |-> {j}, nonce |-> {n}, client |-> client]
  <2>1. r \in Serving /\ r.at = "verifies" /\ Single(r.job)
    BY DEF Serving, Single
  <2>2. thread' = [thread EXCEPT ![t] = r]
    BY <1>2 DEF LookUp
  <2> HIDE DEF r
  <2> QED
    BY <1>1, <2>1, <2>2, ThreadMoves
<1>3. CASE LookUpFails(t, j)
  BY <1>1, <1>3, ThreadStays DEF LookUpFails
<1> QED
  BY <1>2, <1>3

(* One worker moves on.                                                  *)
LEMMA MinerMoves ==
  ASSUME MinerInv, NEW m \in Miners, NEW r \in Mining, miner' = [miner EXCEPT ![m] = r]
  PROVE  MinerInv'
BY DEF MinerInv

(* A step that leaves the chain and the accepted jobs alone.             *)
LEMMA AcceptedStays ==
  ASSUME AcceptedInv, UNCHANGED <<tip, accepted>>
  PROVE  AcceptedInv'
BY DEF AcceptedInv

(* Strangers fetch and submit, and time passes.                          *)
LEMMA StrangerSteps ==
  ASSUME JobsInv, StrangerFetches \/ Tick \/ \E t \in Threads : StrangerSubmits(t)
  PROVE  JobsInv'
<1>0. IssuedInv /\ AcceptedInv /\ CacheInv /\ ThreadInv /\ MinerInv
  BY DEF JobsInv
<1>1. CASE StrangerFetches
  <2>1. PICK count \in 1..Batch : CreateTemplates(count) /\ UNCHANGED <<tick, tip, thread, miner, accepted>>
    BY <1>1 DEF StrangerFetches
  <2>2. count \in Nat
    OBVIOUS
  <2>3. CacheInv' /\ IssuedInv'
    BY <1>0, <2>1, <2>2, TemplatesHold
  <2> QED
    BY <1>0, <2>1, <2>3, AcceptedStays, ThreadStays DEF JobsInv, MinerInv
<1>2. CASE Tick
  <2>1. tick' \in Nat /\ tick' >= tick
    BY <1>0, <1>2 DEF Tick, IssuedInv
  <2>2. CacheInv' /\ IssuedInv'
    BY <1>0, <1>2, <2>1, CacheStays DEF Tick
  <2> QED
    BY <1>0, <1>2, <2>2, AcceptedStays, ThreadStays DEF JobsInv, MinerInv, Tick
<1>3. ASSUME NEW t \in Threads, StrangerSubmits(t) PROVE JobsInv'
  <2>1. PICK j \in issued, n \in Golden :
        /\ LookUp(t, j, n, {}) \/ LookUpFails(t, j)
        /\ UNCHANGED <<tick, tip, issued, miner, accepted>>
    BY <1>3 DEF StrangerSubmits
  <2>2. j \in Job /\ {} \in SUBSET Miners
    BY <1>0 DEF IssuedInv
  <2>3. IssuedInv' /\ CacheInv' /\ ThreadInv'
    BY <1>0, <2>1, <2>2, LookUpKeeps
  <2> QED
    BY <1>0, <2>1, <2>3, AcceptedStays DEF JobsInv, MinerInv
<1> QED
  BY <1>1, <1>2, <1>3

(* A chain that moves without this service is longer, and ends with a    *)
(* block of somebody else.                                               *)
LEMMA ChainMovesKeeps ==
  ASSUME JobsInv, ChainMoves
  PROVE  JobsInv'
<1>0. IssuedInv /\ AcceptedInv /\ CacheInv /\ ThreadInv /\ MinerInv
  BY DEF JobsInv
<1>1. PICK keep \in 0..Len(tip), grown \in 1..2 :
        /\ keep + grown > Len(tip)
        /\ tip' = SubSeq(tip, 1, keep) \o [i \in 1..grown |-> [job |-> 0, nonce |-> 0]]
        /\ UNCHANGED <<tick, issued, cache, thread, miner, accepted>>
  BY DEF ChainMoves
<1> DEFINE p == SubSeq(tip, 1, keep)
           o == [job |-> 0, nonce |-> 0]
           q == [i \in 1..grown |-> o]
<1>2. tip \in Seq(Block) /\ Len(tip) \in Nat /\ o \in Block /\ o.job = 0
  BY <1>0 DEF AcceptedInv, Block
<1> HIDE DEF o
<1>3. p \in Seq(Block) /\ Len(p) = keep
  BY <1>2
<1>4. q \in Seq(Block) /\ Len(q) = grown /\ q[grown] = o
  BY <1>2
<1>5. tip' = p \o q
  BY <1>1 DEF o
<1> HIDE DEF p, q
<1>6. tip' \in Seq(Block) /\ Len(tip') = keep + grown /\ tip'[Len(tip')] = o
  BY <1>3, <1>4, <1>5
<1>7. \A a \in accepted : Len(a.parent) < Len(tip')
  <2> TAKE a \in accepted
  <2>1. Len(a.parent) < Len(tip) /\ Len(a.parent) \in Nat
    BY <1>0 DEF AcceptedInv, Job
  <2> QED
    BY <1>1, <1>2, <1>6, <2>1
<1>8. AcceptedInv'
  BY <1>0, <1>1, <1>2, <1>6, <1>7 DEF AcceptedInv
<1>9. CacheInv' /\ IssuedInv'
  <2>1. tick' \in Nat /\ tick' >= tick
    BY <1>0, <1>1 DEF IssuedInv
  <2> QED
    BY <1>0, <1>1, <2>1, CacheStays
<1> QED
  BY <1>0, <1>1, <1>8, <1>9, ThreadStays DEF JobsInv, MinerInv

(* The checks before the mutex (submit_block): refused, or passed on.    *)
LEMMA VerifyKeeps ==
  ASSUME JobsInv, NEW t \in Threads, Verify(t)
  PROVE  JobsInv'
<1>0. IssuedInv /\ AcceptedInv /\ CacheInv /\ ThreadInv /\ MinerInv
  BY DEF JobsInv
<1>1. UNCHANGED <<tick, tip, issued, cache, accepted>> /\ tick' \in Nat /\ tick' >= tick
  BY <1>0 DEF Verify, IssuedInv
<1>2. AcceptedInv' /\ CacheInv' /\ IssuedInv'
  BY <1>0, <1>1, AcceptedStays, CacheStays
<1>3. CASE Replied(t, FALSE)
  BY <1>0, <1>1, <1>2, <1>3, RepliedKeeps DEF JobsInv
<1>4. CASE thread' = [thread EXCEPT ![t].at = "connects"] /\ miner' = miner
  <2> DEFINE r == [thread[t] EXCEPT !.at = "connects"]
  <2>1. r \in Serving /\ r.at = "connects" /\ Single(r.job) /\ thread' = [thread EXCEPT ![t] = r]
    BY <1>0, <1>4 DEF ThreadInv, Serving
  <2> HIDE DEF r
  <2>2. ThreadInv'
    BY <1>0, <1>1, <2>1, ThreadMoves
  <2> QED
    BY <1>0, <1>2, <1>4, <2>2 DEF JobsInv, MinerInv
<1> QED
  BY <1>3, <1>4 DEF Verify

(* The block of a job ends with the job's number, and begins with its    *)
(* parent.                                                               *)
LEMMA BlockFacts ==
  ASSUME NEW j \in Job, NEW n \in Golden
  PROVE  /\ BlockOf(j, n) \in Seq(Block) /\ Len(BlockOf(j, n)) = Len(j.parent) + 1
         /\ Len(j.parent) \in Nat
         /\ BlockOf(j, n)[Len(BlockOf(j, n))].job # 0
         /\ \A p \in Seq(Block), x \in Block : BlockOf(j, n) = Append(p, x) => p = j.parent
         /\ \E x \in Block : BlockOf(j, n) = Append(j.parent, x)
<1> DEFINE b == [job |-> j.extra, nonce |-> n]
           q == BlockOf(j, n)
<1>1. j.parent \in Seq(Block) /\ j.extra \in Nat \ {0}
  BY DEF Job
<1>2. b \in Block /\ b.job = j.extra
  BY <1>1 DEF Block
<1>3. q = Append(j.parent, b)
  BY DEF BlockOf
<1> HIDE DEF b, q
<1>4. q \in Seq(Block) /\ Len(q) = Len(j.parent) + 1 /\ q[Len(q)] = b /\ Len(j.parent) \in Nat
      /\ \A i \in 1..Len(j.parent) : q[i] = j.parent[i]
  BY <1>1, <1>2, <1>3
<1>5. ASSUME NEW p \in Seq(Block), NEW x \in Block, q = Append(p, x) PROVE p = j.parent
  <2>1. Len(p) \in Nat /\ Len(q) = Len(p) + 1 /\ \A i \in 1..Len(p) : q[i] = p[i]
    BY <1>5
  <2> QED
    BY <1>1, <1>4, <2>1
<1> QED
  BY <1>1, <1>2, <1>3, <1>4, <1>5 DEF q

(* Under the mutex: a block that is the tip already is that of an        *)
(* accepted job, on the same parent; a block on the present tip is the   *)
(* first accepted on it, since the chain was never that short again.     *)
LEMMA ConnectKeeps ==
  ASSUME JobsInv, NEW t \in Threads, Connect(t)
  PROVE  JobsInv'
<1>0. IssuedInv /\ AcceptedInv /\ CacheInv /\ ThreadInv /\ MinerInv
  BY DEF JobsInv
<1> DEFINE r == [thread[t] EXCEPT !.at = "settles"]
<1>1. thread[t] \in Serving
  BY <1>0 DEF ThreadInv
<1>2. PICK j \in thread[t].job, n \in thread[t].nonce :
          \/ /\ tip = BlockOf(j, n)
             /\ thread' = [thread EXCEPT ![t].at = "settles"]
             /\ UNCHANGED <<tip, miner, accepted>>
          \/ /\ tip # BlockOf(j, n)
             /\ Replied(t, FALSE)
             /\ UNCHANGED <<tip, accepted>>
          \/ /\ tip = j.parent
             /\ tip' = BlockOf(j, n)
             /\ accepted' = accepted \cup {j}
             /\ thread' = [thread EXCEPT ![t].at = "settles"]
             /\ UNCHANGED miner
  BY DEF Connect
<1>3. UNCHANGED <<tick, issued, cache>> /\ tick' \in Nat /\ tick' >= tick
  BY <1>0 DEF Connect, IssuedInv
<1>4. j \in Job /\ n \in Golden
  BY <1>1 DEF Serving
<1>5. r \in Serving /\ r.at = "settles" /\ r.job = thread[t].job /\ Single(r.job)
  BY <1>0, <1>1 DEF Serving, ThreadInv
<1>6. ASSUME thread' = [thread EXCEPT ![t].at = "settles"] PROVE thread' = [thread EXCEPT ![t] = r]
  BY <1>6
<1>7. accepted \subseteq accepted' => CacheInv' /\ IssuedInv'
  BY <1>0, <1>3, CacheStays
<1>8. CASE tip = BlockOf(j, n) /\ thread' = [thread EXCEPT ![t].at = "settles"]
           /\ UNCHANGED <<tip, miner, accepted>>
  <2>1. \E a \in accepted : a.parent = j.parent
    <3>1. Len(tip) = Len(j.parent) + 1 /\ Len(j.parent) \in Nat /\ tip[Len(tip)].job # 0
      BY <1>4, <1>8, BlockFacts
    <3>2. tip # <<>>
      BY <3>1
    <3>3. PICK a \in accepted, x \in Block : tip = Append(a.parent, x)
      BY <1>0, <3>1, <3>2 DEF AcceptedInv
    <3>4. a.parent \in Seq(Block)
      BY <1>0 DEF AcceptedInv, Job
    <3> QED
      BY <1>4, <1>8, <3>3, <3>4, BlockFacts
  <2>2. \A k \in r.job : k = j
    BY <1>0, <1>5 DEF ThreadInv, Single
  <2>3. ThreadInv'
    BY <1>0, <1>5, <1>6, <1>8, <2>1, <2>2, ThreadMoves
  <2> QED
    BY <1>0, <1>7, <1>8, <2>3, AcceptedStays DEF JobsInv, MinerInv
<1>9. CASE Replied(t, FALSE) /\ UNCHANGED <<tip, accepted>>
  <2>1. ThreadInv' /\ MinerInv'
    BY <1>0, <1>9, RepliedKeeps
  <2> QED
    BY <1>0, <1>7, <1>9, <2>1, AcceptedStays DEF JobsInv
<1>10. CASE /\ tip = j.parent /\ tip' = BlockOf(j, n) /\ accepted' = accepted \cup {j}
            /\ thread' = [thread EXCEPT ![t].at = "settles"] /\ UNCHANGED miner
  <2>1. Len(tip') = Len(tip) + 1 /\ Len(tip) \in Nat /\ tip' \in Seq(Block)
    BY <1>4, <1>10, BlockFacts
  <2>2. \A a \in accepted : Len(a.parent) < Len(tip) /\ Len(a.parent) \in Nat
    BY <1>0 DEF AcceptedInv, Job
  <2>3. \A a \in accepted' : Len(a.parent) < Len(tip')
    BY <1>10, <2>1, <2>2
  <2>4. \A a, b \in accepted' : a.parent = b.parent => a = b
    <3>1. \A a \in accepted : a.parent # j.parent
      BY <1>10, <2>1, <2>2
    <3> QED
      BY <1>0, <1>10, <3>1 DEF AcceptedInv
  <2>5. \E a \in accepted', x \in Block : tip' = Append(a.parent, x)
    BY <1>4, <1>10, BlockFacts
  <2>6. accepted' \subseteq Job
    BY <1>0, <1>4, <1>10 DEF AcceptedInv
  <2>7. AcceptedInv'
    BY <2>1, <2>3, <2>4, <2>5, <2>6 DEF AcceptedInv
  <2>8. \A k \in r.job : k = j
    BY <1>0, <1>5 DEF ThreadInv, Single
  <2>9. ThreadInv'
    BY <1>0, <1>5, <1>6, <1>10, <2>8, ThreadMoves
  <2> QED
    BY <1>0, <1>7, <1>10, <2>7, <2>9 DEF JobsInv, MinerInv
<1> QED
  BY <1>2, <1>8, <1>9, <1>10

(* What settle drops from the cache are jobs on a parent that has been   *)
(* accepted.                                                             *)
LEMMA SettleKeeps ==
  ASSUME JobsInv, NEW t \in Threads, Settle(t)
  PROVE  JobsInv'
<1>0. IssuedInv /\ AcceptedInv /\ CacheInv /\ ThreadInv /\ MinerInv
  BY DEF JobsInv
<1>1. PICK j \in thread[t].job : cache' = WithoutParent(cache, j.parent)
  BY DEF Settle
<1>2. UNCHANGED <<tick, tip, issued, accepted>> /\ Replied(t, TRUE) /\ thread[t].at = "settles"
  BY DEF Settle
<1>3. PICK a \in accepted : a.parent = j.parent
  BY <1>0, <1>2 DEF ThreadInv
<1>4. \A k \in issued : k.parent = j.parent => k \in Lost
  BY <1>3 DEF Lost, Outdated
<1>5. Held(cache, issued, Lost, Cardinality(issued)) /\ Len(cache) <= MaxCached /\ issued \subseteq Job
  BY <1>0 DEF CacheInv, IssuedInv
<1>6. Held(cache', issued, Lost, Cardinality(issued)) /\ Len(cache') <= Len(cache)
  BY <1>1, <1>4, <1>5, SettleHolds
<1>7. Lost' = Lost /\ Len(cache) \in Nat /\ Len(cache') \in Nat /\ MaxCached \in Nat
  BY <1>2, <1>5, <1>6, JobsAssumption DEF Lost, Outdated, Held
<1>8. CacheInv' /\ IssuedInv'
  <2>1. Len(cache') <= MaxCached
    BY <1>5, <1>6, <1>7
  <2> QED
    BY <1>0, <1>2, <1>6, <1>7, <2>1 DEF CacheInv, IssuedInv
<1>9. ThreadInv' /\ MinerInv'
  BY <1>0, <1>2, RepliedKeeps
<1> QED
  BY <1>0, <1>2, <1>8, <1>9, AcceptedStays DEF JobsInv

(* A worker fetches a batch, or is refused and exits.                    *)
LEMMA StartRoundKeeps ==
  ASSUME JobsInv, NEW m \in Miners, StartRound(m)
  PROVE  JobsInv'
<1>0. IssuedInv /\ AcceptedInv /\ CacheInv /\ ThreadInv /\ MinerInv
  BY DEF JobsInv
<1>1. UNCHANGED <<tick, tip, thread, accepted>>
  BY DEF StartRound
<1>2. CASE /\ CreateTemplates(Batch)
           /\ miner' = [miner EXCEPT ![m] = [NewRound EXCEPT !.at = "mines",
                           !.jobs = {NewJobs(Batch)[i] : i \in 1..Batch}]]
  <2> DEFINE jobs == {NewJobs(Batch)[i] : i \in 1..Batch}
             r == [NewRound EXCEPT !.at = "mines", !.jobs = jobs]
  <2>1. Batch \in Nat
    BY JobsAssumption
  <2>2. CacheInv' /\ IssuedInv' /\ jobs \subseteq Job
    BY <1>0, <1>1, <1>2, <2>1, TemplatesHold
  <2> HIDE DEF jobs
  <2>3. r \in Mining
    <3>1. NewRound \in Mining /\ <<>> \in Seq(Solution)
      BY FreshRecords
    <3> QED
      BY <2>2, <3>1 DEF Mining, NewRound
  <2>4. miner' = [miner EXCEPT ![m] = r]
    BY <1>2 DEF jobs
  <2> HIDE DEF r
  <2>5. MinerInv'
    BY <1>0, <2>3, <2>4, MinerMoves
  <2> QED
    BY <1>0, <1>1, <2>2, <2>5, AcceptedStays, ThreadStays DEF JobsInv
<1>3. CASE miner' = [miner EXCEPT ![m].at = "exited"] /\ UNCHANGED <<issued, cache>>
  <2> DEFINE r == [miner[m] EXCEPT !.at = "exited"]
  <2>1. r \in Mining /\ miner' = [miner EXCEPT ![m] = r]
    BY <1>0, <1>3 DEF Mining, MinerInv
  <2> HIDE DEF r
  <2>2. MinerInv'
    BY <1>0, <2>1, MinerMoves
  <2>3. tick' \in Nat /\ tick' >= tick
    BY <1>0, <1>1 DEF IssuedInv
  <2>4. CacheInv' /\ IssuedInv'
    BY <1>0, <1>1, <1>3, <2>3, CacheStays
  <2> QED
    BY <1>0, <1>1, <2>2, <2>4, AcceptedStays, ThreadStays DEF JobsInv
<1> QED
  BY <1>2, <1>3 DEF StartRound

(* What a worker does without the node.                                  *)
LEMMA MinesKeeps ==
  ASSUME JobsInv, NEW m \in Miners, EndRound(m) \/ \E j \in issued : Solves(m, j)
  PROVE  JobsInv'
<1>0. IssuedInv /\ AcceptedInv /\ CacheInv /\ ThreadInv /\ MinerInv
  BY DEF JobsInv
<1>1. UNCHANGED <<tick, tip, issued, cache, thread, accepted>>
  BY DEF EndRound, Solves
<1>2. miner[m] \in Mining /\ miner[m].found \in Seq(Solution)
  BY <1>0 DEF MinerInv, Mining
<1>3. MinerInv'
  <2>1. ASSUME miner[m].found # <<>>,
               miner' = [miner EXCEPT ![m].at = "joins", ![m].chosen = {Head(miner[m].found)}]
        PROVE  MinerInv'
    <3> DEFINE f == Head(miner[m].found)
               r == [miner[m] EXCEPT !.at = "joins", !.chosen = {f}]
    <3>1. f \in Solution
      BY <1>2, <2>1
    <3>2. miner' = [miner EXCEPT ![m] = r]
      BY <1>0, <2>1 DEF MinerInv
    <3> HIDE DEF f
    <3>3. r \in Mining
      BY <1>2, <3>1 DEF Mining
    <3> HIDE DEF r
    <3> QED
      BY <1>0, <3>2, <3>3, MinerMoves
  <2>2. ASSUME miner' = [miner EXCEPT ![m].at = "joins"] PROVE MinerInv'
    <3> DEFINE r == [miner[m] EXCEPT !.at = "joins"]
    <3>1. r \in Mining /\ miner' = [miner EXCEPT ![m] = r]
      BY <1>0, <1>2, <2>2 DEF Mining, MinerInv
    <3> HIDE DEF r
    <3> QED
      BY <1>0, <3>1, MinerMoves
  <2>3. ASSUME NEW j \in issued, Solves(m, j) PROVE MinerInv'
    <3>1. PICK n \in Golden :
            miner' = [miner EXCEPT ![m].found = Append(miner[m].found, [job |-> j, nonce |-> n])]
      BY <2>3 DEF Solves
    <3> DEFINE s == [job |-> j, nonce |-> n]
               more == Append(miner[m].found, s)
               r == [miner[m] EXCEPT !.found = more]
    <3>2. s \in Solution
      BY <1>0 DEF Solution, IssuedInv
    <3>3. more \in Seq(Solution)
      BY <1>2, <3>2
    <3>4. miner' = [miner EXCEPT ![m] = r]
      BY <1>0, <3>1 DEF MinerInv
    <3> HIDE DEF s, more
    <3>5. r \in Mining
      BY <1>2, <3>3 DEF Mining
    <3> HIDE DEF r
    <3> QED
      BY <1>0, <3>4, <3>5, MinerMoves
  <2> QED
    BY <2>1, <2>2, <2>3 DEF EndRound
<1>4. tick' \in Nat /\ tick' >= tick
  BY <1>0, <1>1 DEF IssuedInv
<1>5. CacheInv' /\ IssuedInv'
  BY <1>0, <1>1, <1>4, CacheStays
<1> QED
  BY <1>0, <1>1, <1>3, <1>5, AcceptedStays, ThreadStays DEF JobsInv

(* A worker that has joined its threads submits the nonce it chose, or   *)
(* begins anew.                                                          *)
LEMMA SubmitKeeps ==
  ASSUME JobsInv, NEW m \in Miners, Submit(m)
  PROVE  JobsInv'
<1>0. IssuedInv /\ AcceptedInv /\ CacheInv /\ ThreadInv /\ MinerInv
  BY DEF JobsInv
<1>1. UNCHANGED <<tick, tip, issued, accepted>>
  BY DEF Submit
<1>2. miner[m].chosen \subseteq Solution
  BY <1>0 DEF MinerInv, Mining
<1>3. /\ NewRound \in Mining /\ [NewRound EXCEPT !.at = "exited"] \in Mining
      /\ [NewRound EXCEPT !.at = "submits"] \in Mining
  <2>1. NewRound \in Mining
    BY FreshRecords
  <2> QED
    BY <2>1 DEF Mining
<1>4. ASSUME NEW f \in miner[m].chosen, NEW t \in Threads,
             LookUp(t, f.job, f.nonce, {m}) \/ LookUpFails(t, f.job)
      PROVE  IssuedInv' /\ CacheInv' /\ ThreadInv'
  <2>1. f.job \in Job /\ f.nonce \in Golden /\ {m} \in SUBSET Miners
    BY <1>2 DEF Solution
  <2> QED
    BY <1>0, <1>1, <1>4, <2>1, LookUpKeeps
<1>5. ASSUME UNCHANGED <<cache, thread>> PROVE IssuedInv' /\ CacheInv' /\ ThreadInv'
  <2>1. tick' \in Nat /\ tick' >= tick
    BY <1>0, <1>1 DEF IssuedInv
  <2> QED
    BY <1>0, <1>1, <1>5, <2>1, CacheStays, ThreadStays
<1>6. IssuedInv' /\ CacheInv' /\ ThreadInv'
  BY <1>4, <1>5 DEF Submit
<1>7. MinerInv'
  <2>1. \E r \in {NewRound, [NewRound EXCEPT !.at = "exited"], [NewRound EXCEPT !.at = "submits"]} :
          miner' = [miner EXCEPT ![m] = r]
    BY DEF Submit
  <2> QED
    BY <1>0, <1>3, <2>1, MinerMoves
<1> QED
  BY <1>0, <1>1, <1>6, <1>7, AcceptedStays DEF JobsInv

(* Every step of the service and of its clients keeps the invariant.     *)
LEMMA JobsStep == JobsInv /\ [JobsNext]_jobsVars => JobsInv'
<1> SUFFICES ASSUME JobsInv, [JobsNext]_jobsVars PROVE JobsInv'
  OBVIOUS
<1>0. IssuedInv /\ AcceptedInv /\ CacheInv /\ ThreadInv /\ MinerInv
  BY DEF JobsInv
<1>1. CASE JobsNext
  BY <1>1, StrangerSteps, ChainMovesKeeps, VerifyKeeps, ConnectKeeps, SettleKeeps, StartRoundKeeps,
     MinesKeeps, SubmitKeeps DEF JobsNext
<1>2. CASE UNCHANGED jobsVars
  <2>1. UNCHANGED <<tick, tip, issued, cache, thread, miner, accepted>>
    BY <1>2 DEF jobsVars
  <2>2. tick' \in Nat /\ tick' >= tick
    BY <1>0, <2>1 DEF IssuedInv
  <2>3. CacheInv' /\ IssuedInv'
    BY <1>0, <2>1, <2>2, CacheStays
  <2> QED
    BY <1>0, <2>1, <2>3, AcceptedStays, ThreadStays DEF JobsInv, MinerInv
<1> QED
  BY <1>1, <1>2

(* However requests, workers and the chain interleave, and for any       *)
(* cache, batch and number of threads: a job that was handed out stays   *)
(* in the cache until it expires, is settled, or at least MaxCached - 1  *)
(* younger ones push it out; the cache keeps its limit; and two jobs on  *)
(* one parent are never both accepted (rpc.rs, JobCache,                 *)
(* create_templates, submit_block).                                      *)
THEOREM JobsAlwaysHonoured == JobsSpec => []JobsHonoured
<1>1. JobsInv => JobsHonoured
  <2> SUFFICES ASSUME JobsInv PROVE JobsHonoured
    OBVIOUS
  <2>1. IssuedInv /\ AcceptedInv /\ CacheInv
    BY DEF JobsInv
  <2>2. \A j \in issued : Younger(j) = YoungerIn(issued, j)
    BY DEF Younger, YoungerIn
  <2>3. \A j \in issued :
          InCache(cache, j) \/ Outdated(j) \/ Cardinality(Younger(j)) >= MaxCached - 1
    BY <2>1, <2>2 DEF CacheInv, Held, IssuedInv, Lost
  <2> QED
    BY <2>1, <2>3 DEF JobsHonoured, CacheInv, AcceptedInv
<1> QED
  BY <1>1, JobsStart, JobsStep, PTL DEF JobsSpec


-----------------------------------------------------------------------------
(* Outbox *)

Record == [tx : Payments, created : Nat]
Hand == [doing : {"nothing", "sends", "remembers", "publishes", "reconciles"},
         copy : Seq(Record), blocks : Seq(SUBSET Payments),
         mempool : SUBSET Payments, tx : SUBSET Payments]

(* A file, or a copy of it: within its limit, no payment twice.            *)
Listed(file) ==
  /\ file \in Seq(Record) /\ Len(file) <= MaxRecords
  /\ \A i, k \in 1..Len(file) : file[i].tx = file[k].tx => i = k

OutboxInv ==
  /\ clock \in Nat /\ waiting \subseteq Payments /\ ledger \in Seq(SUBSET Payments)
  /\ hand \in [Workers -> Hand]
  /\ Listed(outbox)
  /\ \A w \in Workers : Listed(hand[w].copy)

KeepUnsent(c, s, r) == IF r.tx # c THEN Append(s, r) ELSE s
KeepPending(c, s, r) == IF Kept(r, c[1], c[2], c[3]) THEN Append(s, r) ELSE s
UnsentFold == INSTANCE FoldFacts WITH Op <- KeepUnsent, Inv <- Never
PendingFold == INSTANCE FoldFacts WITH Op <- KeepPending, Inv <- Never

(* A file has a record for each of its payments.                           *)
LEMMA TxsCounted ==
  ASSUME NEW file, Listed(file)
  PROVE  Len(file) = Cardinality(TxsOf(file))
<1> DEFINE n == Len(file)
           S == TxsOf(file)
           f == [i \in 1..n |-> file[i].tx]
<1>1. n \in Nat /\ DOMAIN file = 1..n
  BY DEF Listed
<1>2. S = {f[i] : i \in 1..n}
  BY <1>1 DEF TxsOf
<1>3. \A i, k \in 1..n : f[i] = f[k] => i = k
  BY DEF Listed
<1>4. f \in [1..n -> S] /\ \A x \in S : \E i \in 1..n : f[i] = x
  BY <1>2
<1>5. f \in Bijection(1..n, S)
  <2> HIDE DEF n, S
  <2> QED
    BY <1>3, <1>4 DEF Bijection, Injection, Surjection, IsInjective
<1>6. ExistsBijection(1..n, S)
  <2> HIDE DEF n, S, f
  <2> QED
    BY <1>5 DEF ExistsBijection
<1> HIDE DEF n, S
<1>7. Cardinality(S) = n
  BY <1>1, <1>6, FS_CountingElements
<1> QED
  BY <1>7 DEF n, S

(* What is picked out of a file is a file.                                 *)
LEMMA PickedListed ==
  ASSUME NEW s, Listed(s), NEW T, NEW r, LiveFold!Picked(s, Len(s), T, r)
  PROVE  /\ Listed(r) /\ Len(r) <= Len(s)
         /\ \A i \in 1..Len(s) : s[i] \in T => s[i] \in Range(r)
<1>1. r \in Seq(T) /\ Len(r) \in Nat /\ Len(r) <= Len(s) /\ Len(s) \in Nat /\ DOMAIN s = 1..Len(s)
      /\ DOMAIN r = 1..Len(r)
  BY DEF LiveFold!Picked, Listed
<1>2. PICK e \in [1..Len(r) -> 1..Len(s)] : /\ \A j \in 1..Len(r) : r[j] = s[e[j]]
                                  /\ \A i, j \in 1..Len(r) : i < j => e[i] < e[j]
  BY DEF LiveFold!Picked
<1>3. \A j \in 1..Len(r) : e[j] \in 1..Len(s) /\ r[j] \in Record
  BY <1>2 DEF Listed
<1>4. r \in Seq(Record)
  BY <1>1, <1>3
<1>5. \A i, k \in 1..Len(r) : r[i].tx = r[k].tx => i = k
  <2> SUFFICES ASSUME NEW i \in 1..Len(r), NEW k \in 1..Len(r), r[i].tx = r[k].tx, i < k
               PROVE  FALSE
    BY <1>1
  <2>1. e[i] < e[k] /\ e[i] = e[k]
    BY <1>2, <1>3 DEF Listed
  <2> QED
    BY <1>3, <2>1
<1>6. \A i \in 1..Len(s) : s[i] \in T => s[i] \in Range(r)
  BY <1>1 DEF LiveFold!Picked, Range
<1>7. Len(r) <= MaxRecords
  BY <1>1, OutboxAssumption DEF Listed
<1> QED
  BY <1>1, <1>4, <1>5, <1>6, <1>7 DEF Listed

(* All of a list picked in order: the first stays the first.             *)
LEMMA AllPicked ==
  ASSUME NEW n \in Nat \ {0}, NEW e \in [1..n -> 1..n], \A i, j \in 1..n : i < j => e[i] < e[j]
  PROVE  e[1] = 1
<1> DEFINE P == {k \in 0..(n - 1) : e[n - k] <= n - k}
<1>1. 0 \in P
  BY Zenon, SMT
<1>2. ASSUME NEW k \in 0..(n - 1), k < n - 1, k \in P PROVE k + 1 \in P
  <2>1. n - k \in 1..n /\ n - (k + 1) \in 1..n /\ n - (k + 1) < n - k
    BY <1>2
  <2>2. e[n - (k + 1)] < e[n - k] /\ e[n - k] <= n - k
    BY <1>2, <2>1
  <2> QED
    BY <1>2, <2>1, <2>2
<1>3. n - 1 \in Nat
  OBVIOUS
<1>4. 0..(n - 1) \subseteq P
  <2> HIDE DEF P
  <2> QED
    BY <1>1, <1>2, <1>3, LiveFold!Induction
<1>5. n - 1 \in P
  BY <1>4, SMTT(60)
<1> QED
  BY <1>5

(* remember_pending_tx forgets the payment's old record, and the oldest  *)
(* when the list is full; what it writes is a file again.                *)
LEMMA RememberedFacts ==
  ASSUME NEW s, Listed(s), NEW p \in Payments, NEW now \in Nat
  PROVE  /\ Listed(Remembered(s, p, now))
         /\ \A r \in Range(s) : r \notin Range(Remembered(s, p, now)) =>
              r.tx = p \/ (r = Head(s) /\ Len(s) = MaxRecords)
<1> DEFINE T == {r \in Record : r.tx # p}
           others == UnsentFold!Fold(p, <<>>, s)
           new == [tx |-> p, created |-> now]
           all == Append(others, new)
           over == Max({0, Len(all) - MaxRecords})
           q == SubSeq(all, 1 + over, Len(all))
<1>0. MaxRecords \in Nat \ {0}
  BY OutboxAssumption
<1>1. s \in Seq(Record) /\ Len(s) \in Nat /\ Len(s) <= MaxRecords /\ DOMAIN s = 1..Len(s)
      /\ \A i \in 1..Len(s) : s[i] \in Record
  BY DEF Listed
<1>2. \A i \in 1..Len(s) : \A x : KeepUnsent(p, x, s[i]) = IF s[i] \in T THEN Append(x, s[i]) ELSE x
  BY <1>1 DEF KeepUnsent
<1>3. UnsentFold!Picked(s, Len(s), T, others)
  <2> HIDE DEF T
  <2> QED
    BY <1>1, <1>2, UnsentFold!FilterFacts
<1>4. Remembered(s, p, now) = q
  <2>1. Where(s, LAMBDA r : r.tx # p) = others
    BY Zenon DEF Where, KeepUnsent, Folded,
      UnsentFold!Fold, UnsentFold!Table
  <2> HIDE DEF others
  <2> QED
    BY <2>1, Zenon DEF Remembered
<1> HIDE DEF others
<1>5. LiveFold!Picked(s, Len(s), T, others)
  BY <1>3 DEF LiveFold!Picked, UnsentFold!Picked
<1>6. /\ Listed(others) /\ Len(others) <= Len(s) /\ others \in Seq(T) /\ Len(others) \in Nat
      /\ \A i \in 1..Len(s) : s[i] \in T => s[i] \in Range(others)
  <2>1. others \in Seq(T)
    BY <1>5 DEF LiveFold!Picked
  <2> HIDE DEF T
  <2> QED
    BY <1>5, <2>1, PickedListed
<1>7. new \in Record /\ new.tx = p
  BY DEF Record
<1> HIDE DEF new
<1>8. /\ all \in Seq(Record) /\ Len(all) = Len(others) + 1 /\ all[Len(all)] = new
      /\ \A i \in 1..Len(others) : all[i] = others[i]
  BY <1>6, <1>7 DEF Listed
<1> HIDE DEF all
<1>9. over \in {0, 1} /\ (over = 1 => Len(others) = MaxRecords) /\ Len(all) - over <= MaxRecords
      /\ Len(all) - over \in Nat
  <2> DEFINE m == Len(all) - MaxRecords
  <2>1. m \in Int /\ m <= 1
    BY <1>0, <1>1, <1>6, <1>8
  <2>2. \E x \in {0, m} : \A y \in {0, m} : x >= y
    BY <2>1
  <2>3. over \in {0, m} /\ \A y \in {0, m} : over >= y
    <3> HIDE DEF m
    <3> QED
      BY <2>2, Zenon DEF Max, m
  <2> QED
    BY <1>0, <1>1, <1>6, <1>8, <2>1, <2>3
<1> HIDE DEF over
<1>10. /\ q \in Seq(Record) /\ Len(q) = Len(all) - over
       /\ \A k \in 1..Len(q) : k + over \in 1..Len(all) /\ q[k] = all[k + over]
  <2> DEFINE n == Len(all) - over
  <2>1. n \in Nat /\ over \in Nat /\ Len(all) = n + over
    BY <1>8, <1>9, <1>6
  <2> HIDE DEF n
  <2> QED
    BY <1>8, <2>1, SuffixFacts
<1> HIDE DEF q
<1>11. \A i, k \in 1..Len(all) : all[i].tx = all[k].tx => i = k
  <2>1. \A i \in 1..Len(others) : others[i].tx # p
    BY <1>6
  <2>2. \A i, k \in 1..Len(others) : others[i].tx = others[k].tx => i = k
    BY <1>6 DEF Listed
  <2>3. \A i \in 1..Len(all) : i \in 1..Len(others) \/ i = Len(all)
    BY <1>6, <1>8
  <2> QED
    BY <1>7, <1>8, <2>1, <2>2, <2>3
<1>12. Listed(q)
  <2>1. \A i, k \in 1..Len(q) : q[i].tx = q[k].tx => i = k
    BY <1>8, <1>9, <1>10, <1>11
  <2> QED
    BY <1>9, <1>10, <2>1 DEF Listed
<1>13. ASSUME NEW r \in Range(s), r \notin Range(q), r.tx # p
       PROVE  r = Head(s) /\ Len(s) = MaxRecords
  <2>1. PICK h \in 1..Len(s) : s[h] = r
    BY <1>1, <1>13 DEF Range
  <2>2. r \in T
    BY <1>1, <1>13, <2>1
  <2>3. PICK i \in 1..Len(others) : others[i] = r
    BY <1>6, <2>1, <2>2 DEF Range
  <2>4. i <= over
    <3> SUFFICES ASSUME i > over PROVE FALSE
      BY <1>9
    <3>1. i - over \in 1..Len(q) /\ (i - over) + over = i
      BY <1>6, <1>8, <1>9, <1>10
    <3>2. q[i - over] = r
      BY <1>8, <1>10, <2>3, <3>1
    <3> QED
      BY <1>10, <1>13, <3>1, <3>2 DEF Range
  <2>5. i = 1 /\ Len(others) = MaxRecords /\ Len(s) = Len(others)
    BY <1>0, <1>1, <1>6, <1>9, <2>4
  <2>6. PICK e \in [1..Len(s) -> 1..Len(s)] : /\ \A j \in 1..Len(s) : others[j] = s[e[j]]
                                              /\ \A j, k \in 1..Len(s) : j < k => e[j] < e[k]
    BY <1>5, <2>5 DEF LiveFold!Picked
  <2>7. e[1] = 1
    <3>1. Len(s) \in Nat \ {0}
      BY <1>0, <2>5
    <3> QED
      BY <2>6, <3>1, AllPicked
  <2>8. r = s[1]
    BY <1>0, <2>3, <2>5, <2>6, <2>7
  <2> QED
    BY <1>0, <1>1, <2>5, <2>8
<1> QED
  BY <1>4, <1>12, <1>13

(* A payment that is not confirmed once is in no block                   *)
(* (tx_confirmations).                                                   *)
LEMMA ConfirmationFacts ==
  ASSUME NEW blocks \in Seq(SUBSET Payments), NEW p, ~(TxConfirmations(blocks, p) > 0)
  PROVE  p \notin UNION Range(blocks)
<1> DEFINE heights == {h \in DOMAIN blocks : p \in blocks[h]}
<1>1. DOMAIN blocks = 1..Len(blocks) /\ Len(blocks) \in Nat
  OBVIOUS
<1>2. ASSUME heights # {} PROVE FALSE
  <2>1. heights \subseteq Nat
    BY <1>1
  <2>2. PICK x \in heights : \A y \in heights : x <= y
    <3> HIDE DEF heights
    <3> QED
      BY <1>2, <2>1, LiveFold!LeastElement
  <2>3. Min(heights) \in heights
    <3> HIDE DEF heights
    <3> QED
      BY <2>2, Zenon DEF Min
  <2>4. Len(blocks) - Min(heights) + 1 > 0
    <3>1. Min(heights) \in 1..Len(blocks)
      BY <1>1, <2>3
    <3> HIDE DEF heights
    <3> QED
      BY <1>1, <3>1
  <2> QED
    BY <1>2, <2>4 DEF TxConfirmations
<1> QED
  BY <1>1, <1>2 DEF Range

(* reconcile_pending_txs forgets what Kept does not keep, and nothing    *)
(* else.                                                                 *)
LEMMA ReconciledFacts ==
  ASSUME NEW s, Listed(s), NEW blocks, NEW mempool, NEW now
  PROVE  /\ Listed(Reconciled(s, blocks, mempool, now))
         /\ \A r \in Range(s) : r \notin Range(Reconciled(s, blocks, mempool, now)) =>
              ~Kept(r, blocks, mempool, now)
<1> DEFINE T == {r \in Record : Kept(r, blocks, mempool, now)}
           c == <<blocks, mempool, now>>
           q == PendingFold!Fold(c, <<>>, s)
<1>1. s \in Seq(Record) /\ Len(s) \in Nat /\ DOMAIN s = 1..Len(s)
      /\ \A i \in 1..Len(s) : s[i] \in Record
  BY DEF Listed
<1>2. \A i \in 1..Len(s) : \A x : KeepPending(c, x, s[i]) = IF s[i] \in T THEN Append(x, s[i]) ELSE x
  BY <1>1 DEF KeepPending
<1>3. Reconciled(s, blocks, mempool, now) = q
  <2>1. c[1] = blocks /\ c[2] = mempool /\ c[3] = now
    OBVIOUS
  <2> HIDE DEF c
  <2>2. Reconciled(s, c[1], c[2], c[3]) = q
    BY Zenon DEF Reconciled, Where, KeepPending, Folded,
      PendingFold!Fold, PendingFold!Table
  <2> HIDE DEF q
  <2> QED
    BY <2>1, <2>2
<1>4. PendingFold!Picked(s, Len(s), T, q)
  <2> HIDE DEF T, c
  <2> QED
    BY <1>1, <1>2, PendingFold!FilterFacts
<1> HIDE DEF q
<1>5. LiveFold!Picked(s, Len(s), T, q)
  <2> HIDE DEF T
  <2> QED
    BY <1>4 DEF LiveFold!Picked, PendingFold!Picked
<1>6. Listed(q) /\ \A i \in 1..Len(s) : s[i] \in T => s[i] \in Range(q)
  <2> HIDE DEF T
  <2> QED
    BY <1>5, PickedListed
<1>7. ASSUME NEW r \in Range(s), r \notin Range(q) PROVE ~Kept(r, blocks, mempool, now)
  <2>1. PICK i \in 1..Len(s) : s[i] = r
    BY <1>1 DEF Range
  <2>2. r \in Record
    BY <1>1, <2>1
  <2> QED
    BY <1>6, <1>7, <2>1, <2>2
<1> QED
  BY <1>3, <1>6, <1>7

(* An empty file is a file.                                              *)
LEMMA OutboxStart == OutboxInit => OutboxInv
<1> SUFFICES ASSUME OutboxInit PROVE OutboxInv
  OBVIOUS
<1>1. Listed(<<>>)
  BY OutboxAssumption DEF Listed
<1>2. AtRest \in Hand /\ AtRest.copy = <<>>
  BY DEF AtRest, Hand
<1> QED
  BY <1>1, <1>2 DEF OutboxInit, OutboxInv

(* A worker goes on, with a file for a copy.                             *)
LEMMA HandMoves ==
  ASSUME hand \in [Workers -> Hand], \A w \in Workers : Listed(hand[w].copy),
         NEW w \in Workers, NEW r \in Hand, Listed(r.copy), hand' = [hand EXCEPT ![w] = r]
  PROVE  hand' \in [Workers -> Hand] /\ \A v \in Workers : Listed(hand'[v].copy)
<1>1. ASSUME NEW v \in Workers PROVE hand'[v] \in Hand /\ Listed(hand'[v].copy)
  BY Zenon
<1> QED
  BY <1>1

(* A worker that rests has an empty copy.                                *)
LEMMA RestFacts == AtRest \in Hand /\ Listed(AtRest.copy)
BY OutboxAssumption DEF AtRest, Hand, Listed

(* What a worker loads is a file.                                          *)
LEMMA LoadFacts ==
  ASSUME Listed(outbox), NEW copy \in Loads
  PROVE  Listed(copy) /\ copy \in Seq(Record)
<1>1. CASE copy = <<>>
  BY <1>1, OutboxAssumption DEF Listed
<1>2. CASE copy = outbox
  BY <1>2 DEF Listed
<1> QED
  BY <1>1, <1>2 DEF Loads

(* Only recorded payments are offered to the mempool again.                *)
LEMMA OfferedFacts ==
  ASSUME NEW s, Listed(s), NEW blocks, NEW mempool, NEW now
  PROVE  Offered(s, blocks, mempool, now) \subseteq Payments
<1>1. s \in Seq(Record)
  BY DEF Listed
<1>2. ASSUME NEW i \in DOMAIN s PROVE s[i].tx \in Payments
  <2>1. s[i] \in Record
    BY <1>1
  <2> QED
    BY <2>1 DEF Record
<1> QED
  BY <1>2, Zenon DEF Offered

(* The steps that leave the file alone.                                    *)
LEMMA FileStays ==
  ASSUME OutboxInv, outbox' = outbox,
         \/ BlockArrives \/ ChainReorganises \/ TimePasses
         \/ \E w \in Senders :
              \/ \E p \in Payments : Send(w, p)
              \/ LoadToRemember(w) \/ RememberFails(w) \/ Publish(w)
         \/ \E w \in Workers : LoadToReconcile(w) \/ ReconcileFails(w)
  PROVE  OutboxInv'
<1>0. /\ clock \in Nat /\ waiting \subseteq Payments /\ ledger \in Seq(SUBSET Payments)
      /\ hand \in [Workers -> Hand] /\ Listed(outbox)
      /\ \A w \in Workers : hand[w] \in Hand /\ Listed(hand[w].copy)
  BY DEF OutboxInv
<1>1. CASE BlockArrives
  <2>1. PICK S \in SUBSET Payments : ledger' = Append(ledger, S) /\ waiting' = waiting \ S
    BY <1>1 DEF BlockArrives
  <2> QED
    BY <1>0, <1>1, <2>1 DEF BlockArrives, OutboxInv
<1>2. CASE ChainReorganises
  <2>1. PICK first \in SUBSET Payments, admitted \in SUBSET Payments :
          ledger # <<>> /\ ledger' = Append(Front(ledger) \o <<first>>, {}) /\ waiting' = admitted
    BY <1>2 DEF ChainReorganises
  <2>2. Front(ledger) \in Seq(SUBSET Payments)
    BY <1>0, <2>1, Zenon, SMT DEF Front
  <2>3. ledger' \in Seq(SUBSET Payments)
    <3> DEFINE front == Front(ledger)
    <3>1. front \in Seq(SUBSET Payments) /\ {} \in SUBSET Payments
      BY <2>2
    <3> HIDE DEF front
    <3> QED
      BY <2>1, <3>1 DEF front
  <2> QED
    BY <1>0, <1>2, <2>1, <2>3 DEF ChainReorganises, OutboxInv
<1>3. CASE TimePasses
  BY <1>0, <1>3 DEF TimePasses, OutboxInv
<1>4. ASSUME UNCHANGED <<ledger, clock>>, waiting' \subseteq Payments,
             NEW w \in Workers, NEW r \in Hand, Listed(r.copy), hand' = [hand EXCEPT ![w] = r]
      PROVE  OutboxInv'
  <2>1. hand' \in [Workers -> Hand] /\ \A v \in Workers : Listed(hand'[v].copy)
    BY <1>0, <1>4, HandMoves
  <2> QED
    BY <1>0, <1>4, <2>1 DEF OutboxInv
<1>5. ASSUME NEW w \in Senders, NEW p \in Payments, Send(w, p) PROVE OutboxInv'
  <2> DEFINE r == [AtRest EXCEPT !.doing = "sends", !.tx = {p},
                                 !.blocks = ledger, !.mempool = waiting \cup {p}]
  <2>1. r \in Hand /\ r.copy = AtRest.copy
    BY <1>0, RestFacts DEF Hand
  <2>2. hand' = [hand EXCEPT ![w] = r] /\ w \in Workers
    BY <1>5 DEF Send, Workers
  <2> HIDE DEF r
  <2> QED
    BY <1>0, <1>4, <1>5, <2>1, <2>2, RestFacts DEF Send
<1>6. ASSUME NEW w \in Senders, LoadToRemember(w) PROVE OutboxInv'
  <2>1. PICK copy \in Loads : hand' = [hand EXCEPT ![w].doing = "remembers", ![w].copy = copy]
    BY <1>6 DEF LoadToRemember
  <2> DEFINE r == [hand[w] EXCEPT !.doing = "remembers", !.copy = copy]
  <2>2. Listed(copy) /\ copy \in Seq(Record)
    BY <1>0, <2>1, LoadFacts
  <2>3. w \in Workers
    BY DEF Workers
  <2>4. r \in Hand /\ r.copy = copy /\ hand' = [hand EXCEPT ![w] = r]
    BY <1>0, <2>1, <2>2, <2>3 DEF Hand
  <2> HIDE DEF r
  <2> QED
    BY <1>0, <1>4, <1>6, <2>2, <2>3, <2>4 DEF LoadToRemember
<1>7. ASSUME NEW w \in Senders, RememberFails(w) PROVE OutboxInv'
  <2> DEFINE r == [hand[w] EXCEPT !.doing = "publishes"]
  <2>1. w \in Workers
    BY DEF Workers
  <2>2. r \in Hand /\ r.copy = hand[w].copy
    BY <1>0, <2>1 DEF Hand
  <2>3. hand' = [hand EXCEPT ![w] = AtRest] \/ hand' = [hand EXCEPT ![w] = r]
    BY <1>7 DEF RememberFails
  <2> HIDE DEF r
  <2> QED
    BY <1>0, <1>4, <1>7, <2>1, <2>2, <2>3, RestFacts DEF RememberFails
<1>8. ASSUME NEW w \in Senders, Publish(w) PROVE OutboxInv'
  <2>1. w \in Workers
    BY DEF Workers
  <2>2. hand[w].tx \subseteq Payments
    BY <1>0, <2>1 DEF Hand
  <2> QED
    BY <1>0, <1>4, <1>8, <2>1, <2>2, RestFacts DEF Publish
<1>9. ASSUME NEW w \in Workers, LoadToReconcile(w) PROVE OutboxInv'
  <2>1. PICK copy \in Loads : hand' = [hand EXCEPT ![w] =
          [AtRest EXCEPT !.doing = "reconciles", !.copy = copy, !.blocks = ledger, !.mempool = waiting]]
    BY <1>9 DEF LoadToReconcile
  <2> DEFINE r == [AtRest EXCEPT !.doing = "reconciles", !.copy = copy,
                                 !.blocks = ledger, !.mempool = waiting]
  <2>2. Listed(copy) /\ copy \in Seq(Record)
    BY <1>0, <2>1, LoadFacts
  <2>3. r \in Hand /\ r.copy = copy /\ hand' = [hand EXCEPT ![w] = r]
    BY <1>0, <2>1, <2>2, RestFacts DEF Hand
  <2> HIDE DEF r
  <2> QED
    BY <1>0, <1>4, <1>9, <2>2, <2>3 DEF LoadToReconcile
<1>10. ASSUME NEW w \in Workers, ReconcileFails(w) PROVE OutboxInv'
  <2>1. waiting' \subseteq Payments
    <3>1. Offered(hand[w].copy, hand[w].blocks, hand[w].mempool, clock) \subseteq Payments
      BY <1>0, OfferedFacts
    <3> QED
      BY <1>0, <1>10, <3>1 DEF ReconcileFails
  <2> QED
    BY <1>0, <1>4, <1>10, <2>1, RestFacts DEF ReconcileFails
<1> QED
  BY <1>1, <1>2, <1>3, <1>5, <1>6, <1>7, <1>8, <1>9, <1>10

(* remember_pending_tx saves: what the old file had and the new one has  *)
(* not was replaced, the oldest of a full list, or never in the copy.    *)
LEMMA SaveRememberedKeeps ==
  ASSUME OutboxInv, NEW w \in Senders, SaveRemembered(w)
  PROVE  /\ OutboxInv'
         /\ \A r \in Range(outbox) : r \notin Range(outbox') =>
              hand'[w] # hand[w] /\ Forgettable(r, w)
<1> DEFINE r == [hand[w] EXCEPT !.doing = "publishes"]
<1>1. /\ w \in Workers /\ hand \in [Workers -> Hand] /\ hand[w] \in Hand /\ Listed(hand[w].copy)
      /\ clock \in Nat /\ \A v \in Workers : Listed(hand[v].copy)
  BY DEF OutboxInv, Workers
<1>2. PICK p \in hand[w].tx : outbox' = Remembered(hand[w].copy, p, clock)
  BY DEF SaveRemembered
<1>3. p \in Payments
  BY <1>1 DEF Hand
<1>4. /\ Listed(outbox')
      /\ \A x \in Range(hand[w].copy) : x \notin Range(outbox') =>
           x.tx = p \/ (x = Head(hand[w].copy) /\ Len(hand[w].copy) = MaxRecords)
  BY <1>1, <1>2, <1>3, RememberedFacts
<1>5. r \in Hand /\ r.copy = hand[w].copy /\ r.doing = "publishes" /\ hand' = [hand EXCEPT ![w] = r]
  BY <1>1 DEF Hand, SaveRemembered
<1> HIDE DEF r
<1>6. hand' \in [Workers -> Hand] /\ \A v \in Workers : Listed(hand'[v].copy)
  BY <1>1, <1>5, HandMoves
<1>7. OutboxInv'
  BY <1>4, <1>6 DEF OutboxInv, SaveRemembered
<1>8. hand'[w] # hand[w] /\ hand[w].doing = "remembers"
  BY <1>1, <1>5 DEF SaveRemembered
<1> QED
  BY <1>2, <1>4, <1>7, <1>8 DEF Forgettable

(* reconcile_pending_txs saves: what is missing now was buried in the    *)
(* chain it saw, or was in neither block nor mempool of it and too old,  *)
(* or never in the copy.                                                 *)
LEMMA SaveReconciledKeeps ==
  ASSUME OutboxInv, NEW w \in Workers, SaveReconciled(w)
  PROVE  /\ OutboxInv'
         /\ \A r \in Range(outbox) : r \notin Range(outbox') =>
              hand'[w] # hand[w] /\ Forgettable(r, w)
<1> DEFINE h == hand[w]
<1>1. /\ hand \in [Workers -> Hand] /\ h \in Hand /\ Listed(h.copy) /\ clock \in Nat
      /\ waiting \subseteq Payments /\ \A v \in Workers : Listed(hand[v].copy)
  BY DEF OutboxInv
<1>2. PICK back \in SUBSET Offered(h.copy, h.blocks, h.mempool, clock) :
        /\ outbox' = Reconciled(h.copy, h.blocks, h.mempool, clock)
        /\ \/ waiting' = waiting \cup back /\ hand' = [hand EXCEPT ![w] = AtRest]
           \/ /\ hand' = [hand EXCEPT ![w] =
                            IF back = {} THEN AtRest
                            ELSE [AtRest EXCEPT !.doing = "publishes", !.tx = back]]
              /\ waiting' = waiting
  BY DEF SaveReconciled
<1>3. back \subseteq Payments
  BY <1>1, OfferedFacts
<1>4. h.doing = "reconciles" /\ UNCHANGED <<ledger, clock>>
  BY DEF SaveReconciled
<1>5. /\ Listed(outbox')
      /\ \A x \in Range(h.copy) : x \notin Range(outbox') => ~Kept(x, h.blocks, h.mempool, clock)
  BY <1>1, <1>2, ReconciledFacts
<1>6. PICK r \in Hand : /\ r.copy = AtRest.copy /\ r.doing # "reconciles"
                        /\ hand' = [hand EXCEPT ![w] = r]
  <2> DEFINE u == [AtRest EXCEPT !.doing = "publishes", !.tx = back]
  <2>1. u \in Hand /\ u.copy = AtRest.copy /\ u.doing = "publishes"
    BY <1>3, RestFacts DEF Hand
  <2>2. AtRest.doing = "nothing"
    BY DEF AtRest
  <2>3. hand' = [hand EXCEPT ![w] = AtRest] \/ hand' = [hand EXCEPT ![w] = u]
    BY <1>2
  <2> HIDE DEF u
  <2> QED
    BY <2>1, <2>2, <2>3, RestFacts
<1>7. hand' \in [Workers -> Hand] /\ \A v \in Workers : Listed(hand'[v].copy)
  BY <1>1, <1>6, RestFacts, HandMoves
<1>8. OutboxInv'
  BY <1>1, <1>2, <1>3, <1>4, <1>5, <1>7 DEF OutboxInv
<1>9. hand'[w] # hand[w]
  BY <1>1, <1>4, <1>6
<1>10. ASSUME NEW x \in Range(h.copy), x \notin Range(outbox') PROVE Forgettable(x, w)
  <2>1. ~Kept(x, h.blocks, h.mempool, clock)
    BY <1>5, <1>10
  <2>2. x \in Record
    BY <1>1 DEF Range, Listed
  <2>3. CASE TxConfirmations(h.blocks, x.tx) > 0
    BY <1>4, <2>1, <2>3 DEF Kept, Confirmed, Forgettable
  <2>4. CASE ~(TxConfirmations(h.blocks, x.tx) > 0)
    <3>1. x.tx \notin UNION Range(h.blocks)
      <4>1. h.blocks \in Seq(SUBSET Payments)
        BY <1>1 DEF Hand
      <4> QED
        BY <2>4, <4>1, ConfirmationFacts
    <3>2. x.tx \notin h.mempool /\ ~(clock - x.created <= MaxAge)
      BY <2>1, <2>4 DEF Kept
    <3>3. clock > x.created + MaxAge
      <4>1. clock \in Nat /\ x.created \in Nat /\ MaxAge \in Nat
        BY <1>1, <2>2, OutboxAssumption DEF Record
      <4> QED
        BY <3>2, <4>1
    <3> QED
      BY <1>4, <3>1, <3>2, <3>3 DEF Forgettable
  <2> QED
    BY <2>3, <2>4
<1>11. ASSUME NEW x, x \notin Range(h.copy) PROVE Forgettable(x, w)
  BY <1>11 DEF Forgettable
<1> QED
  BY <1>8, <1>9, <1>10, <1>11

(* Every step keeps the invariant and forgets only with a reason.        *)
LEMMA OutboxStep ==
  ASSUME OutboxInv, [OutboxNext]_outboxVars
  PROVE  /\ OutboxInv'
         /\ \A r \in Range(outbox) : r \notin Range(outbox') =>
              \E w \in Workers : hand'[w] # hand[w] /\ Forgettable(r, w)
<1>1. CASE /\ outbox' = outbox
           /\ \/ BlockArrives \/ ChainReorganises \/ TimePasses
              \/ \E w \in Senders :
                   \/ \E p \in Payments : Send(w, p)
                   \/ LoadToRemember(w) \/ RememberFails(w) \/ Publish(w)
              \/ \E w \in Workers : LoadToReconcile(w) \/ ReconcileFails(w)
  BY <1>1, FileStays
<1>2. ASSUME NEW w \in Senders, SaveRemembered(w)
      PROVE  /\ OutboxInv'
             /\ \A r \in Range(outbox) : r \notin Range(outbox') =>
                  \E v \in Workers : hand'[v] # hand[v] /\ Forgettable(r, v)
  <2>1. w \in Workers
    BY DEF Workers
  <2> QED
    BY <1>2, <2>1, SaveRememberedKeeps
<1>3. ASSUME NEW w \in Workers, SaveReconciled(w)
      PROVE  /\ OutboxInv'
             /\ \A r \in Range(outbox) : r \notin Range(outbox') =>
                  \E v \in Workers : hand'[v] # hand[v] /\ Forgettable(r, v)
  BY <1>3, SaveReconciledKeeps
<1>4. CASE UNCHANGED outboxVars
  BY <1>4 DEF outboxVars, OutboxInv
<1>5. OutboxNext => \/ /\ outbox' = outbox
                       /\ \/ BlockArrives \/ ChainReorganises \/ TimePasses
                          \/ \E w \in Senders :
                               \/ \E p \in Payments : Send(w, p)
                               \/ LoadToRemember(w) \/ RememberFails(w) \/ Publish(w)
                          \/ \E w \in Workers : LoadToReconcile(w) \/ ReconcileFails(w)
                    \/ \E w \in Senders : SaveRemembered(w)
                    \/ \E w \in Workers : SaveReconciled(w)
  <2>1. BlockArrives \/ ChainReorganises \/ TimePasses => outbox' = outbox
    BY DEF BlockArrives, ChainReorganises, TimePasses
  <2>2. \A w : (\E p \in Payments : Send(w, p)) \/ LoadToRemember(w) \/ RememberFails(w) \/ Publish(w)
                  \/ LoadToReconcile(w) \/ ReconcileFails(w) => outbox' = outbox
    BY DEF Send, LoadToRemember, RememberFails, Publish, LoadToReconcile, ReconcileFails
  <2> QED
    BY <2>1, <2>2 DEF OutboxNext
<1> QED
  BY <1>1, <1>2, <1>3, <1>4, <1>5

(* A record of a pending payment is forgotten only for one of the        *)
(* reasons Forgettable lists, by whoever wrote the file; the file keeps  *)
(* its limit and holds no payment twice (lib.rs, remember_pending_tx and *)
(* reconcile_pending_txs): for any number of payments and of workers     *)
(* that load and save past each other.                                   *)
THEOREM OutboxAlwaysKept == OutboxSpec => OutboxKept
<1>1. OutboxInv => Len(outbox) <= MaxRecords /\ Len(outbox) = Cardinality(TxsOf(outbox))
  BY TxsCounted DEF OutboxInv, Listed
<1>2. OutboxInv /\ [OutboxNext]_outboxVars =>
        /\ OutboxInv'
        /\ [\A r \in Range(outbox) : r \notin Range(outbox') =>
              \E w \in Workers : hand'[w] # hand[w] /\ Forgettable(r, w)]_outboxVars
  BY OutboxStep
<1> QED
  BY <1>1, <1>2, OutboxStart, PTL DEF OutboxSpec, OutboxKept

-----------------------------------------------------------------------------
(* PeerSessions. LanesHonoured is nearly inductive: what it lacks is the *)
(* type of a session, that whoever is inside has an address, and that    *)
(* the addresses of two who are inside have nothing in common, so that   *)
(* the one who leaves takes nobody else's away.                          *)

(* The record of a session.                                              *)
SessionType ==
  [at : {"closed", "enters", "reads", "leaves", "ends"},
   peer : {{}} \cup {{p} : p \in Peers}, dialled : BOOLEAN, priority : BOOLEAN, verified : BOOLEAN,
   messages : Nat, submissions : Nat, waited : Nat, errors : Nat]

\* The sessions the acceptor let in, and those it let in below the cap.
Accepted(s) == {c \in Connections : s[c].at # "closed" /\ ~s[c].dialled}
Ordinary(s) == {c \in Connections : s[c].at # "closed" /\ ~s[c].dialled /\ ~s[c].priority}
Inside(s) == {c \in Connections : s[c].at \in {"reads", "leaves"}}

(* What a session of the reserve may have used up.                       *)
WithinReserve(r) ==
  r.priority => /\ r.messages <= MaxMessages /\ r.waited <= Patience
                /\ r.submissions <= MaxSubmissions
                /\ r.messages > 0 => r.verified

(* The acceptor's count is that of the sessions it let in, below both    *)
(* limits.                                                               *)
CountsKept ==
  /\ inbound \in Nat /\ inbound = Cardinality(Accepted(session))
  /\ inbound <= NormalLimit + Reserve
  /\ Cardinality(Ordinary(session)) <= NormalLimit

(* The active peers are those of the sessions inside, each of one only.  *)
OneSessionEach ==
  /\ \A c \in Inside(session) : session[c].peer # {}
  /\ active = UNION {session[c].peer : c \in Inside(session)}
  /\ \A c, d \in Inside(session) : c # d => session[c].peer \cap session[d].peer = {}

(* The inductive invariant.                                              *)
SessionsInv ==
  /\ session \in [Connections -> SessionType]
  /\ \A c \in Connections : session[c].at = "enters" => session[c].peer # {}
  /\ \A c \in Connections : WithinReserve(session[c])
  /\ CountsKept
  /\ OneSessionEach

(* The sets that are counted are finite. *)
LEMMA AcceptedFinite ==
  ASSUME NEW s
  PROVE  /\ IsFiniteSet(Accepted(s)) /\ IsFiniteSet(Ordinary(s))
         /\ Cardinality(Accepted(s)) \in Nat /\ Cardinality(Ordinary(s)) \in Nat
         /\ Cardinality(Ordinary(s)) <= Cardinality(Accepted(s))
<1>1. Accepted(s) \subseteq Connections /\ Ordinary(s) \subseteq Accepted(s)
  BY DEF Accepted, Ordinary
<1>2. IsFiniteSet(Connections)
  BY SessionsAssumption
<1>3. IsFiniteSet(Accepted(s))
  BY <1>1, <1>2, FS_Subset
<1>4. IsFiniteSet(Ordinary(s)) /\ Cardinality(Ordinary(s)) <= Cardinality(Accepted(s))
  BY <1>1, <1>3, FS_Subset
<1> QED
  BY <1>3, <1>4, FS_CardinalityType

(* The invariant holds in the beginning.                                 *)
LEMMA SessionsInitInv == SessionsInit => SessionsInv
<1> SUFFICES ASSUME SessionsInit PROVE SessionsInv
  OBVIOUS
<1>1. Closed \in SessionType /\ WithinReserve(Closed) /\ Closed.at = "closed"
  BY SessionsAssumption DEF Closed, SessionType, WithinReserve
<1>2. inbound = 0 /\ active = {} /\ session \in [Connections -> {Closed}]
  BY DEF SessionsInit
<1>3. Accepted(session) = {} /\ Ordinary(session) = {} /\ Inside(session) = {}
  BY <1>2 DEF Accepted, Ordinary, Inside, Closed
<1>4. CountsKept
  BY <1>2, <1>3, FS_EmptySet, SessionsAssumption DEF CountsKept
<1>5. OneSessionEach
  BY <1>2, <1>3 DEF OneSessionEach
<1>6. session \in [Connections -> SessionType] /\ \A c \in Connections : session[c] = Closed
  BY <1>1, <1>2
<1>7. \A c \in Connections : session[c].at = "closed" /\ WithinReserve(session[c])
  BY <1>1, <1>6, Zenon
<1> QED
  BY <1>4, <1>5, <1>6, <1>7 DEF SessionsInv

(* What only moves a session on, without a word to the acceptor: its counts *)
(* are those from before.                                                   *)
LEMMA SameCounts ==
  ASSUME SessionsInv, NEW c \in Connections, NEW r \in SessionType, session' = [session EXCEPT ![c] = r],
         session[c].at # "closed", r.at # "closed",
         r.dialled = session[c].dialled, r.priority = session[c].priority, inbound' = inbound
  PROVE  CountsKept'
<1>1. \A d \in Connections : session'[d] = IF d = c THEN r ELSE session[d]
  BY DEF SessionsInv
<1>2. Accepted(session') = Accepted(session) /\ Ordinary(session') = Ordinary(session)
  BY <1>1 DEF Accepted, Ordinary
<1> QED
  BY <1>2 DEF SessionsInv, CountsKept

(* What changes neither who is inside nor the set of active peers. *)
LEMMA SameInside ==
  ASSUME SessionsInv, NEW c \in Connections, NEW r \in SessionType, session' = [session EXCEPT ![c] = r],
         r.at \in {"reads", "leaves"} <=> session[c].at \in {"reads", "leaves"},
         session[c].at \in {"reads", "leaves"} => r.peer = session[c].peer,
         active' = active
  PROVE  OneSessionEach'
<1>1. \A d \in Connections : session'[d] = IF d = c THEN r ELSE session[d]
  BY DEF SessionsInv
<1>2. Inside(session') = Inside(session) /\ \A d \in Inside(session) : session'[d].peer = session[d].peer
  BY <1>1 DEF Inside
<1>3. {session'[d].peer : d \in Inside(session')} = {session[d].peer : d \in Inside(session)}
  BY <1>2
<1> QED
  BY <1>2, <1>3 DEF SessionsInv, OneSessionEach

(* The rest of the invariant, for a step that changes one session. *)
LEMMA OtherParts ==
  ASSUME SessionsInv, NEW c \in Connections, NEW r \in SessionType, session' = [session EXCEPT ![c] = r],
         r.at = "enters" => r.peer # {}, WithinReserve(r), CountsKept', OneSessionEach'
  PROVE  SessionsInv'
<1>1. /\ session' \in [Connections -> SessionType]
      /\ \A d \in Connections : session'[d] = IF d = c THEN r ELSE session[d]
  BY DEF SessionsInv
<1>2. \A d \in Connections : session'[d].at = "enters" => session'[d].peer # {}
  BY <1>1 DEF SessionsInv
<1>3. \A d \in Connections : WithinReserve(session'[d])
  BY <1>1, Zenon DEF SessionsInv
<1>4. \A d \in Connections : WithinReserve(session[d])'
  BY <1>3 DEF WithinReserve
<1> QED
  BY <1>1, <1>2, <1>4 DEF SessionsInv

(* The session that Opened puts on a socket.                             *)
LEMMA OpenedSession ==
  ASSUME NEW p \in Peers, NEW dialled \in BOOLEAN, NEW priority \in BOOLEAN
  PROVE  LET r == [Closed EXCEPT !.at = "enters", !.peer = {p}, !.dialled = dialled,
                                 !.priority = priority, !.verified = ~priority]
         IN /\ r \in SessionType /\ WithinReserve(r)
            /\ r.at = "enters" /\ r.peer # {} /\ r.dialled = dialled /\ r.priority = priority
<1> DEFINE entering == [Closed EXCEPT !.at = "enters", !.peer = {p}]
           r == [entering EXCEPT !.dialled = dialled, !.priority = priority, !.verified = ~priority]
<1>1. Closed \in SessionType /\ WithinReserve(Closed) /\ ~Closed.priority /\ Closed.messages = 0
      /\ Closed.waited = 0 /\ Closed.submissions = 0
  BY SessionsAssumption DEF Closed, SessionType, WithinReserve
<1>2. /\ entering \in SessionType /\ entering.at = "enters" /\ entering.peer = {p}
      /\ entering.messages = 0 /\ entering.waited = 0 /\ entering.submissions = 0
  BY <1>1 DEF SessionType
<1> HIDE DEF entering
<1>3. /\ r \in SessionType /\ r.at = "enters" /\ r.peer = {p} /\ r.dialled = dialled /\ r.priority = priority
      /\ r.messages = 0 /\ r.waited = 0 /\ r.submissions = 0
  BY <1>2 DEF SessionType
<1> HIDE DEF r
<1>4. WithinReserve(r)
  BY <1>3, SessionsAssumption DEF WithinReserve
<1> QED
  BY <1>3, <1>4 DEF r, entering

(* The acceptor: an ordinary session is let in below the cap only.       *)
LEMMA AcceptKeeps ==
  ASSUME SessionsInv, NEW c \in Connections, NEW p \in Peers, AcceptPeer(c, p)
  PROVE  SessionsInv'
<1> DEFINE late == inbound >= NormalLimit
           r == [Closed EXCEPT !.at = "enters", !.peer = {p}, !.dialled = FALSE,
                               !.priority = late, !.verified = ~late]
           A == Accepted(session)
           O == Ordinary(session)
<1>1. /\ r \in SessionType /\ WithinReserve(r)
      /\ r.at = "enters" /\ r.peer # {} /\ r.dialled = FALSE /\ r.priority = late
  <2>1. late \in BOOLEAN /\ FALSE \in BOOLEAN
    OBVIOUS
  <2> HIDE DEF late
  <2> QED
    BY <2>1, OpenedSession, ZenonT(60)
<1>2. /\ session[c].at = "closed" /\ inbound < NormalLimit + Reserve /\ inbound' = inbound + 1
      /\ session' = [session EXCEPT ![c] = r] /\ active' = active
  BY Zenon DEF AcceptPeer, Opened
<1> HIDE DEF r
<1>3. \A d \in Connections : session'[d] = IF d = c THEN r ELSE session[d]
  BY <1>2 DEF SessionsInv
<1>4. IsFiniteSet(A) /\ IsFiniteSet(O) /\ Cardinality(A) = inbound /\ inbound \in Nat
      /\ Cardinality(O) \in Nat /\ Cardinality(O) <= NormalLimit /\ Cardinality(O) <= Cardinality(A)
  BY AcceptedFinite DEF SessionsInv, CountsKept
<1>5. Accepted(session') = A \cup {c} /\ c \notin A
  BY <1>1, <1>2, <1>3 DEF Accepted
<1>6. Ordinary(session') = IF late THEN O ELSE O \cup {c}
  BY <1>1, <1>2, <1>3 DEF Ordinary
<1>7. Cardinality(Accepted(session')) = inbound + 1
  BY <1>4, <1>5, FS_AddElement
<1>8. Cardinality(Ordinary(session')) <= NormalLimit
  <2>1. CASE late
    BY <1>4, <1>6, <2>1
  <2>2. CASE ~late
    <3>1. c \notin O
      BY <1>2 DEF Ordinary
    <3>2. Cardinality(O \cup {c}) = Cardinality(O) + 1
      BY <1>4, <3>1, FS_AddElement
    <3> HIDE DEF O, A
    <3> QED
      BY <1>4, <1>6, <2>2, <3>2, SessionsAssumption
  <2> QED
    BY <2>1, <2>2
<1>9. CountsKept'
  BY <1>2, <1>4, <1>7, <1>8, SessionsAssumption DEF CountsKept
<1>10. OneSessionEach'
  BY <1>1, <1>2, SameInside
<1> QED
  BY <1>1, <1>2, <1>9, <1>10, OtherParts

(* The dialler's sessions are not counted.                               *)
LEMMA DialKeeps ==
  ASSUME SessionsInv, NEW c \in Connections, NEW p \in Peers, DialPeer(c, p)
  PROVE  SessionsInv'
<1> DEFINE r == [Closed EXCEPT !.at = "enters", !.peer = {p}, !.dialled = TRUE,
                               !.priority = FALSE, !.verified = ~FALSE]
<1>1. /\ r \in SessionType /\ WithinReserve(r)
      /\ r.at = "enters" /\ r.peer # {} /\ r.dialled = TRUE
  BY OpenedSession
<1>2. /\ session[c].at = "closed" /\ inbound' = inbound
      /\ session' = [session EXCEPT ![c] = r] /\ active' = active
  BY Zenon DEF DialPeer, Opened
<1> HIDE DEF r
<1>3. \A d \in Connections : session'[d] = IF d = c THEN r ELSE session[d]
  BY <1>2 DEF SessionsInv
<1>4. Accepted(session') = Accepted(session) /\ Ordinary(session') = Ordinary(session)
  BY <1>1, <1>2, <1>3 DEF Accepted, Ordinary
<1>5. CountsKept'
  BY <1>2, <1>4 DEF SessionsInv, CountsKept
<1>6. OneSessionEach'
  BY <1>1, <1>2, SameInside
<1> QED
  BY <1>1, <1>2, <1>5, <1>6, OtherParts

(* Who enters is somebody of whom nobody is inside. *)
LEMMA EntersKeeps ==
  ASSUME SessionsInv, NEW c \in Connections, Enters(c)
  PROVE  SessionsInv'
<1> DEFINE r == [session[c] EXCEPT !.at = "reads"]
<1>1. /\ session[c].at = "enters" /\ session[c].peer \cap active = {} /\ inbound' = inbound
      /\ session' = [session EXCEPT ![c] = r] /\ active' = active \cup session[c].peer
  BY DEF Enters
<1>2. session[c] \in SessionType /\ session[c].peer # {} /\ WithinReserve(session[c])
  BY <1>1 DEF SessionsInv
<1>3. /\ r \in SessionType /\ WithinReserve(r) /\ r.at = "reads" /\ r.peer = session[c].peer
      /\ r.dialled = session[c].dialled /\ r.priority = session[c].priority
  BY <1>2 DEF SessionType, WithinReserve
<1> HIDE DEF r
<1>4. \A d \in Connections : session'[d] = IF d = c THEN r ELSE session[d]
  BY <1>1 DEF SessionsInv
<1>5. CountsKept'
  BY <1>1, <1>3, SameCounts
<1>6. Inside(session') = Inside(session) \cup {c} /\ c \notin Inside(session)
  BY <1>1, <1>3, <1>4 DEF Inside
<1>7. \A d \in Inside(session) : session'[d].peer = session[d].peer /\ session[d].peer \subseteq active
  BY <1>1, <1>4 DEF Inside, SessionsInv, OneSessionEach
<1>8. active' = UNION {session'[d].peer : d \in Inside(session')}
  <2>1. active = UNION {session[d].peer : d \in Inside(session)}
    BY DEF SessionsInv, OneSessionEach
  <2>2. session'[c].peer = session[c].peer
    BY <1>3, <1>4
  <2>3. \A x : x \in active <=> \E d \in Inside(session) : x \in session'[d].peer
    BY <2>1, <1>7
  <2>4. \A x : x \in active' <=> \E d \in Inside(session') : x \in session'[d].peer
    BY <1>1, <1>6, <2>2, <2>3
  <2> QED
    BY <2>4
<1>9. \A d \in Inside(session') : session'[d].peer # {}
  BY <1>2, <1>3, <1>4, <1>6, <1>7 DEF SessionsInv, OneSessionEach
<1>10. \A d \in Inside(session) : session'[d].peer \cap session'[c].peer = {}
  BY <1>1, <1>3, <1>4, <1>7
<1>11. \A d, e \in Inside(session') : d # e => session'[d].peer \cap session'[e].peer = {}
  BY <1>6, <1>7, <1>10 DEF SessionsInv, OneSessionEach
<1>12. OneSessionEach'
  BY <1>8, <1>9, <1>11 DEF OneSessionEach, Inside
<1> QED
  BY <1>1, <1>3, <1>5, <1>12, OtherParts

(* A session that turns back was never inside, and takes nobody's        *)
(* address away.                                                         *)
LEMMA TurnsBackKeeps ==
  ASSUME SessionsInv, NEW c \in Connections, TurnsBack(c)
  PROVE  SessionsInv'
<1> DEFINE r == [session[c] EXCEPT !.at = "ends"]
<1>1. /\ session[c].at = "enters" /\ inbound' = inbound /\ active' = active
      /\ session' = [session EXCEPT ![c] = r]
  BY DEF TurnsBack
<1>2. session[c] \in SessionType /\ WithinReserve(session[c])
  BY DEF SessionsInv
<1>3. /\ r \in SessionType /\ WithinReserve(r) /\ r.at = "ends"
      /\ r.dialled = session[c].dialled /\ r.priority = session[c].priority
  BY <1>2 DEF SessionType, WithinReserve
<1> HIDE DEF r
<1> QED
  BY <1>1, <1>3, SameCounts, SameInside, OtherParts

(* Whatever a session reads, or does not: it stays inside and, in the reserve, *)
(* within its budget.                                                           *)
LEMMA StaysInside ==
  ASSUME SessionsInv, NEW c \in Connections, session[c].at = "reads", NEW r \in SessionType,
         session' = [session EXCEPT ![c] = r], inbound' = inbound, active' = active,
         r.at \in {"reads", "leaves"}, r.peer = session[c].peer, r.dialled = session[c].dialled,
         r.priority = session[c].priority, WithinReserve(r)
  PROVE  SessionsInv'
BY SameCounts, SameInside, OtherParts

(* A session that a step changes in one respect. *)
LEMMA OneField ==
  ASSUME NEW s \in SessionType, NEW n \in Nat, NEW at \in {"closed", "enters", "reads", "leaves", "ends"}
  PROVE  /\ [s EXCEPT !.messages = n] \in SessionType
         /\ [s EXCEPT !.submissions = n] \in SessionType
         /\ [s EXCEPT !.errors = n] \in SessionType
         /\ [s EXCEPT !.waited = n] \in SessionType
         /\ [s EXCEPT !.at = at] \in SessionType
         /\ [s EXCEPT !.verified = TRUE] \in SessionType
BY DEF SessionType

(* What a session of the reserve has used up after one more message.     *)
LEMMA CountedSession ==
  ASSUME NEW s \in SessionType, WithinReserve(s), NEW kind, s.priority => WithinBudget(s, kind)
  PROVE  LET r == Counted(s, kind)
         IN /\ r \in SessionType /\ WithinReserve(r) /\ r.at = s.at /\ r.peer = s.peer
            /\ r.dialled = s.dialled /\ r.priority = s.priority
<1> DEFINE r == Counted(s, kind)
<1>1. CASE ~s.priority
  BY <1>1 DEF Counted
<1>2. CASE s.priority
  <2>1. s.messages < MaxMessages /\ (kind = "submit" => s.submissions < MaxSubmissions)
    BY <1>2 DEF WithinBudget
  <2> DEFINE submissions == IF kind = "submit" THEN s.submissions + 1 ELSE s.submissions
             heard == [s EXCEPT !.messages = s.messages + 1]
             verified == [heard EXCEPT !.verified = TRUE]
             counted == [verified EXCEPT !.submissions = submissions]
  <2>2. s.submissions \in Nat /\ s.messages + 1 \in Nat /\ submissions \in Nat
    BY DEF SessionType
  <2>3. r = counted
    BY <1>2 DEF Counted
  <2> HIDE DEF r, submissions
  <2>4. /\ heard \in SessionType /\ heard.at = s.at /\ heard.peer = s.peer
        /\ heard.dialled = s.dialled /\ heard.priority = s.priority
        /\ heard.messages = s.messages + 1 /\ heard.waited = s.waited
    <3>1. heard \in SessionType
      BY <2>2, OneField
    <3> QED
      BY <3>1 DEF SessionType
  <2> HIDE DEF heard
  <2>5. /\ verified \in SessionType /\ verified.at = s.at /\ verified.peer = s.peer
        /\ verified.dialled = s.dialled /\ verified.priority = s.priority
        /\ verified.messages = s.messages + 1 /\ verified.waited = s.waited /\ verified.verified = TRUE
    <3>1. verified \in SessionType
      BY <2>4, OneField
    <3> QED
      BY <2>4, <3>1 DEF SessionType
  <2> HIDE DEF verified
  <2>6. /\ counted \in SessionType /\ counted.at = s.at /\ counted.peer = s.peer
        /\ counted.dialled = s.dialled /\ counted.priority = s.priority
        /\ counted.messages = s.messages + 1 /\ counted.waited = s.waited /\ counted.verified = TRUE
        /\ counted.submissions = submissions
    <3>1. counted \in SessionType
      BY <2>2, <2>5, OneField
    <3> QED
      BY <2>2, <2>5, <3>1 DEF SessionType
  <2> HIDE DEF counted
  <2>7. /\ r \in SessionType /\ r.at = s.at /\ r.peer = s.peer /\ r.dialled = s.dialled
        /\ r.priority = s.priority /\ r.messages = s.messages + 1 /\ r.verified = TRUE
        /\ r.waited = s.waited /\ r.submissions = IF kind = "submit" THEN s.submissions + 1 ELSE s.submissions
    BY <2>3, <2>6 DEF submissions
  <2>8. s.messages \in Nat /\ s.submissions \in Nat /\ s.waited <= Patience /\ s.submissions <= MaxSubmissions
    BY <1>2 DEF SessionType, WithinReserve
  <2>9. r.messages <= MaxMessages /\ r.submissions <= MaxSubmissions
    BY <2>1, <2>7, <2>8, SessionsAssumption
  <2>10. WithinReserve(r)
    BY <2>7, <2>8, <2>9 DEF WithinReserve
  <2> QED
    BY <2>7, <2>10 DEF r
<1> QED
  BY <1>1, <1>2

(* A message is read: counted, an error of the peer, or the end.         *)
LEMMA ReadMessageKeeps ==
  ASSUME SessionsInv, NEW c \in Connections, NEW kind, ReadMessage(c, kind)
  PROVE  SessionsInv'
<1> DEFINE s == session[c]
           q == Counted(s, kind)
           next == IF s.errors + 1 >= MaxPeerErrors THEN "leaves" ELSE q.at
           erring == [q EXCEPT !.errors = q.errors + 1]
           failing == [erring EXCEPT !.at = next]
           leaving == [s EXCEPT !.at = "leaves"]
<1>1. s \in SessionType /\ WithinReserve(s)
  BY DEF SessionsInv
<1>2. /\ s.at = "reads" /\ inbound' = inbound /\ active' = active
      /\ \/ /\ s.priority => WithinBudget(s, kind)
            /\ \/ session' = [session EXCEPT ![c] = q]
               \/ session' = [session EXCEPT ![c] = failing]
         \/ session' = [session EXCEPT ![c] = leaving]
  BY Zenon DEF ReadMessage
<1>3. CASE (s.priority => WithinBudget(s, kind)) /\ session' = [session EXCEPT ![c] = q]
  <2>1. /\ q \in SessionType /\ WithinReserve(q) /\ q.at = "reads" /\ q.peer = s.peer
        /\ q.dialled = s.dialled /\ q.priority = s.priority
    BY <1>1, <1>2, <1>3, CountedSession
  <2> HIDE DEF q
  <2> QED
    BY <1>2, <1>3, <2>1, StaysInside
<1>4. CASE (s.priority => WithinBudget(s, kind)) /\ session' = [session EXCEPT ![c] = failing]
  <2>1. /\ q \in SessionType /\ WithinReserve(q) /\ q.at = "reads" /\ q.peer = s.peer
        /\ q.dialled = s.dialled /\ q.priority = s.priority
    BY <1>1, <1>2, <1>4, CountedSession
  <2> HIDE DEF q
  <2>2. next \in {"reads", "leaves"}
    BY <2>1
  <2>3. session' = [session EXCEPT ![c] = failing]
    BY <1>4
  <2> HIDE DEF next
  <2>4. /\ erring \in SessionType /\ erring.peer = q.peer /\ erring.dialled = q.dialled
        /\ erring.priority = q.priority /\ erring.messages = q.messages /\ erring.waited = q.waited
        /\ erring.submissions = q.submissions /\ erring.verified = q.verified
    <3>1. q.errors + 1 \in Nat
      BY <2>1 DEF SessionType
    <3>2. erring \in SessionType
      BY <2>1, <3>1, OneField
    <3> QED
      BY <2>1, <3>2 DEF SessionType
  <2> HIDE DEF erring
  <2>5. /\ failing \in SessionType /\ failing.at = next /\ failing.peer = q.peer
        /\ failing.dialled = q.dialled /\ failing.priority = q.priority /\ failing.messages = q.messages
        /\ failing.waited = q.waited /\ failing.submissions = q.submissions /\ failing.verified = q.verified
    <3>1. failing \in SessionType
      BY <2>2, <2>4, OneField
    <3> QED
      BY <2>2, <2>4, <3>1 DEF SessionType
  <2> HIDE DEF failing
  <2>6. WithinReserve(failing)
    BY <2>1, <2>5 DEF WithinReserve
  <2> QED
    BY <1>2, <2>1, <2>2, <2>3, <2>5, <2>6, StaysInside
<1>5. CASE session' = [session EXCEPT ![c] = leaving]
  <2>1. /\ leaving \in SessionType /\ WithinReserve(leaving) /\ leaving.at = "leaves"
        /\ leaving.peer = s.peer /\ leaving.dialled = s.dialled /\ leaving.priority = s.priority
    BY <1>1 DEF SessionType, WithinReserve
  <2> HIDE DEF leaving
  <2> QED
    BY <1>2, <1>5, <2>1, StaysInside
<1> QED
  BY <1>2, <1>3, <1>4, <1>5

(* A read timeout: one more for a session of the reserve, or the end.    *)
LEMMA ReadTimeoutKeeps ==
  ASSUME SessionsInv, NEW c \in Connections, ReadTimeout(c)
  PROVE  SessionsInv'
<1> DEFINE s == session[c]
           waits == [s EXCEPT !.waited = @ + 1]
           leaving == [s EXCEPT !.at = "leaves"]
<1>1. s \in SessionType /\ WithinReserve(s)
  BY DEF SessionsInv
<1>2. /\ s.at = "reads" /\ inbound' = inbound /\ active' = active
      /\ \/ s.priority /\ s.waited < Patience /\ session' = [session EXCEPT ![c] = waits]
         \/ session' = [session EXCEPT ![c] = leaving]
  BY DEF ReadTimeout
<1>3. CASE s.priority /\ s.waited < Patience /\ session' = [session EXCEPT ![c] = waits]
  <2>1. /\ waits \in SessionType /\ waits.at = "reads" /\ waits.peer = s.peer
        /\ waits.dialled = s.dialled /\ waits.priority = s.priority /\ waits.messages = s.messages
        /\ waits.waited = s.waited + 1 /\ waits.submissions = s.submissions
        /\ waits.verified = s.verified /\ s.waited \in Nat
    BY <1>1, <1>2 DEF SessionType
  <2> HIDE DEF waits
  <2>2. WithinReserve(waits)
    BY <1>1, <1>3, <2>1, SessionsAssumption DEF WithinReserve
  <2> QED
    BY <1>2, <1>3, <2>1, <2>2, StaysInside
<1>4. CASE session' = [session EXCEPT ![c] = leaving]
  <2>1. /\ leaving \in SessionType /\ WithinReserve(leaving) /\ leaving.at = "leaves"
        /\ leaving.peer = s.peer /\ leaving.dialled = s.dialled /\ leaving.priority = s.priority
    BY <1>1 DEF SessionType, WithinReserve
  <2> HIDE DEF leaving
  <2> QED
    BY <1>2, <1>4, <2>1, StaysInside
<1> QED
  BY <1>2, <1>3, <1>4

(* Who leaves takes away one address, which nobody else inside has. *)
LEMMA LeavePeerKeeps ==
  ASSUME SessionsInv, NEW c \in Connections, LeavePeer(c)
  PROVE  SessionsInv'
<1> DEFINE r == [session[c] EXCEPT !.at = "ends"]
<1>1. /\ session[c].at = "leaves" /\ inbound' = inbound /\ active' = active \ session[c].peer
      /\ session' = [session EXCEPT ![c] = r]
  BY DEF LeavePeer
<1>2. session[c] \in SessionType /\ WithinReserve(session[c])
  BY DEF SessionsInv
<1>3. /\ r \in SessionType /\ WithinReserve(r) /\ r.at = "ends"
      /\ r.dialled = session[c].dialled /\ r.priority = session[c].priority
  BY <1>2 DEF SessionType, WithinReserve
<1> HIDE DEF r
<1>4. \A d \in Connections : session'[d] = IF d = c THEN r ELSE session[d]
  BY <1>1 DEF SessionsInv
<1>5. CountsKept'
  BY <1>1, <1>3, SameCounts
<1>6. Inside(session') = Inside(session) \ {c} /\ c \in Inside(session)
  BY <1>1, <1>3, <1>4 DEF Inside
<1>7. /\ \A d \in Inside(session') : session'[d].peer = session[d].peer
      /\ \A d \in Inside(session') : session[d].peer # {} /\ session[d].peer \cap session[c].peer = {}
  <2>1. /\ \A d \in Inside(session) : session[d].peer # {}
        /\ \A d, e \in Inside(session) : d # e => session[d].peer \cap session[e].peer = {}
    BY DEF SessionsInv, OneSessionEach
  <2>2. \A d \in Inside(session') : d \in Inside(session) /\ d # c /\ d \in Connections
    BY <1>6 DEF Inside
  <2>3. \A d \in Inside(session') : session[d].peer # {} /\ session[d].peer \cap session[c].peer = {}
    BY <1>6, <2>1, <2>2
  <2> QED
    BY <1>4, <2>2, <2>3
<1>8. active' = UNION {session'[d].peer : d \in Inside(session')}
  <2>1. active = UNION {session[d].peer : d \in Inside(session)}
    BY DEF SessionsInv, OneSessionEach
  <2>2. \A x : x \in active <=> \E d \in Inside(session) : x \in session[d].peer
    BY <2>1
  <2>3. \A x : x \in active' <=> \E d \in Inside(session') : x \in session'[d].peer
    BY <1>1, <1>6, <1>7, <2>2
  <2> QED
    BY <2>3
<1>9. \A d, e \in Inside(session') : d # e => session'[d].peer \cap session'[e].peer = {}
  BY <1>6, <1>7 DEF SessionsInv, OneSessionEach
<1>10. OneSessionEach'
  BY <1>7, <1>8, <1>9 DEF OneSessionEach, Inside
<1> QED
  BY <1>1, <1>3, <1>5, <1>10, OtherParts

(* The end of an accepted session gives its place back; a dialled one    *)
(* had none.                                                             *)
LEMMA EndPeerKeeps ==
  ASSUME SessionsInv, NEW c \in Connections, EndPeer(c)
  PROVE  SessionsInv'
<1> DEFINE A == Accepted(session)
           O == Ordinary(session)
           dialled == session[c].dialled
<1>1. /\ session[c].at = "ends" /\ active' = active
      /\ inbound' = (IF dialled THEN inbound ELSE inbound - 1)
      /\ session' = [session EXCEPT ![c] = Closed]
  BY DEF EndPeer
<1>2. Closed \in SessionType /\ WithinReserve(Closed) /\ Closed.at = "closed"
  BY SessionsAssumption DEF Closed, SessionType, WithinReserve
<1>3. \A d \in Connections : session'[d] = IF d = c THEN Closed ELSE session[d]
  BY <1>1 DEF SessionsInv
<1>4. IsFiniteSet(A) /\ IsFiniteSet(O) /\ Cardinality(A) = inbound /\ inbound \in Nat
      /\ inbound <= NormalLimit + Reserve /\ Cardinality(O) \in Nat /\ Cardinality(O) <= NormalLimit
  BY AcceptedFinite DEF SessionsInv, CountsKept
<1>5. Accepted(session') = A \ {c} /\ (c \in A <=> ~dialled)
  BY <1>1, <1>2, <1>3 DEF Accepted
<1>6. Ordinary(session') \subseteq O
  BY <1>1, <1>2, <1>3 DEF Ordinary
<1>7. Cardinality(Accepted(session')) = inbound' /\ inbound' \in Nat /\ inbound' <= inbound
  <2>1. CASE dialled
    <3>1. Accepted(session') = A
      BY <1>5, <2>1
    <3> QED
      BY <1>1, <1>4, <2>1, <3>1
  <2>2. CASE ~dialled
    <3>1. Cardinality(A \ {c}) = inbound - 1
      BY <1>4, <1>5, <2>2, FS_RemoveElement
    <3>2. IsFiniteSet(A \ {c})
      BY <1>4, FS_RemoveElement
    <3>3. Cardinality(A \ {c}) \in Nat
      BY <3>2, FS_CardinalityType
    <3>4. inbound' = inbound - 1 /\ Accepted(session') = A \ {c}
      BY <1>1, <1>5, <2>2
    <3> HIDE DEF A, O, dialled
    <3> QED
      BY <1>4, <3>1, <3>3, <3>4
  <2> QED
    BY <2>1, <2>2
<1>8. Cardinality(Ordinary(session')) <= NormalLimit
  <2>1. Cardinality(Ordinary(session')) <= Cardinality(O) /\ Cardinality(Ordinary(session')) \in Nat
    BY <1>4, <1>6, FS_Subset, FS_CardinalityType
  <2> QED
    BY <1>4, <2>1, SessionsAssumption
<1>9. CountsKept'
  BY <1>4, <1>7, <1>8, SessionsAssumption DEF CountsKept
<1>10. OneSessionEach'
  BY <1>1, <1>2, SameInside
<1> QED
  BY <1>1, <1>2, <1>9, <1>10, OtherParts

(* The connections keep their books, in all that the proof of it needs.  *)
THEOREM SessionsInvariant == SessionsSpec => []SessionsInv
<1>1. SessionsInv /\ [SessionsNext]_sessionsVars => SessionsInv'
  <2> SUFFICES ASSUME SessionsInv, [SessionsNext]_sessionsVars PROVE SessionsInv'
    OBVIOUS
  <2>1. CASE SessionsNext
    BY <2>1, AcceptKeeps, DialKeeps, EntersKeeps, TurnsBackKeeps, ReadTimeoutKeeps, LeavePeerKeeps,
       EndPeerKeeps, ReadMessageKeeps DEF SessionsNext
  <2>2. CASE UNCHANGED sessionsVars
    <3>1. session' = session /\ inbound' = inbound /\ active' = active
      BY <2>2 DEF sessionsVars
    <3> QED
      BY <3>1 DEF SessionsInv, CountsKept, OneSessionEach, Accepted, Ordinary, Inside, WithinReserve
  <2> QED
    BY <2>1, <2>2
<1> QED
  BY <1>1, SessionsInitInv, PTL DEF SessionsSpec

(* The count of the acceptor never drifts from the sockets it stands     *)
(* for, so that the cap never closes for good; ordinary sessions never   *)
(* take the reserve; a session of the reserve stays within its budget;   *)
(* and a peer is active exactly while one session of it runs (p2p.rs     *)
(* run_node, handle_peer).                                               *)
THEOREM BooksKept == SessionsSpec => []LanesHonoured
<1>1. SessionsInv => LanesHonoured
  <2> SUFFICES ASSUME SessionsInv PROVE LanesHonoured
    OBVIOUS
  <2>1. \A c \in Connections : Running(c) <=> c \in Inside(session)
    BY DEF Running, Inside
  <2>2. /\ inbound = Cardinality({c \in Connections : session[c].at # "closed" /\ ~session[c].dialled})
        /\ inbound <= NormalLimit + Reserve
        /\ Cardinality({c \in Connections : /\ session[c].at # "closed"
                                            /\ ~session[c].dialled /\ ~session[c].priority}) <= NormalLimit
    BY DEF SessionsInv, CountsKept, Accepted, Ordinary
  <2>3. active = UNION {session[c].peer : c \in {d \in Connections : Running(d)}}
    BY DEF SessionsInv, OneSessionEach, Inside, Running
  <2>4. \A c, d \in Connections : Running(c) /\ Running(d) /\ session[c].peer = session[d].peer => c = d
    BY <2>1 DEF SessionsInv, OneSessionEach
  <2>5. \A c \in Connections : session[c].priority =>
          /\ session[c].messages <= MaxMessages /\ session[c].waited <= Patience
          /\ session[c].submissions <= MaxSubmissions
          /\ session[c].messages > 0 => session[c].verified
    BY DEF SessionsInv, WithinReserve
  <2> QED
    BY <2>2, <2>3, <2>4, <2>5 DEF LanesHonoured
<1> QED
  BY <1>1, SessionsInvariant, PTL
===============================================================================
