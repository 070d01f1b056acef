------------------------------ MODULE Players_proofs -------------------------------
(***************************************************************************)
(* Proofs about PlayerRestrictions, for any restrictions, durations and    *)
(* time, with or without failing writes, and about PlayerSessions, for any *)
(* players and logs of any number and length.                              *)
(***************************************************************************)
EXTENDS PlayerRestrictions, PlayerSessions, FiniteSetTheorems, WellFoundedInduction, TLAPS

-----------------------------------------------------------------------------
(* The restrictions *)

\* Durations are numbers, and what is promised without a time is none.
ConstantsOK ==
    /\ Horizon \in Nat /\ Durations \subseteq Nat
    /\ Off \notin Nat /\ Forever \notin Nat /\ Off # Forever

\* What has been reported and is not over.
Standing(r) == promised[r] = Forever \/ promised[r] \in clock + 1 .. Horizon

\* The command of a request for r has not been carried out.
Untouched(r) == ~Busy(r) \/ holder.pc = "command"

\* The lease r has if the request for it fails.
Lease(r) == IF Busy(r) THEN holder.previous ELSE memory[r].until

LeaseAt(r) ==
    /\ disk[r].until = memory[r].until
    /\ Untouched(r) =>
           /\ Standing(r) => inForce[r]
           /\ promised[r] \in 1 .. Horizon /\ inForce[r] => Lease(r) = promised[r]
           /\ promised[r] = Forever => Lease(r) = NoLease
    /\ Busy(r) /\ holder.by = "expiry" => ~Standing(r)

LeaseInv == \A r \in Restrictions \ doubtful : LeaseAt(r)

\* A request has stored its lease, and the lists it takes over are what is in
\* force, but for what somebody else has changed since.
RequestInv ==
    /\ InRequest => memory[holder.of].until = holder.until /\ (holder.by = "expiry" => ~holder.on)
    /\ holder.pc = "apply" => (holder.of \in holder.listed <=> holder.on)
    /\ holder.pc \in {"apply", "refresh"} =>
           \A r \in Restrictions : (r \in holder.listed <=> inForce[r]) \/ promised[r] = Off

RestrictionsInv == RestrictionsTypeOK /\ LeaseInv /\ RequestInv
-----------------------------------------------------------------------------
(* Types *)

Waiting == [pc : {"command", "query"}, of : Restrictions, by : {"admin", "expiry"},
            on : BOOLEAN, until : 0 .. Horizon, previous : 0 .. Horizon]
Applying == [pc : {"apply"}, of : Restrictions, by : {"admin", "expiry"},
             on : BOOLEAN, until : 0 .. Horizon, previous : 0 .. Horizon,
             listed : SUBSET Restrictions]
Refreshing == [pc : {"refresh"}, listed : SUBSET Restrictions]

LEMMA JobParts ==
    ASSUME holder \in Holder
    PROVE  /\ holder.pc \in {"none", "command", "query", "apply", "refresh"}
           /\ holder.pc = "none" <=> holder = NoHolder
           /\ holder.pc \in {"command", "query"} => holder \in Waiting
           /\ holder.pc = "apply" => holder \in Applying
           /\ holder.pc = "refresh" => holder \in Refreshing
           /\ InRequest => /\ holder.of \in Restrictions /\ holder.by \in {"admin", "expiry"}
                           /\ holder.on \in BOOLEAN
                           /\ holder.until \in 0 .. Horizon /\ holder.previous \in 0 .. Horizon
<1>1. holder = NoHolder \/ holder \in Waiting \/ holder \in Applying \/ holder \in Refreshing
  BY DEF Holder, Waiting, Applying, Refreshing
<1>2. /\ holder = NoHolder => holder.pc = "none"
      /\ holder \in Waiting => holder.pc \in {"command", "query"}
      /\ holder \in Applying => holder.pc = "apply"
      /\ holder \in Refreshing => holder.pc = "refresh"
  BY DEF NoHolder, Waiting, Applying, Refreshing
<1>3. /\ holder.pc \in {"none", "command", "query", "apply", "refresh"}
      /\ holder.pc = "none" <=> holder = NoHolder
      /\ holder.pc \in {"command", "query"} => holder \in Waiting
      /\ holder.pc = "apply" => holder \in Applying
      /\ holder.pc = "refresh" => holder \in Refreshing
  BY <1>1, <1>2
<1>4. InRequest => /\ holder.of \in Restrictions /\ holder.by \in {"admin", "expiry"}
                   /\ holder.on \in BOOLEAN
                   /\ holder.until \in 0 .. Horizon /\ holder.previous \in 0 .. Horizon
  BY <1>3 DEF InRequest, Waiting, Applying
<1> QED
  BY <1>3, <1>4

LEMMA JobKinds ==
    /\ NoHolder \in Holder /\ NoHolder.pc = "none"
    /\ Waiting \subseteq Holder /\ Applying \subseteq Holder /\ Refreshing \subseteq Holder
BY DEF Holder, NoHolder, Waiting, Applying, Refreshing

LEMMA Leases ==
    ASSUME RestrictionsTypeOK, ConstantsOK
    PROVE  /\ Horizon \in Nat /\ clock \in 0 .. Horizon
           /\ \A r \in Restrictions :
                  /\ memory[r].until \in 0 .. Horizon /\ disk[r].until \in 0 .. Horizon
                  /\ memory[r].on \in BOOLEAN /\ inForce[r] \in BOOLEAN
                  /\ promised[r] \in {Off, Forever} \cup 1 .. Horizon
           /\ \A r : promised[r] = Off => ~Standing(r)
           /\ Off # Forever /\ Off \notin 1 .. Horizon /\ Forever \notin 1 .. Horizon
<1>1. Horizon \in Nat /\ clock \in 0 .. Horizon
  BY DEF RestrictionsTypeOK, ConstantsOK
<1>2. Off # Forever /\ Off \notin 1 .. Horizon /\ Forever \notin 1 .. Horizon
      /\ Off \notin clock + 1 .. Horizon
  BY <1>1 DEF ConstantsOK
<1>3. \A r \in Restrictions : memory[r] \in PlayerRecord /\ disk[r] \in PlayerRecord
  BY DEF RestrictionsTypeOK
<1>4. \A r \in Restrictions :
          /\ memory[r].until \in 0 .. Horizon /\ disk[r].until \in 0 .. Horizon
          /\ memory[r].on \in BOOLEAN
  BY <1>3 DEF PlayerRecord
<1> QED
  BY <1>1, <1>2, <1>4 DEF RestrictionsTypeOK, Standing

\* A record with another lease, or taken over from the lists.
LEMMA NewRecords ==
    ASSUME RestrictionsTypeOK, ConstantsOK
    PROVE  /\ \A r \in Restrictions, until \in 0 .. Horizon :
                  LET new == [memory EXCEPT ![r].until = until]
                  IN  /\ new \in [Restrictions -> PlayerRecord] /\ new[r].until = until
                      /\ \A q \in Restrictions \ {r} : new[q] = memory[q]
           /\ \A restricted \in SUBSET Restrictions :
                  /\ Applied(restricted) \in [Restrictions -> PlayerRecord]
                  /\ \A r \in Restrictions : Applied(restricted)[r].until =
                         IF r \in restricted THEN memory[r].until ELSE NoLease
<1>1. memory \in [Restrictions -> PlayerRecord]
      /\ \A r \in Restrictions : memory[r] \in PlayerRecord
  BY DEF RestrictionsTypeOK
<1>2. ASSUME NEW r \in Restrictions, NEW until \in 0 .. Horizon
      PROVE  LET new == [memory EXCEPT ![r].until = until]
             IN  /\ new \in [Restrictions -> PlayerRecord] /\ new[r].until = until
                 /\ \A q \in Restrictions \ {r} : new[q] = memory[q]
  <2>1. /\ [memory[r] EXCEPT !.until = until] \in PlayerRecord
        /\ [memory[r] EXCEPT !.until = until].until = until
    BY <1>1 DEF PlayerRecord
  <2> QED
    BY <1>1, <2>1
<1>3. ASSUME NEW restricted \in SUBSET Restrictions
      PROVE  /\ Applied(restricted) \in [Restrictions -> PlayerRecord]
             /\ \A r \in Restrictions : Applied(restricted)[r].until =
                    IF r \in restricted THEN memory[r].until ELSE NoLease
  <2>1. 0 \in 0 .. Horizon /\ \A r \in Restrictions : memory[r].until \in 0 .. Horizon
    BY Leases
  <2>2. ASSUME NEW r \in Restrictions
        PROVE  [on |-> r \in restricted,
                until |-> IF r \in restricted THEN memory[r].until ELSE NoLease] \in PlayerRecord
    <3> DEFINE on == r \in restricted
               until == IF r \in restricted THEN memory[r].until ELSE NoLease
    <3>1. on \in BOOLEAN
      OBVIOUS
    <3>2. until \in 0 .. Horizon
      BY <2>1 DEF NoLease
    <3> HIDE DEF on, until
    <3>3. [on |-> on, until |-> until] \in PlayerRecord
      BY <3>1, <3>2 DEF PlayerRecord
    <3> QED
      BY <3>3 DEF on, until
  <2> QED
    BY <2>2 DEF Applied
<1> QED
  BY <1>2, <1>3

-----------------------------------------------------------------------------
(* Requests *)

\* What a request finds before it begins: no lease of it is under way.
LEMMA BeginKeeps ==
    ASSUME RestrictionsInv, ConstantsOK, NEW r \in Restrictions, NEW on \in BOOLEAN,
           NEW duration \in Nat, NEW by \in {"admin", "expiry"},
           BeginRequest(r, on, duration, by), UNCHANGED <<clock, inForce, promised>>,
           by = "expiry" => ~on,
           doubtful \subseteq doubtful', doubtful' \subseteq Restrictions,
           due' \subseteq Restrictions,
           by = "expiry" /\ r \notin doubtful' => ~Standing(r)
    PROVE  RestrictionsInv'
<1> DEFINE until == IF on /\ duration > 0 THEN clock + duration ELSE NoLease
<1>1. RestrictionsTypeOK /\ LeaseInv /\ RequestInv
  BY DEF RestrictionsInv
<1>2. /\ holder = NoHolder /\ until <= Horizon
      /\ memory' = [memory EXCEPT ![r].until = until]
      /\ disk' = IF memory[r].until = until THEN disk ELSE memory'
      /\ holder' = [pc |-> "command", of |-> r, by |-> by, on |-> on,
                 until |-> until, previous |-> memory[r].until]
  BY DEF BeginRequest, StoreLease
<1>3. until \in 0 .. Horizon /\ memory[r].until \in 0 .. Horizon
  BY <1>1, <1>2, Leases DEF NoLease
<1>4. /\ memory' \in [Restrictions -> PlayerRecord] /\ memory'[r].until = until
      /\ \A q \in Restrictions \ {r} : memory'[q] = memory[q]
  BY <1>1, <1>2, <1>3, NewRecords
<1> HIDE DEF until
<1>5. holder' \in Waiting
  BY <1>2, <1>3 DEF Waiting
<1>6. RestrictionsTypeOK'
  <2>1. holder' \in Holder
    BY <1>5, JobKinds
  <2>2. disk' \in [Restrictions -> PlayerRecord]
    BY <1>1, <1>2, <1>4 DEF RestrictionsTypeOK
  <2> QED
    BY <1>1, <1>4, <2>1, <2>2 DEF RestrictionsTypeOK
<1>7. RequestInv'
  BY <1>2, <1>4 DEF RequestInv, InRequest
<1>8. ASSUME NEW q \in Restrictions \ doubtful'
      PROVE  LeaseAt(q)'
  <2>1. LeaseAt(q) /\ ~Busy(q)
    BY <1>1, <1>2, JobKinds DEF LeaseInv, Busy, InRequest
  <2>2. disk'[q].until = memory'[q].until
    BY <1>2, <1>4, <2>1 DEF LeaseAt
  <2>3. Standing(q)' = Standing(q) /\ holder'.pc = "command" /\ holder'.of = r
    BY <1>2 DEF Standing
  <2>4. Lease(q)' = Lease(q)
    <3>1. CASE q = r
      BY <1>2, <2>1, <3>1 DEF Lease, Busy, InRequest
    <3>2. CASE q # r
      BY <1>2, <1>4, <2>1, <3>2 DEF Lease, Busy, InRequest
    <3> QED
      BY <3>1, <3>2
  <2>5. Busy(q)' /\ holder'.by = "expiry" => ~Standing(q)'
    BY <1>2, <2>3 DEF Busy
  <2> QED
    BY <2>1, <2>2, <2>3, <2>4, <2>5 DEF LeaseAt, Untouched
<1> QED
  BY <1>6, <1>7, <1>8 DEF RestrictionsInv, LeaseInv

LEMMA RequestKeeps ==
    ASSUME RestrictionsInv, ConstantsOK, NEW r \in Restrictions, NEW on \in BOOLEAN,
           NEW d \in Durations, RequestRestriction(r, on, d)
    PROVE  RestrictionsInv'
<1>1. d \in Nat
  BY DEF ConstantsOK
<1>2. doubtful \subseteq Restrictions /\ due \subseteq Restrictions
  BY DEF RestrictionsInv, RestrictionsTypeOK
<1> QED
  BY <1>1, <1>2, BeginKeeps DEF RequestRestriction

\* A restriction that is due is one whose promise is over, unless it is exposed.
LEMMA ExpiryKeeps ==
    ASSUME RestrictionsInv, ConstantsOK, NEW r \in Restrictions, ExpiryRequests(r)
    PROVE  RestrictionsInv'
<1>1. RestrictionsTypeOK /\ LeaseInv
  BY DEF RestrictionsInv
<1>2. /\ BeginRequest(r, FALSE, 0, "expiry") /\ UNCHANGED <<clock, inForce, promised>>
      /\ doubtful \subseteq doubtful' /\ doubtful' \subseteq Restrictions
      /\ due' \subseteq Restrictions
  BY <1>1 DEF ExpiryRequests, RestrictionsTypeOK
<1>3. ASSUME r \notin doubtful'
      PROVE  ~Standing(r)
  <2>1. /\ r \in Expired /\ r \notin doubtful /\ holder = NoHolder
    BY <1>3 DEF ExpiryRequests, BeginRequest
  <2>2. LeaseAt(r) /\ ~Busy(r)
    BY <1>1, <2>1, JobKinds DEF LeaseInv, Busy, InRequest
  <2>3. memory[r].until \in 1 .. clock
    BY <2>1 DEF Expired
  <2>4. /\ Standing(r) => inForce[r]
        /\ promised[r] \in 1 .. Horizon /\ inForce[r] => memory[r].until = promised[r]
        /\ promised[r] = Forever => memory[r].until = 0
    BY <2>2 DEF LeaseAt, Untouched, Lease, NoLease
  <2>5. clock \in Nat /\ Horizon \in Nat
    BY <1>1, Leases
  <2>6. ~ (promised[r] = Forever)
    BY <2>3, <2>4, <2>5
  <2>7. ~ (promised[r] \in clock + 1 .. Horizon)
    <3> SUFFICES ASSUME promised[r] \in clock + 1 .. Horizon PROVE FALSE
      OBVIOUS
    <3>1. inForce[r] /\ promised[r] \in 1 .. Horizon
      BY <2>4, <2>5 DEF Standing
    <3>2. memory[r].until = promised[r]
      BY <2>4, <3>1
    <3> QED
      BY <2>3, <2>5, <3>2
  <2> QED
    BY <2>6, <2>7 DEF Standing
<1>4. 0 \in Nat /\ FALSE \in BOOLEAN /\ "expiry" \in {"admin", "expiry"}
  OBVIOUS
<1> QED
  BY <1>2, <1>3, <1>4, BeginKeeps

-----------------------------------------------------------------------------
(* A request under way *)

\* What the steps of a request start from.
LEMMA RequestParts ==
    ASSUME RestrictionsInv, ConstantsOK, InRequest
    PROVE  /\ holder.of \in Restrictions /\ memory[holder.of].until = holder.until
           /\ holder.until \in 0 .. Horizon /\ holder.previous \in 0 .. Horizon
           /\ holder.on \in BOOLEAN /\ (holder.by = "expiry" => ~holder.on)
           /\ \A r \in Restrictions : Busy(r) <=> r = holder.of
BY JobParts DEF RestrictionsInv, RestrictionsTypeOK, RequestInv, Busy

\* The lease that was there before comes back.
LEMMA RestoredLeases ==
    ASSUME RestrictionsInv, ConstantsOK, InRequest, RestoreLease
    PROVE  /\ memory' \in [Restrictions -> PlayerRecord] /\ disk' \in [Restrictions -> PlayerRecord]
           /\ memory'[holder.of].until = holder.previous
           /\ \A r \in Restrictions \ {holder.of} : memory'[r].until = memory[r].until
           /\ \A r \in Restrictions \ Behind : disk'[r].until = memory'[r].until
           /\ holder' = NoHolder
<1>1. /\ RestrictionsTypeOK /\ memory' = Restored
      /\ disk' = disk \/ disk' = Restored
      /\ holder' = NoHolder
  BY DEF RestrictionsInv, RestoreLease, SaveHistory
<1>2. /\ Restored \in [Restrictions -> PlayerRecord] /\ Restored[holder.of].until = holder.previous
      /\ \A r \in Restrictions \ {holder.of} : Restored[r] = memory[r]
  BY <1>1, RequestParts, NewRecords DEF Restored
<1>3. \A r \in Restrictions \ Behind : disk'[r].until = memory'[r].until
  BY DEF Behind
<1> QED
  BY <1>1, <1>2, <1>3 DEF RestrictionsTypeOK

\* A restriction that no request is about afterwards.
LEMMA RestStands ==
    ASSUME NEW r \in Restrictions, LeaseAt(r), Untouched(r),
           UNCHANGED <<clock, promised>>, inForce'[r] = inForce[r],
           holder' = NoHolder, memory'[r].until = Lease(r),
           disk'[r].until = memory'[r].until
    PROVE  LeaseAt(r)'
<1>1. ~Busy(r)'
  BY JobKinds DEF Busy, InRequest
<1>2. Standing(r)' = Standing(r) /\ Lease(r)' = memory'[r].until
  BY <1>1 DEF Standing, Lease
<1> QED
  BY <1>1, <1>2 DEF LeaseAt, Untouched

LEMMA CommandKeeps == ASSUME RestrictionsInv, ConstantsOK, Command PROVE RestrictionsInv'
<1>1. /\ RestrictionsTypeOK /\ LeaseInv /\ RequestInv
      /\ holder.pc = "command" /\ InRequest /\ holder \in Holder /\ holder \in Waiting
  BY JobParts DEF RestrictionsInv, RestrictionsTypeOK, Command, InRequest
<1>2. holder.of \in Restrictions /\ holder.on \in BOOLEAN
      /\ \A r \in Restrictions : Busy(r) <=> r = holder.of
  BY <1>1, RequestParts
<1>3. UNCHANGED <<clock, due, promised>>
  BY DEF Command
<1>4. CASE /\ inForce' = [inForce EXCEPT ![holder.of] = holder.on]
           /\ holder' = [holder EXCEPT !.pc = "query"]
           /\ UNCHANGED <<memory, disk, doubtful>>
  <2>1. /\ holder' \in Waiting /\ holder'.pc = "query" /\ holder'.of = holder.of
        /\ holder'.by = holder.by
        /\ holder'.on = holder.on /\ holder'.until = holder.until
        /\ holder'.previous = holder.previous
    BY <1>1, <1>4 DEF Waiting
  <2>2. RestrictionsTypeOK'
    <3>1. holder' \in Holder
      BY <2>1, JobKinds
    <3>2. inForce' \in [Restrictions -> BOOLEAN]
      BY <1>1, <1>2, <1>4 DEF RestrictionsTypeOK
    <3> QED
      BY <1>1, <1>3, <1>4, <3>1, <3>2 DEF RestrictionsTypeOK
  <2>3. RequestInv'
    BY <1>1, <1>4, <2>1 DEF RequestInv, InRequest
  <2>4. ASSUME NEW r \in Restrictions \ doubtful'
        PROVE  LeaseAt(r)'
    <3>1. LeaseAt(r)
      BY <1>1, <1>4 DEF LeaseInv
    <3>2. Busy(r)' = Busy(r) /\ Standing(r)' = Standing(r)
      BY <1>1, <1>3, <2>1 DEF Busy, InRequest, Standing
    <3>3. CASE r = holder.of
      BY <1>2, <1>4, <2>1, <3>1, <3>2, <3>3 DEF LeaseAt, Untouched
    <3>4. CASE r # holder.of
      <4>1. inForce'[r] = inForce[r] /\ Lease(r)' = Lease(r) /\ ~Busy(r) /\ ~Busy(r)'
        BY <1>1, <1>2, <1>4, <3>2, <3>4 DEF Lease, RestrictionsTypeOK
      <4> QED
        BY <1>3, <1>4, <3>1, <3>2, <4>1 DEF LeaseAt, Untouched
    <3> QED
      BY <3>3, <3>4
  <2> QED
    BY <2>2, <2>3, <2>4 DEF RestrictionsInv, LeaseInv
<1>5. CASE /\ inForce' \in {inForce, [inForce EXCEPT ![holder.of] = holder.on]}
           /\ RestoreLease
           /\ doubtful' = doubtful \cup Behind
                                 \cup IF inForce' = inForce THEN {} ELSE {holder.of}
  <2>1. /\ memory' \in [Restrictions -> PlayerRecord] /\ disk' \in [Restrictions -> PlayerRecord]
        /\ memory'[holder.of].until = holder.previous
        /\ \A r \in Restrictions \ {holder.of} : memory'[r].until = memory[r].until
        /\ \A r \in Restrictions \ Behind : disk'[r].until = memory'[r].until
        /\ holder' = NoHolder
    BY <1>1, <1>5, RestoredLeases
  <2>2. RestrictionsTypeOK'
    <3>1. inForce' \in [Restrictions -> BOOLEAN]
      BY <1>1, <1>2, <1>5 DEF RestrictionsTypeOK
    <3>2. doubtful' \subseteq Restrictions
      BY <1>1, <1>2, <1>5 DEF RestrictionsTypeOK, Behind
    <3> QED
      BY <1>1, <1>3, <2>1, <3>1, <3>2, JobKinds DEF RestrictionsTypeOK
  <2>3. RequestInv'
    BY <2>1, JobKinds DEF RequestInv, InRequest
  <2>4. ASSUME NEW r \in Restrictions \ doubtful'
        PROVE  LeaseAt(r)'
    <3>1. LeaseAt(r) /\ r \notin Behind /\ Untouched(r)
      BY <1>1, <1>5 DEF LeaseInv, Untouched
    <3>2. inForce'[r] = inForce[r]
      BY <1>1, <1>5 DEF RestrictionsTypeOK
    <3>3. memory'[r].until = Lease(r)
      BY <1>2, <2>1 DEF Lease
    <3> QED
      BY <1>3, <2>1, <3>1, <3>2, <3>3, RestStands
  <2> QED
    BY <2>2, <2>3, <2>4 DEF RestrictionsInv, LeaseInv
<1> QED
  BY <1>4, <1>5 DEF Command

LEMMA QueryKeeps == ASSUME RestrictionsInv, ConstantsOK, Query PROVE RestrictionsInv'
<1>1. /\ RestrictionsTypeOK /\ LeaseInv /\ RequestInv
      /\ holder.pc = "query" /\ InRequest /\ holder \in Holder /\ holder \in Waiting
  BY JobParts DEF RestrictionsInv, RestrictionsTypeOK, Query, InRequest
<1>2. holder.of \in Restrictions /\ holder.on \in BOOLEAN
      /\ \A r \in Restrictions : Busy(r) <=> r = holder.of
  BY <1>1, RequestParts
<1>3. UNCHANGED <<clock, inForce, due, promised>>
  BY DEF Query
<1>4. CASE /\ inForce[holder.of] = holder.on
           /\ holder' = [pc |-> "apply", of |-> holder.of, by |-> holder.by, on |-> holder.on,
                      until |-> holder.until, previous |-> holder.previous, listed |-> Listed]
           /\ UNCHANGED <<memory, disk, doubtful>>
  <2>1. holder' \in Applying
    BY <1>1, <1>4 DEF Waiting, Applying, Listed
  <2>2. RestrictionsTypeOK'
    BY <1>1, <1>3, <1>4, <2>1, JobKinds DEF RestrictionsTypeOK
  <2>3. RequestInv'
    BY <1>1, <1>2, <1>3, <1>4 DEF RequestInv, InRequest, Listed
  <2>4. ASSUME NEW r \in Restrictions \ doubtful'
        PROVE  LeaseAt(r)'
    <3>1. LeaseAt(r)
      BY <1>1, <1>4 DEF LeaseInv
    <3>2. Busy(r)' = Busy(r) /\ Standing(r)' = Standing(r) /\ Lease(r)' = Lease(r)
      BY <1>1, <1>3, <1>4 DEF Busy, InRequest, Standing, Lease
    <3> QED
      BY <1>1, <1>3, <1>4, <3>1, <3>2 DEF LeaseAt, Untouched
  <2> QED
    BY <2>2, <2>3, <2>4 DEF RestrictionsInv, LeaseInv
<1>5. CASE RestoreLease /\ doubtful' = doubtful \cup {holder.of}
  <2>1. /\ memory' \in [Restrictions -> PlayerRecord] /\ disk' \in [Restrictions -> PlayerRecord]
        /\ \A r \in Restrictions \ {holder.of} : memory'[r].until = memory[r].until
        /\ holder' = NoHolder
    BY <1>1, <1>5, RestoredLeases
  <2>2. RestrictionsTypeOK'
    BY <1>1, <1>2, <1>3, <1>5, <2>1, JobKinds DEF RestrictionsTypeOK
  <2>3. RequestInv'
    BY <2>1, JobKinds DEF RequestInv, InRequest
  <2>4. ASSUME NEW r \in Restrictions \ doubtful'
        PROVE  LeaseAt(r)'
    <3>1. LeaseAt(r) /\ r # holder.of /\ ~Busy(r)
      BY <1>1, <1>2, <1>5 DEF LeaseInv
    <3>2. disk'[r].until = memory'[r].until
      <4>1. memory' = Restored /\ (disk' = disk \/ disk' = Restored)
        BY <1>5 DEF RestoreLease, SaveHistory
      <4> QED
        BY <2>1, <3>1, <4>1 DEF LeaseAt
    <3> QED
      BY <1>3, <2>1, <3>1, <3>2, RestStands DEF Untouched, Lease
  <2> QED
    BY <2>2, <2>3, <2>4 DEF RestrictionsInv, LeaseInv
<1> QED
  BY <1>4, <1>5 DEF Query

-----------------------------------------------------------------------------
(* The lists taken over *)

\* What the lists do to a restriction that no request is about: what they say
\* of it is in force, or nobody's.
LEMMA ListedLeases ==
    ASSUME RestrictionsInv, ConstantsOK, holder.pc \in {"apply", "refresh"},
           memory' = Applied(holder.listed)
    PROVE  /\ holder.listed \subseteq Restrictions
           /\ memory' \in [Restrictions -> PlayerRecord]
           /\ \A r \in Restrictions : memory'[r].until =
                  IF r \in holder.listed THEN memory[r].until ELSE NoLease
           /\ \A r \in Restrictions : (r \in holder.listed <=> inForce[r]) \/ promised[r] = Off
<1>1. RestrictionsTypeOK /\ RequestInv /\ holder \in Holder
  BY DEF RestrictionsInv, RestrictionsTypeOK
<1>2. holder.listed \subseteq Restrictions
  BY <1>1, JobParts DEF Applying, Refreshing
<1> QED
  BY <1>1, <1>2, NewRecords DEF RequestInv

LEMMA OthersListed ==
    ASSUME RestrictionsInv, ConstantsOK, holder.pc \in {"apply", "refresh"},
           memory' = Applied(holder.listed),
           UNCHANGED <<clock, inForce>>, holder' = NoHolder,
           NEW r \in Restrictions \ doubtful, ~Busy(r), promised'[r] = promised[r],
           disk'[r].until = memory'[r].until
    PROVE  LeaseAt(r)'
<1>1. RestrictionsTypeOK /\ LeaseAt(r)
  BY DEF RestrictionsInv, LeaseInv
<1>2. /\ memory'[r].until = IF r \in holder.listed THEN memory[r].until ELSE NoLease
      /\ (r \in holder.listed <=> inForce[r]) \/ promised[r] = Off
  BY ListedLeases
<1>3. /\ ~Busy(r)' /\ Standing(r)' = Standing(r)
      /\ Lease(r)' = memory'[r].until /\ Lease(r) = memory[r].until
  BY JobKinds DEF Busy, InRequest, Standing, Lease
<1>4. /\ Standing(r) => inForce[r]
      /\ promised[r] \in 1 .. Horizon /\ inForce[r] => memory[r].until = promised[r]
      /\ promised[r] = Forever => memory[r].until = NoLease
  BY <1>1, <1>3 DEF LeaseAt, Untouched
<1>5. promised[r] \in 1 .. Horizon /\ inForce[r] => memory'[r].until = promised[r]
  BY <1>1, <1>2, <1>4, Leases
<1>6. promised[r] = Forever => memory'[r].until = NoLease
  BY <1>2, <1>4
<1> QED
  BY <1>3, <1>4, <1>5, <1>6 DEF LeaseAt, Untouched

LEMMA ApplyKeeps == ASSUME RestrictionsInv, ConstantsOK, ApplyLists PROVE RestrictionsInv'
<1>1. /\ RestrictionsTypeOK /\ LeaseInv /\ RequestInv
      /\ holder.pc = "apply" /\ InRequest /\ holder \in Holder
  BY DEF RestrictionsInv, RestrictionsTypeOK, ApplyLists, InRequest
<1>2. /\ holder.of \in Restrictions /\ memory[holder.of].until = holder.until
      /\ holder.until \in 0 .. Horizon
      /\ holder.on \in BOOLEAN /\ (holder.by = "expiry" => ~holder.on)
      /\ \A r \in Restrictions : Busy(r) <=> r = holder.of
      /\ holder.by \in {"admin", "expiry"}
  BY <1>1, RequestParts, JobParts
<1>3. /\ memory' = Applied(holder.listed) /\ holder' = NoHolder /\ UNCHANGED <<clock, inForce, due>>
      /\ \/ /\ disk' = IF memory' = memory THEN disk ELSE memory'
            /\ promised' = [promised EXCEPT ![holder.of] = Promise]
            /\ doubtful' = IF holder.by = "admin" THEN doubtful \ ({holder.of} \ Behind) ELSE doubtful
         \/ /\ UNCHANGED <<disk, promised>>
            /\ doubtful' = doubtful \cup {holder.of} \cup Behind
  BY DEF ApplyLists
<1>4. /\ memory' \in [Restrictions -> PlayerRecord]
      /\ \A r \in Restrictions : memory'[r].until =
             IF r \in holder.listed THEN memory[r].until ELSE NoLease
      /\ \A r \in Restrictions : (r \in holder.listed <=> inForce[r]) \/ promised[r] = Off
      /\ holder.of \in holder.listed <=> holder.on
  BY <1>1, <1>3, ListedLeases DEF RequestInv
<1>5. RequestInv'
  BY <1>3, JobKinds DEF RequestInv, InRequest
<1>6. disk' \in [Restrictions -> PlayerRecord]
  BY <1>1, <1>3, <1>4 DEF RestrictionsTypeOK
<1>7. Promise \in {Off, Forever} \cup 1 .. Horizon
  <2>1. holder.by = "expiry" => promised[holder.of] \in {Off, Forever} \cup 1 .. Horizon
    BY <1>1, <1>2, Leases
  <2>2. holder.until # NoLease => holder.until \in 1 .. Horizon
    BY <1>2 DEF NoLease, ConstantsOK
  <2> QED
    BY <2>1, <2>2 DEF Promise
<1>8. RestrictionsTypeOK'
  <2>1. promised' \in [Restrictions -> {Off, Forever} \cup 1 .. Horizon]
    BY <1>1, <1>2, <1>3, <1>7 DEF RestrictionsTypeOK
  <2>2. doubtful' \subseteq Restrictions
    BY <1>1, <1>2, <1>3 DEF RestrictionsTypeOK, Behind
  <2> QED
    BY <1>1, <1>3, <1>4, <1>6, <2>1, <2>2, JobKinds DEF RestrictionsTypeOK
<1>9. ASSUME NEW r \in Restrictions \ doubtful', r # holder.of
      PROVE  LeaseAt(r)'
  <2>1. r \notin doubtful /\ ~Busy(r) /\ promised'[r] = promised[r]
    BY <1>1, <1>2, <1>3, <1>9 DEF RestrictionsTypeOK
  <2>2. disk'[r].until = memory'[r].until
    <3>1. CASE r \in Behind
      <4>1. disk' = IF memory' = memory THEN disk ELSE memory'
        BY <1>3, <1>9, <3>1
      <4>2. disk[r].until = memory[r].until
        BY <1>1, <2>1 DEF LeaseInv, LeaseAt
      <4> QED
        BY <4>1, <4>2
    <3>2. CASE r \notin Behind
      BY <3>2 DEF Behind
    <3> QED
      BY <3>1, <3>2
  <2> QED
    BY <1>1, <1>3, <2>1, <2>2, OthersListed
<1>10. ASSUME NEW r \in Restrictions \ doubtful', r = holder.of
       PROVE  LeaseAt(r)'
  <2>1. /\ disk' = IF memory' = memory THEN disk ELSE memory'
        /\ promised' = [promised EXCEPT ![holder.of] = Promise]
        /\ doubtful' = IF holder.by = "admin" THEN doubtful \ ({holder.of} \ Behind) ELSE doubtful
    BY <1>3, <1>10
  <2>2. promised'[r] = Promise
    BY <1>1, <1>10, <2>1 DEF RestrictionsTypeOK
  <2>3. disk'[r].until = memory'[r].until
    <3>1. CASE r \in Behind
      <4>1. r \notin doubtful
        BY <1>10, <2>1, <3>1
      <4>2. disk[r].until = memory[r].until
        BY <1>1, <4>1 DEF LeaseInv, LeaseAt
      <4> QED
        BY <2>1, <4>2
    <3>2. CASE r \notin Behind
      BY <3>2 DEF Behind
    <3> QED
      BY <3>1, <3>2
  <2>4. ~Busy(r)' /\ Lease(r)' = memory'[r].until
    BY <1>3, JobKinds DEF Busy, InRequest, Lease
  <2>5. CASE holder.by = "admin"
    <3>1. CASE ~holder.on \/ ~inForce[r]
      <4>1. promised'[r] = Off
        BY <1>10, <2>2, <2>5, <3>1 DEF Promise
      <4>2. Horizon \in Nat /\ Off # Forever /\ Off \notin 1 .. Horizon
            /\ clock' \in Nat /\ Off \notin Nat
        BY <1>1, <1>3, Leases DEF ConstantsOK, RestrictionsTypeOK
      <4>3. ~Standing(r)'
        BY <4>1, <4>2 DEF Standing
      <4> QED
        BY <2>3, <2>4, <4>1, <4>2, <4>3 DEF LeaseAt
    <3>2. CASE holder.on /\ inForce[r]
      <4>1. promised'[r] = IF holder.until = NoLease THEN Forever ELSE holder.until
        BY <1>10, <2>2, <2>5, <3>2 DEF Promise
      <4>2. memory'[r].until = holder.until
        BY <1>2, <1>4, <1>10, <3>2
      <4>3. inForce'[r] /\ Forever \notin 1 .. Horizon /\ holder.until # Forever
        BY <1>1, <1>2, <1>3, <3>2, Leases DEF ConstantsOK
      <4> QED
        BY <2>3, <2>4, <4>1, <4>2, <4>3 DEF LeaseAt
    <3> QED
      BY <3>1, <3>2
  <2>6. CASE holder.by = "expiry"
    <3>1. r \notin doubtful /\ Busy(r) /\ promised'[r] = promised[r] /\ r \notin holder.listed
      BY <1>2, <1>4, <1>10, <2>1, <2>2, <2>6 DEF Promise
    <3>2. LeaseAt(r)
      BY <1>1, <3>1 DEF LeaseInv
    <3>3. ~Standing(r)
      BY <2>6, <3>1, <3>2 DEF LeaseAt
    <3>4. ~Standing(r)' /\ promised'[r] # Forever
      BY <1>3, <3>1, <3>3 DEF Standing
    <3>5. inForce'[r] => promised'[r] = Off
      BY <1>3, <1>4, <3>1
    <3> QED
      BY <1>1, <2>3, <2>4, <3>4, <3>5, Leases DEF LeaseAt
  <2> QED
    BY <1>2, <1>10, <2>5, <2>6
<1>11. ASSUME NEW r \in Restrictions \ doubtful'
       PROVE  LeaseAt(r)'
  BY <1>9, <1>10
<1> QED
  BY <1>5, <1>8, <1>11 DEF RestrictionsInv, LeaseInv

LEMMA RefreshKeeps ==
    ASSUME RestrictionsInv, ConstantsOK, Refresh \/ RefreshApplies
    PROVE  RestrictionsInv'
<1>1. RestrictionsTypeOK /\ LeaseInv /\ RequestInv
  BY DEF RestrictionsInv
<1>2. CASE Refresh
  <2>1. /\ holder = NoHolder /\ holder' = [pc |-> "refresh", listed |-> Listed]
        /\ UNCHANGED <<clock, inForce, memory, disk, due, promised, doubtful>>
    BY <1>2 DEF Refresh
  <2>2. holder' \in Refreshing
    BY <2>1 DEF Refreshing, Listed
  <2>3. RestrictionsTypeOK'
    BY <1>1, <2>1, <2>2, JobKinds DEF RestrictionsTypeOK
  <2>4. RequestInv'
    BY <2>1 DEF RequestInv, InRequest, Listed
  <2>5. ASSUME NEW r \in Restrictions \ doubtful'
        PROVE  LeaseAt(r)'
    <3>1. LeaseAt(r) /\ ~Busy(r) /\ ~Busy(r)'
      BY <1>1, <2>1, JobKinds DEF LeaseInv, Busy, InRequest
    <3> QED
      BY <2>1, <3>1 DEF LeaseAt, Untouched, Lease, Standing
  <2> QED
    BY <2>3, <2>4, <2>5 DEF RestrictionsInv, LeaseInv
<1>3. CASE RefreshApplies
  <2>1. /\ holder.pc = "refresh" /\ memory' = Applied(holder.listed) /\ holder' = NoHolder
        /\ (disk' = disk \/ disk' = memory') /\ doubtful' = doubtful \cup Behind
        /\ UNCHANGED <<clock, inForce, due, promised>>
    BY <1>3 DEF RefreshApplies, SaveHistory
  <2>2. memory' \in [Restrictions -> PlayerRecord] /\ doubtful' \subseteq Restrictions
    BY <1>1, <2>1, ListedLeases DEF RestrictionsTypeOK, Behind
  <2>3. RestrictionsTypeOK'
    BY <1>1, <2>1, <2>2, JobKinds DEF RestrictionsTypeOK
  <2>4. RequestInv'
    BY <2>1, JobKinds DEF RequestInv, InRequest
  <2>5. ASSUME NEW r \in Restrictions \ doubtful'
        PROVE  LeaseAt(r)'
    <3>1. r \notin doubtful /\ disk'[r].until = memory'[r].until
      BY <2>1 DEF Behind
    <3>2. ~Busy(r)
      BY <2>1 DEF Busy, InRequest
    <3> QED
      BY <2>1, <3>1, <3>2, OthersListed
  <2> QED
    BY <2>3, <2>4, <2>5 DEF RestrictionsInv, LeaseInv
<1> QED
  BY <1>2, <1>3

-----------------------------------------------------------------------------
(* What happens around the manager *)

LEMMA TickKeeps ==
    ASSUME RestrictionsInv, ConstantsOK, TimePasses \/ ExpiryLooks PROVE RestrictionsInv'
<1>1. RestrictionsTypeOK /\ LeaseInv /\ RequestInv
  BY DEF RestrictionsInv
<1>2. UNCHANGED <<inForce, memory, disk, holder, promised, doubtful>>
  BY DEF TimePasses, ExpiryLooks
<1>3. clock' = clock \/ (clock < Horizon /\ clock' = clock + 1)
  BY DEF TimePasses, ExpiryLooks
<1>4. clock \in 0 .. Horizon /\ Horizon \in Nat
  BY <1>1, Leases
<1>5. due' \subseteq Restrictions
  BY <1>1 DEF TimePasses, ExpiryLooks, Expired, RestrictionsTypeOK
<1>6. RestrictionsTypeOK'
  <2>1. clock' \in 0 .. Horizon
    BY <1>3, <1>4
  <2> QED
    BY <1>1, <1>2, <1>5, <2>1 DEF RestrictionsTypeOK
<1>7. RequestInv'
  BY <1>1, <1>2 DEF RequestInv, InRequest
<1>8. ASSUME NEW r \in Restrictions \ doubtful'
      PROVE  LeaseAt(r)'
  <2>1. LeaseAt(r)
    BY <1>1, <1>2 DEF LeaseInv
  <2>2. Standing(r)' => Standing(r)
    BY <1>2, <1>3, <1>4 DEF Standing
  <2>3. Busy(r)' = Busy(r) /\ Lease(r)' = Lease(r)
    BY <1>2 DEF Busy, InRequest, Lease
  <2> QED
    BY <1>2, <2>1, <2>2, <2>3 DEF LeaseAt, Untouched
<1> QED
  BY <1>6, <1>7, <1>8 DEF RestrictionsInv, LeaseInv

LEMMA OthersKeep ==
    ASSUME RestrictionsInv, ConstantsOK, NEW q \in Restrictions, Others(q)
    PROVE  RestrictionsInv'
<1>1. RestrictionsTypeOK /\ LeaseInv /\ RequestInv
  BY DEF RestrictionsInv
<1>2. /\ UNCHANGED <<clock, memory, disk, holder, due, doubtful>>
      /\ inForce' \in [Restrictions -> BOOLEAN] /\ promised'[q] = Off
      /\ promised' \in [Restrictions -> {Off, Forever} \cup 1 .. Horizon]
      /\ \A r \in Restrictions \ {q} : inForce'[r] = inForce[r] /\ promised'[r] = promised[r]
  BY <1>1 DEF Others, RestrictionsTypeOK
<1>3. RestrictionsTypeOK'
  BY <1>1, <1>2 DEF RestrictionsTypeOK
<1>4. RequestInv'
  BY <1>1, <1>2 DEF RequestInv, InRequest
<1>5. ASSUME NEW r \in Restrictions \ doubtful'
      PROVE  LeaseAt(r)'
  <2>1. LeaseAt(r) /\ Busy(r)' = Busy(r) /\ Lease(r)' = Lease(r)
    BY <1>1, <1>2 DEF LeaseInv, Busy, InRequest, Lease
  <2>2. CASE r = q
    <3>1. Off # Forever /\ Off \notin 1 .. Horizon /\ Off \notin clock + 1 .. Horizon
      BY <1>1, Leases DEF ConstantsOK
    <3> QED
      BY <1>2, <2>1, <2>2, <3>1 DEF LeaseAt, Standing
  <2>3. CASE r # q
    BY <1>2, <2>1, <2>3 DEF LeaseAt, Standing, Untouched
  <2> QED
    BY <2>2, <2>3
<1> QED
  BY <1>3, <1>4, <1>5 DEF RestrictionsInv, LeaseInv

LEMMA DeathKeeps == ASSUME RestrictionsInv, ConstantsOK, ManagerRestarts PROVE RestrictionsInv'
<1>1. RestrictionsTypeOK /\ LeaseInv
  BY DEF RestrictionsInv
<1>2. /\ memory' = disk /\ holder' = NoHolder /\ due' = {} /\ UNCHANGED <<clock, disk, promised>>
      /\ ~InRequest => UNCHANGED <<inForce, doubtful>>
      /\ InRequest => /\ doubtful' = doubtful \cup {holder.of}
                      /\ inForce' \in {inForce, [inForce EXCEPT ![holder.of] = holder.on]}
  BY DEF ManagerRestarts
<1>3. InRequest => holder.of \in Restrictions /\ holder.on \in BOOLEAN
  BY RequestParts
<1>4. RestrictionsTypeOK'
  <2>1. inForce' \in [Restrictions -> BOOLEAN] /\ doubtful' \subseteq Restrictions
    BY <1>1, <1>2, <1>3 DEF RestrictionsTypeOK
  <2> QED
    BY <1>1, <1>2, <2>1, JobKinds DEF RestrictionsTypeOK
<1>5. RequestInv'
  BY <1>2, JobKinds DEF RequestInv, InRequest
<1>6. ASSUME NEW r \in Restrictions \ doubtful'
      PROVE  LeaseAt(r)'
  <2>1. r \notin doubtful /\ ~Busy(r) /\ inForce'[r] = inForce[r]
    BY <1>1, <1>2, <1>3 DEF Busy, RestrictionsTypeOK
  <2>2. LeaseAt(r) /\ Lease(r) = memory[r].until
    BY <1>1, <2>1 DEF LeaseInv, Lease
  <2> QED
    BY <1>2, <2>1, <2>2, RestStands DEF LeaseAt, Untouched
<1> QED
  BY <1>4, <1>5, <1>6 DEF RestrictionsInv, LeaseInv

-----------------------------------------------------------------------------

LEMMA InitIInv == ASSUME ConstantsOK, RestrictionsInit PROVE RestrictionsInv
<1>1. RestrictionsTypeOK
  <2>1. 0 \in 0 .. Horizon
    BY DEF ConstantsOK
  <2>2. [on |-> FALSE, until |-> NoLease] \in PlayerRecord
    BY <2>1 DEF PlayerRecord, NoLease
  <2> QED
    BY <2>1, <2>2, JobKinds DEF RestrictionsInit, RestrictionsTypeOK
<1>2. RequestInv
  BY JobKinds DEF RestrictionsInit, RequestInv, InRequest
<1>3. ASSUME NEW r \in Restrictions
      PROVE  LeaseAt(r)
  <2>1. promised[r] = Off /\ disk = memory /\ ~Busy(r)
    BY JobKinds DEF RestrictionsInit, Busy, InRequest
  <2> QED
    BY <1>1, <2>1, Leases DEF LeaseAt
<1> QED
  BY <1>1, <1>2, <1>3 DEF RestrictionsInv, LeaseInv

LEMMA Inductive ==
    ASSUME ConstantsOK, RestrictionsInv, [RestrictionsNext]_restrictionsVars PROVE RestrictionsInv'
<1>1. CASE RequestStep
  BY <1>1, RequestKeeps, CommandKeeps, QueryKeeps, ApplyKeeps, RefreshKeeps DEF RequestStep
<1>2. CASE ExpiryStep
  BY <1>2, TickKeeps, ExpiryKeeps DEF ExpiryStep
<1>3. CASE WorldStep
  BY <1>3, TickKeeps, DeathKeeps, OthersKeep DEF WorldStep
<1>4. CASE UNCHANGED restrictionsVars
  <2>1. RestrictionsTypeOK' /\ RequestInv'
    BY <1>4 DEF restrictionsVars, RestrictionsInv, RestrictionsTypeOK, RequestInv, InRequest
  <2>2. LeaseInv'
    BY <1>4
      DEF restrictionsVars, RestrictionsInv, LeaseInv, LeaseAt, Standing, Untouched, Lease,
          Busy, InRequest
  <2> QED
    BY <2>1, <2>2 DEF RestrictionsInv
<1> QED
  BY <1>1, <1>2, <1>3, <1>4 DEF RestrictionsNext

LEMMA Invariance == RestrictionsSpec => []RestrictionsInv
<1>1. ConstantsOK
  BY TimeAssumption, PromiseAssumption DEF ConstantsOK
<1> QED
  BY <1>1, InitIInv, Inductive, PTL DEF RestrictionsSpec

\* Every reachable state has the declared types, for any restrictions, durations
\* and time: what a request, an expiry or a refresh holds the mutex with is what
\* the next step of it needs (setPlayerRestrictionWithOptions).
THEOREM RestrictionsTypeCorrect == RestrictionsSpec => []RestrictionsTypeOK
<1>1. RestrictionsInv => RestrictionsTypeOK
  BY DEF RestrictionsInv
<1> QED
  BY <1>1, Invariance, PTL

\* A mute or ban that was reported stands until its time, with its lease stored,
\* whatever requests, refreshes and expiries, failing commands and restarts come
\* between (setPlayerRestrictionWithOptions, applyPlayerRestrictions).
THEOREM ReportedRestrictionsStand == RestrictionsSpec => []RestrictionsStand
<1>1. RestrictionsInv => RestrictionsStand
  <2> SUFFICES ASSUME RestrictionsInv, NEW r \in Restrictions \ doubtful, ~Busy(r)
               PROVE  /\ promised[r] = Forever \/ promised[r] \in clock + 1 .. Horizon
                            => inForce[r]
                      /\ promised[r] \in 1 .. Horizon /\ inForce[r]
                            => disk[r].until = promised[r] /\ memory[r].until = promised[r]
    BY DEF RestrictionsStand, ReportedStands, TemporaryIsStored
  <2>1. LeaseAt(r)
    BY DEF RestrictionsInv, LeaseInv
  <2> QED
    BY <2>1 DEF LeaseAt, Untouched, Standing, Lease
<1> QED
  BY <1>1, Invariance, PTL

-----------------------------------------------------------------------------
(* Counting *)

\* What holds of the first number and is handed on holds up to the last one.
LEMMA CountUp ==
    ASSUME NEW first \in Nat, NEW last \in Nat, NEW S,
           first \in S, \A n \in first .. last - 1 : n \in S => n + 1 \in S
    PROVE  \A n \in first .. last : n \in S
<1> SUFFICES ASSUME NEW bad \in first .. last, bad \notin S
             PROVE  FALSE
  OBVIOUS
<1> DEFINE less == {ss \in Nat \X Nat : ss[1] < ss[2]}
           B == {n \in first .. last : n \notin S}
<1>1. IsWellFoundedOn(less, Nat)
  BY NatLessThanWellFounded DEF OpToRel
<1>2. B \subseteq Nat /\ B # {}
  OBVIOUS
<1> HIDE DEF less, B
<1>3. PICK n \in B : \A m \in B : ~ (<<m, n>> \in less)
  BY <1>1, <1>2, WFMin
<1>4. n \in first .. last /\ n \notin S /\ n # first
  BY DEF B
<1>5. n - 1 \in first .. last - 1 /\ n - 1 < n /\ (n - 1) + 1 = n
  BY <1>4
<1>6. n - 1 \notin B
  <2>1. n - 1 \in Nat /\ n \in Nat
    BY <1>4, <1>5
  <2>2. <<n - 1, n>> \in less
    BY <1>5, <2>1 DEF less
  <2> QED
    BY <1>3, <2>2
<1>7. n - 1 \in S
  BY <1>5, <1>6 DEF B
<1> QED
  BY <1>4, <1>5, <1>7

-----------------------------------------------------------------------------
(* The lines of a log, one after the other *)

\* The steps of Process, up to a line.
Steps(g, processor, run, log, read, last) ==
    g = [i \in 0 .. last |-> IF i <= read THEN Begins(processor)
                             ELSE ProcessLine(g[i - 1], log[i], <<run, i>>)]

\* The steps of the processor over a log, as a function of the line.
LEMMA StepsExist ==
    ASSUME NEW processor, NEW run, NEW log, NEW read \in Nat, NEW last \in Nat
    PROVE  \E g : Steps(g, processor, run, log, read, last)
<1> DEFINE S == {n \in Nat : \E g : Steps(g, processor, run, log, read, n)}
<1>1. 0 \in S
  <2> DEFINE g == [i \in 0 .. 0 |-> Begins(processor)]
  <2>1. \A i \in 0 .. 0 : i <= read
    OBVIOUS
  <2>2. g = [i \in 0 .. 0 |-> IF i <= read THEN Begins(processor)
                              ELSE ProcessLine(g[i - 1], log[i], <<run, i>>)]
    BY <2>1, Zenon
  <2> QED
    BY <2>2, Zenon DEF Steps
<1>2. ASSUME NEW n \in 0 .. last - 1, n \in S
      PROVE  n + 1 \in S
  <2>1. PICK g : Steps(g, processor, run, log, read, n)
    BY <1>2
  <2> DEFINE h == [i \in 0 .. n + 1 |->
                      IF i <= n THEN g[i]
                      ELSE IF i <= read THEN Begins(processor)
                      ELSE ProcessLine(g[n], log[i], <<run, i>>)]
  <2>2. \A i \in 0 .. n : h[i] = g[i]
    OBVIOUS
  <2>3. \A i \in 0 .. n + 1 : h[i] = IF i <= read THEN Begins(processor)
                                     ELSE ProcessLine(h[i - 1], log[i], <<run, i>>)
    <3> TAKE i \in 0 .. n + 1
    <3>1. CASE i \in 0 .. n
      <4>1. g[i] = IF i <= read THEN Begins(processor)
                   ELSE ProcessLine(g[i - 1], log[i], <<run, i>>)
        BY <2>1, <3>1 DEF Steps
      <4>2. i > read => i - 1 \in 0 .. n
        BY <3>1
      <4> QED
        BY <4>1, <4>2, <2>2, <3>1
    <3>2. CASE i = n + 1
      BY <3>2, <2>2
    <3> QED
      BY <3>1, <3>2
  <2> HIDE DEF h
  <2>4. h = [i \in 0 .. n + 1 |-> h[i]]
    BY DEF h
  <2>5. Steps(h, processor, run, log, read, n + 1)
    BY <2>3, <2>4, Zenon DEF Steps
  <2> QED
    BY <2>5
<1> HIDE DEF S
<1>3. last \in S
  BY <1>1, <1>2, CountUp
<1> QED
  BY <1>3 DEF S

\* Process is the last of its steps.
ProcessedBy(g, processor, run, log, read) ==
    /\ Process(processor, run, log, read) = g[Len(log)]
    /\ \A i \in 0 .. Len(log) :
          g[i] = IF i <= read THEN Begins(processor)
                 ELSE ProcessLine(g[i - 1], log[i], <<run, i>>)

\* What the processor makes of a log is the last of these steps.
LEMMA ProcessSteps ==
    ASSUME NEW processor, NEW run, NEW log \in Seq(Line), NEW read \in Nat
    PROVE  \E g : ProcessedBy(g, processor, run, log, read)
<1>0. Len(log) \in Nat
  OBVIOUS
<1>1. \E g : Steps(g, processor, run, log, read, Len(log))
  BY <1>0, StepsExist
<1>2. \E g : /\ Steps(g, processor, run, log, read, Len(log))
             /\ Process(processor, run, log, read) = g[Len(log)]
  BY <1>1 DEF Process, Steps
<1>3. PICK g : /\ Steps(g, processor, run, log, read, Len(log))
               /\ Process(processor, run, log, read) = g[Len(log)]
  BY <1>2
<1>4. \A i \in 0 .. Len(log) :
         g[i] = IF i <= read THEN Begins(processor)
                ELSE ProcessLine(g[i - 1], log[i], <<run, i>>)
  BY <1>3 DEF Steps
<1> QED
  BY <1>3, <1>4 DEF ProcessedBy

-----------------------------------------------------------------------------
(* Events, one after the other *)

AppliedBy(g, history, events, last) ==
    g = [k \in 0 .. last |-> IF k = 0 THEN history ELSE ApplyEvent(g[k - 1], events[k])]

\* The histories after each of some events, as a function of their number.
LEMMA AppliedExist ==
    ASSUME NEW history, NEW events, NEW last \in Nat
    PROVE  \E g : AppliedBy(g, history, events, last)
<1> DEFINE S == {n \in Nat : \E g : AppliedBy(g, history, events, n)}
<1>1. 0 \in S
  <2> DEFINE g == [i \in 0 .. 0 |-> history]
  <2>1. \A i \in 0 .. 0 : i = 0
    OBVIOUS
  <2>2. g = [k \in 0 .. 0 |-> IF k = 0 THEN history ELSE ApplyEvent(g[k - 1], events[k])]
    BY <2>1, Zenon
  <2> QED
    BY <2>2, Zenon DEF AppliedBy
<1>2. ASSUME NEW n \in 0 .. last - 1, n \in S
      PROVE  n + 1 \in S
  <2>1. PICK g : AppliedBy(g, history, events, n)
    BY <1>2
  <2> DEFINE h == [k \in 0 .. n + 1 |-> IF k <= n THEN g[k] ELSE ApplyEvent(g[n], events[k])]
  <2>2. \A k \in 0 .. n : h[k] = g[k]
    OBVIOUS
  <2>3. \A k \in 0 .. n + 1 : h[k] = IF k = 0 THEN history ELSE ApplyEvent(h[k - 1], events[k])
    <3> TAKE k \in 0 .. n + 1
    <3>1. CASE k \in 0 .. n
      <4>1. g[k] = IF k = 0 THEN history ELSE ApplyEvent(g[k - 1], events[k])
        BY <2>1, <3>1 DEF AppliedBy
      <4>2. k # 0 => k - 1 \in 0 .. n
        BY <3>1
      <4> QED
        BY <4>1, <4>2, <2>2, <3>1
    <3>2. CASE k = n + 1
      BY <3>2, <2>2
    <3> QED
      BY <3>1, <3>2
  <2> HIDE DEF h
  <2>4. h = [k \in 0 .. n + 1 |-> h[k]]
    BY DEF h
  <2>5. AppliedBy(h, history, events, n + 1)
    BY <2>3, <2>4, Zenon DEF AppliedBy
  <2> QED
    BY <2>5
<1> HIDE DEF S
<1>3. last \in S
  BY <1>1, <1>2, CountUp
<1> QED
  BY <1>3 DEF S

\* What is stored after some events is the last of these histories.
LEMMA ApplySteps ==
    ASSUME NEW history, NEW T, NEW events \in Seq(T)
    PROVE  \E g : /\ ApplyEvents(history, events) = g[Len(events)]
                  /\ g[0] = history
                  /\ \A k \in 1 .. Len(events) : g[k] = ApplyEvent(g[k - 1], events[k])
<1>0. Len(events) \in Nat
  OBVIOUS
<1>1. \E g : AppliedBy(g, history, events, Len(events))
  BY <1>0, AppliedExist
<1>2. \E g : /\ AppliedBy(g, history, events, Len(events))
             /\ ApplyEvents(history, events) = g[Len(events)]
  BY <1>1 DEF ApplyEvents, AppliedBy
<1>3. PICK g : /\ AppliedBy(g, history, events, Len(events))
               /\ ApplyEvents(history, events) = g[Len(events)]
  BY <1>2
<1>4. \A k \in 0 .. Len(events) :
         g[k] = IF k = 0 THEN history ELSE ApplyEvent(g[k - 1], events[k])
  BY <1>3 DEF AppliedBy
<1>5. g[0] = history
  BY <1>4
<1>6. \A k \in 1 .. Len(events) : g[k] = ApplyEvent(g[k - 1], events[k])
  BY <1>4
<1> QED
  BY <1>3, <1>5, <1>6

\* Events are applied in two parts as in one.
LEMMA ApplyParts ==
    ASSUME NEW history, NEW T, NEW first \in Seq(T), NEW second \in Seq(T)
    PROVE  ApplyEvents(history, first \o second)
               = ApplyEvents(ApplyEvents(history, first), second)
<1> DEFINE both == first \o second
           m == Len(first)
           n == Len(second)
<1>1. both \in Seq(T) /\ Len(both) = m + n /\ m \in Nat /\ n \in Nat
  OBVIOUS
<1>2. \A k \in 1 .. m : both[k] = first[k]
  OBVIOUS
<1>3. \A k \in 1 .. n : both[m + k] = second[k]
  OBVIOUS
<1> HIDE DEF both, m, n
<1>4. PICK g : /\ ApplyEvents(history, both) = g[m + n]
               /\ g[0] = history
               /\ \A k \in 1 .. m + n : g[k] = ApplyEvent(g[k - 1], both[k])
  BY <1>1, ApplySteps
<1>5. PICK f : /\ ApplyEvents(history, first) = f[m]
               /\ f[0] = history
               /\ \A k \in 1 .. m : f[k] = ApplyEvent(f[k - 1], first[k])
  <2>1. \E f : /\ ApplyEvents(history, first) = f[Len(first)]
               /\ f[0] = history
               /\ \A k \in 1 .. Len(first) : f[k] = ApplyEvent(f[k - 1], first[k])
    BY ONLY first \in Seq(T), ApplySteps
  <2> QED
    BY <2>1 DEF m
<1>6. PICK h : /\ ApplyEvents(f[m], second) = h[n]
               /\ h[0] = f[m]
               /\ \A k \in 1 .. n : h[k] = ApplyEvent(h[k - 1], second[k])
  BY ApplySteps DEF n
<1>7. g[m] = f[m]
  <2> DEFINE S == {k \in 0 .. m : g[k] = f[k]}
  <2>1. 0 \in S
    BY <1>1, <1>4, <1>5
  <2>2. ASSUME NEW k \in 0 .. m - 1, k \in S
        PROVE  k + 1 \in S
    <3>1. k + 1 \in 1 .. m /\ k + 1 \in 1 .. m + n /\ (k + 1) - 1 = k
      BY <1>1
    <3>2. g[k + 1] = ApplyEvent(g[k], both[k + 1]) /\ f[k + 1] = ApplyEvent(f[k], first[k + 1])
      BY <1>4, <1>5, <3>1
    <3> QED
      BY <2>2, <3>1, <3>2, <1>2
  <2> HIDE DEF S
  <2>3. m \in S
    <3>1. 0 \in Nat /\ m \in 0 .. m
      BY <1>1
    <3> QED
      BY <2>1, <2>2, <1>1, <3>1, CountUp
  <2> QED
    BY <2>3 DEF S
<1>8. g[m + n] = h[n]
  <2> DEFINE S == {k \in 0 .. n : g[m + k] = h[k]}
  <2>1. 0 \in S
    BY <1>1, <1>6, <1>7
  <2>2. ASSUME NEW k \in 0 .. n - 1, k \in S
        PROVE  k + 1 \in S
    <3>1. /\ k + 1 \in 1 .. n /\ m + (k + 1) \in 1 .. m + n
          /\ (k + 1) - 1 = k /\ (m + (k + 1)) - 1 = m + k
      BY <1>1
    <3>2. /\ g[m + (k + 1)] = ApplyEvent(g[m + k], both[m + (k + 1)])
          /\ h[k + 1] = ApplyEvent(h[k], second[k + 1])
      BY <1>4, <1>6, <3>1
    <3> QED
      BY <2>2, <3>1, <3>2, <1>3
  <2> HIDE DEF S
  <2>3. n \in S
    <3>1. 0 \in Nat /\ n \in 0 .. n
      BY <1>1
    <3> QED
      BY <2>1, <2>2, <1>1, <3>1, CountUp
  <2> QED
    BY <2>3 DEF S
<1> QED
  BY <1>4, <1>5, <1>6, <1>8 DEF both

\* One more event is applied to what the events before it made.
LEMMA ApplyOne ==
    ASSUME NEW history, NEW T, NEW events \in Seq(T), NEW event \in T
    PROVE  /\ ApplyEvents(history, <<>>) = history
           /\ ApplyEvents(history, Append(events, event))
                  = ApplyEvent(ApplyEvents(history, events), event)
<1>1. <<>> \in Seq(T) /\ Len(<<>>) = 0
  OBVIOUS
<1>2. ApplyEvents(history, <<>>) = history
  BY <1>1, ApplySteps
<1> DEFINE one == <<event>>
           h == ApplyEvents(history, events)
<1>3. one \in Seq(T) /\ Len(one) = 1 /\ one[1] = event
  OBVIOUS
<1>4. Append(events, event) = events \o one
  OBVIOUS
<1> HIDE DEF h, one
<1>5. PICK g : /\ ApplyEvents(h, one) = g[Len(one)]
               /\ g[0] = h
               /\ \A k \in 1 .. Len(one) : g[k] = ApplyEvent(g[k - 1], one[k])
  BY <1>3, ApplySteps
<1>6. g[1] = ApplyEvent(g[0], event)
  BY <1>3, <1>5
<1>7. ApplyEvents(h, one) = ApplyEvent(h, event)
  BY <1>3, <1>5, <1>6
<1>8. ApplyEvents(history, events \o one) = ApplyEvents(h, one)
  BY <1>3, ApplyParts DEF h
<1> QED
  BY <1>2, <1>4, <1>7, <1>8 DEF h

-----------------------------------------------------------------------------
(* One line and one event *)

Place == Nat \X Nat
Processor == [live : [Players -> Place], missing : SUBSET Players, seen : SUBSET Players]
EventType == [kind : {"login", "logout"}, session : Place]
Step == [to : Processor, events : Seq(EventType), absorbed : BOOLEAN]
HistoryType == [open : SUBSET Place, closed : SUBSET Place, imported : SUBSET Nat]

Sessions(processor) == {processor.live[p] : p \in Live(processor)}
LogoutsOf(events) == {events[k].session : k \in {j \in DOMAIN events : events[j].kind = "logout"}}

\* The processor of a new loop has no live session.
LEMMA FreshFacts ==
    /\ Fresh \in Processor
    /\ Live(Fresh) = {} /\ Sessions(Fresh) = {} /\ Fresh.seen = {}
    /\ \A p \in Players : Fresh.live[p] = NoSession
<1>1. NoSession \in Place
  BY DEF NoSession, Place
<1>2. Fresh \in Processor
  BY <1>1 DEF Fresh, Processor
<1>3. \A p \in Players : Fresh.live[p] = NoSession
  BY DEF Fresh
<1>4. Live(Fresh) = {}
  BY <1>3 DEF Live
<1> QED
  BY <1>2, <1>3, <1>4 DEF Sessions, Fresh

\* A processor that forgets some players is as before for the others.
LEMMA ForgetFacts ==
    ASSUME NEW b \in Processor, NEW gone \in SUBSET Players
    PROVE  /\ Forget(b, gone) \in Processor
           /\ \A p \in Players :
                 Forget(b, gone).live[p] = IF p \in gone THEN NoSession ELSE b.live[p]
           /\ Live(Forget(b, gone)) = Live(b) \ gone
           /\ Forget(b, gone).seen = b.seen \ gone
           /\ Forget(b, gone).missing = b.missing \ gone
<1>1. NoSession \in Place
  BY DEF NoSession, Place
<1>2. b.live \in [Players -> Place] /\ b.missing \in SUBSET Players /\ b.seen \in SUBSET Players
  BY DEF Processor
<1>3. [p \in Players |-> IF p \in gone THEN NoSession ELSE b.live[p]] \in [Players -> Place]
  BY <1>1, <1>2
<1>4. Forget(b, gone) \in Processor
  BY <1>2, <1>3 DEF Forget, Processor
<1>5. \A p \in Players : Forget(b, gone).live[p] = IF p \in gone THEN NoSession ELSE b.live[p]
  BY DEF Forget
<1>6. Live(Forget(b, gone)) = Live(b) \ gone
  BY <1>5 DEF Live
<1> QED
  BY <1>4, <1>5, <1>6 DEF Forget

\* A processor that takes up a session of a player is as before for the others.
LEMMA TakesUpFacts ==
    ASSUME NEW b \in Processor, NEW p \in Players, NEW session
    PROVE  TakesUp(b, p, session)
               = [live |-> [b.live EXCEPT ![p] = session],
                  missing |-> b.missing \ {p}, seen |-> b.seen]
<1>1. PICK live \in [Players -> Place], missing \in SUBSET Players, seen \in SUBSET Players :
        b = [live |-> live, missing |-> missing, seen |-> seen]
  BY DEF Processor
<1>2. /\ b.live = live /\ b.missing = missing /\ b.seen = seen
  BY <1>1
<1>3. [b EXCEPT !.live[p] = session]
        = [live |-> [live EXCEPT ![p] = session], missing |-> missing, seen |-> seen]
  BY <1>1
<1>4. TakesUp(b, p, session) = [[b EXCEPT !.live[p] = session] EXCEPT !.missing = missing \ {p}]
  BY <1>2 DEF TakesUp
<1> QED
  BY <1>2, <1>3, <1>4

\* What a line does to a step.
AuthTakes(step, line, session, next) ==
    /\ next \in Step
    /\ line.who \in Live(step.to) =>
          next.to = step.to /\ next.events = step.events /\ next.absorbed = TRUE
    /\ line.who \notin Live(step.to) =>
          /\ \A p \in Players :
                next.to.live[p] = IF p = line.who THEN session ELSE step.to.live[p]
          /\ Live(next.to) = Live(step.to) \cup {line.who}
          /\ next.to.seen = step.to.seen
          /\ next.events = Append(step.events, Event("login", session))
          /\ next.absorbed = step.absorbed

CloseTakes(step, line, next) ==
    /\ next \in Step
    /\ \A p \in Players :
          next.to.live[p] = IF p = line.who THEN NoSession ELSE step.to.live[p]
    /\ Live(next.to) = Live(step.to) \ {line.who}
    /\ next.to.seen = step.to.seen \ {line.who}
    /\ next.absorbed = step.absorbed
    /\ line.who \in Live(step.to) =>
          next.events = Append(step.events, Event("logout", step.to.live[line.who]))
    /\ line.who \notin Live(step.to) => next.events = step.events

\* The line of an authentication: absorbed by a live session, or a login.
LEMMA AuthEffect ==
    ASSUME NEW step \in Step, NEW line \in Line, line.kind = "auth",
           NEW session \in Place, session # NoSession
    PROVE  AuthTakes(step, line, session, ProcessLine(step, line, session))
<1> SUFFICES ASSUME NEW next, next = ProcessLine(step, line, session)
             PROVE  AuthTakes(step, line, session, next)
  OBVIOUS
<1> DEFINE w == line.who
<1>1. /\ w \in Players /\ next = Authenticates(step, w, session)
  BY DEF ProcessLine, Line
<1>2. /\ step = [to |-> step.to, events |-> step.events, absorbed |-> step.absorbed]
      /\ step.to \in Processor /\ step.events \in Seq(EventType) /\ step.absorbed \in BOOLEAN
  BY DEF Step
<1>3. /\ step.to.live \in [Players -> Place]
      /\ step.to.missing \in SUBSET Players /\ step.to.seen \in SUBSET Players
      /\ step.to = [live |-> step.to.live, missing |-> step.to.missing, seen |-> step.to.seen]
  BY <1>2 DEF Processor
<1>4. CASE w \in Live(step.to)
  <2>1. next = [to |-> step.to, events |-> step.events, absorbed |-> TRUE]
    BY <1>1, <1>2, <1>4 DEF Authenticates
  <2>2. next \in Step
    BY <1>2, <2>1 DEF Step
  <2>3. next.to = step.to /\ next.events = step.events /\ next.absorbed = TRUE
    BY <2>1
  <2> QED
    BY <2>2, <2>3, <1>4, Zenon DEF AuthTakes
<1>5. CASE w \notin Live(step.to)
  <2> DEFINE live == [step.to.live EXCEPT ![w] = session]
             e == Append(step.events, Event("login", session))
             to == TakesUp(step.to, w, session)
  <2>0. next = [step EXCEPT !.to = to, !.events = e]
    BY <1>1, <1>5, Zenon DEF Authenticates
  <2>1. /\ next.to = [live |-> live, missing |-> step.to.missing \ {w}, seen |-> step.to.seen]
        /\ next.events = e /\ next.absorbed = step.absorbed
        /\ next = [to |-> next.to, events |-> next.events, absorbed |-> next.absorbed]
    <3>1. to = [live |-> live, missing |-> step.to.missing \ {w}, seen |-> step.to.seen]
      BY <1>1, <1>2, TakesUpFacts
    <3> HIDE DEF to, e
    <3>2. next = [to |-> to, events |-> e, absorbed |-> step.absorbed]
      BY <1>2, <2>0
    <3> QED
      BY <3>1, <3>2
  <2>2. live \in [Players -> Place]
    BY <1>3
  <2>3. Event("login", session) \in EventType
    BY DEF Event, EventType
  <2>4. e \in Seq(EventType)
    BY <1>2, <2>3
  <2>5. next.to \in Processor
    BY <1>3, <2>1, <2>2 DEF Processor
  <2>6. next \in Step
    BY <1>2, <2>1, <2>4, <2>5 DEF Step
  <2>7. \A p \in Players : next.to.live[p] = IF p = w THEN session ELSE step.to.live[p]
    BY <1>3, <2>1
  <2>8. Live(next.to) = Live(step.to) \cup {w}
    BY <1>1, <2>7 DEF Live
  <2>9. next.to.seen = step.to.seen /\ next.events = e /\ next.absorbed = step.absorbed
    BY <2>1
  <2> QED
    BY <1>5, <2>6, <2>7, <2>8, <2>9, Zenon DEF AuthTakes
<1> QED
  BY <1>4, <1>5

\* The line of a closed connection: the logout of a live session, or nothing.
LEMMA CloseEffect ==
    ASSUME NEW step \in Step, NEW line \in Line, line.kind # "auth", NEW session
    PROVE  CloseTakes(step, line, ProcessLine(step, line, session))
<1> SUFFICES ASSUME NEW next, next = ProcessLine(step, line, session)
             PROVE  CloseTakes(step, line, next)
  OBVIOUS
<1> DEFINE w == line.who
<1>1. w \in Players /\ next = Closes(step, w)
  BY DEF ProcessLine, Line
<1>2. /\ step = [to |-> step.to, events |-> step.events, absorbed |-> step.absorbed]
      /\ step.to \in Processor /\ step.events \in Seq(EventType) /\ step.absorbed \in BOOLEAN
  BY DEF Step
<1>3. step.to.live[w] \in Place
  BY <1>1, <1>2 DEF Processor
<1> DEFINE e == Append(step.events, Event("logout", step.to.live[w]))
<1>4. /\ next.to = Forget(step.to, {w}) /\ next.absorbed = step.absorbed
      /\ next.events = IF w \in Live(step.to) THEN e ELSE step.events
      /\ next = [to |-> next.to, events |-> next.events, absorbed |-> next.absorbed]
  BY <1>1, <1>2 DEF Closes
<1>5. Event("logout", step.to.live[w]) \in EventType
  BY <1>3 DEF Event, EventType
<1>6. e \in Seq(EventType)
  BY <1>2, <1>5
<1>7. /\ Forget(step.to, {w}) \in Processor
      /\ \A p \in Players : Forget(step.to, {w}).live[p]
                                = IF p \in {w} THEN NoSession ELSE step.to.live[p]
      /\ Live(Forget(step.to, {w})) = Live(step.to) \ {w}
      /\ Forget(step.to, {w}).seen = step.to.seen \ {w}
  BY <1>1, <1>2, ForgetFacts
<1>8. next.events \in Seq(EventType)
  BY <1>2, <1>4, <1>6
<1>9. next \in Step
  BY <1>2, <1>4, <1>7, <1>8 DEF Step
<1>10. w \in {w} /\ \A p \in Players : p \in {w} <=> p = w
  OBVIOUS
<1> QED
  BY <1>1, <1>4, <1>7, <1>9, <1>10 DEF CloseTakes

\* What an event does to a history.
EventTakes(h, event, next) ==
    /\ next \in HistoryType /\ next.imported = h.imported
    /\ event.kind = "login" =>
          /\ next.closed = h.closed
          /\ next.open = IF event.session \in h.closed THEN h.open
                         ELSE h.open \cup {event.session}
    /\ event.kind = "logout" =>
          /\ next.open = h.open \ {event.session}
          /\ next.closed = h.closed \cup (h.open \cap {event.session})

\* What a login or a logout does to the stored history.
LEMMA EventEffect ==
    ASSUME NEW h \in HistoryType, NEW event \in EventType
    PROVE  EventTakes(h, event, ApplyEvent(h, event))
<1>1. /\ h.open \in SUBSET Place /\ h.closed \in SUBSET Place /\ h.imported \in SUBSET Nat
      /\ h = [open |-> h.open, closed |-> h.closed, imported |-> h.imported]
  BY DEF HistoryType
<1>2. event.session \in Place /\ event.kind \in {"login", "logout"}
  BY DEF EventType
<1>3. CASE event.kind = "login"
  BY <1>1, <1>2, <1>3 DEF ApplyEvent, HistoryType, EventTakes
<1>4. CASE event.kind = "logout" /\ event.session \in h.open
  BY <1>1, <1>2, <1>4 DEF ApplyEvent, HistoryType, EventTakes
<1>5. CASE event.kind = "logout" /\ event.session \notin h.open
  BY <1>1, <1>2, <1>5 DEF ApplyEvent, HistoryType, EventTakes
<1> QED
  BY <1>2, <1>3, <1>4, <1>5

\* No event changes nothing.
LEMMA ApplyNone ==
    ASSUME NEW h
    PROVE  ApplyEvents(h, <<>>) = h
<1>1. <<>> \in Seq(Nat) /\ 0 \in Nat
  OBVIOUS
<1> QED
  BY <1>1, ApplyOne

\* The last event is applied to what the ones before it made.
LEMMA ApplyMore ==
    ASSUME NEW h, NEW events \in Seq(EventType), NEW event \in EventType
    PROVE  ApplyEvents(h, Append(events, event)) = ApplyEvent(ApplyEvents(h, events), event)
BY ApplyOne

-----------------------------------------------------------------------------
(* What the processor knows after some lines *)

Auth(log, j, p) == log[j].kind = "auth" /\ log[j].who = p
Close(log, j, p) == log[j].kind # "auth" /\ log[j].who = p

\* Each live session is an authentication of its player in the first n lines.
Follows(b, run, log, n) ==
    /\ b.seen \subseteq Live(b)
    /\ \A p \in Live(b) : \E j \in 1 .. n : b.live[p] = <<run, j>> /\ Auth(log, j, p)

\* A live session has not been closed since; with none, all were closed.
OpenSince(step, log, read, n) ==
    /\ \A p \in Live(step.to) : \A k \in read + 1 .. n : Close(log, k, p) => k < step.to.live[p][2]
    /\ \A p \in Players \ Live(step.to) : \A k \in read + 1 .. n :
          Auth(log, k, p) => \E l \in k + 1 .. n : Close(log, l, p)

\* If nothing was absorbed the live session is the last one.
LastOnes(step, log, read, n) ==
    ~step.absorbed =>
        \A p \in Live(step.to) : \A k \in read + 1 .. n : Auth(log, k, p) => k <= step.to.live[p][2]

\* What lines say nothing of is as before.
Keeps(step, b, log, read, n) ==
    /\ \A p \in Players : (\A k \in read + 1 .. n : log[k].who # p) => step.to.live[p] = b.live[p]
    /\ \A p \in step.to.seen : p \in b.seen /\ step.to.live[p] = b.live[p]

StepInv(step, b, run, log, read, n) ==
    /\ step \in Step
    /\ Follows(step.to, run, log, n)
    /\ OpenSince(step, log, read, n)
    /\ LastOnes(step, log, read, n)
    /\ Keeps(step, b, log, read, n)

\* What is known of the live sessions is known after one more line.
LEMMA LineKeepsStep ==
    ASSUME NEW b \in Processor, NEW run \in Nat, NEW log \in Seq(Line), NEW read \in Nat,
           NEW n \in Nat, read <= n, n < Len(log), NEW step,
           StepInv(step, b, run, log, read, n), NEW next,
           next = ProcessLine(step, log[n + 1], <<run, n + 1>>)
    PROVE  StepInv(next, b, run, log, read, n + 1)
<1> DEFINE line == log[n + 1]
           w == line.who
           place == <<run, n + 1>>
<1>0. n + 1 \in 1 .. Len(log)
  OBVIOUS
<1>1. /\ line \in Line /\ w \in Players /\ step \in Step
      /\ place \in Place /\ place # NoSession
  <2>1. line \in Line
    BY <1>0
  <2>2. w \in Players
    BY <2>1 DEF Line
  <2>3. step \in Step
    BY DEF StepInv
  <2>4. place \in Place /\ place # NoSession
    BY DEF Place, NoSession
  <2> QED
    BY <2>1, <2>2, <2>3, <2>4
<1>1a. next = ProcessLine(step, line, place)
  OBVIOUS
<1>1b. /\ log[n + 1] = line /\ place[2] = n + 1 /\ place = <<run, n + 1>>
  OBVIOUS
<1> HIDE DEF line, place
<1>2. \A k \in read + 1 .. n + 1 : k \in read + 1 .. n \/ k = n + 1
  OBVIOUS
<1>3. \A k \in 1 .. n + 1 : k \in 1 .. n \/ k = n + 1
  OBVIOUS
<1>4. 1 .. n \subseteq 1 .. n + 1 /\ \A k \in Int : k + 1 .. n \subseteq k + 1 .. n + 1
  OBVIOUS
<1>4a. n + 1 \in 1 .. n + 1
  OBVIOUS
<1>5. \A p \in Live(step.to) : step.to.live[p][2] \in 1 .. n
  BY DEF StepInv, Follows
<1>6. CASE line.kind = "auth" /\ w \in Live(step.to)
  <2>0. AuthTakes(step, line, place, next)
    BY <1>1, <1>1a, <1>6, AuthEffect
  <2>1. next \in Step /\ next.to = step.to /\ next.events = step.events /\ next.absorbed = TRUE
    BY <1>6, <2>0 DEF AuthTakes
  <2>2. Follows(next.to, run, log, n + 1)
    BY <2>1, <1>4 DEF StepInv, Follows
  <2>3. OpenSince(next, log, read, n + 1)
    <3>1. \A p \in Live(next.to) : \A k \in read + 1 .. n + 1 :
             Close(log, k, p) => k < next.to.live[p][2]
      BY <2>1, <1>2, <1>6, <1>1b DEF StepInv, OpenSince, Close
    <3>2. ASSUME NEW p \in Players \ Live(next.to), NEW k \in read + 1 .. n + 1, Auth(log, k, p)
          PROVE  \E l \in k + 1 .. n + 1 : Close(log, l, p)
      <4>1. k \in read + 1 .. n
        BY <3>2, <2>1, <1>2, <1>6, <1>1b DEF Auth
      <4>2. PICK l \in k + 1 .. n : Close(log, l, p)
        BY <4>1, <3>2, <2>1 DEF StepInv, OpenSince
      <4> QED
        BY <4>1, <4>2, <1>4
    <3> QED
      BY <3>1, <3>2 DEF OpenSince
  <2>4. LastOnes(next, log, read, n + 1)
    BY <2>1 DEF LastOnes
  <2>5. Keeps(next, b, log, read, n + 1)
    <3>1. ASSUME NEW p \in Players, \A k \in read + 1 .. n + 1 : log[k].who # p
          PROVE  next.to.live[p] = b.live[p]
      <4>1. \A k \in read + 1 .. n : log[k].who # p
        BY <3>1
      <4> QED
        BY <4>1, <2>1 DEF StepInv, Keeps
    <3> QED
      BY <3>1, <2>1 DEF StepInv, Keeps
  <2> QED
    BY <2>1, <2>2, <2>3, <2>4, <2>5 DEF StepInv
<1>7. CASE line.kind = "auth" /\ w \notin Live(step.to)
  <2>0. AuthTakes(step, line, place, next)
    BY <1>1, <1>1a, <1>7, AuthEffect
  <2>1. /\ next \in Step
        /\ \A p \in Players :
              next.to.live[p] = IF p = w THEN place ELSE step.to.live[p]
        /\ Live(next.to) = Live(step.to) \cup {w}
        /\ next.to.seen = step.to.seen
        /\ next.absorbed = step.absorbed
    BY <1>7, <2>0 DEF AuthTakes
  <2>2. Follows(next.to, run, log, n + 1)
    <3>1. ASSUME NEW p \in Live(next.to)
          PROVE  \E j \in 1 .. n + 1 : next.to.live[p] = <<run, j>> /\ Auth(log, j, p)
      <4>1. CASE p = w
        BY <4>1, <2>1, <1>1, <1>4a, <1>7, <1>1b DEF Auth
      <4>2. CASE p # w
        <5>1. p \in Live(step.to) /\ p \in Players
          BY <4>2, <2>1, <3>1 DEF Live
        <5>2. PICK j \in 1 .. n : step.to.live[p] = <<run, j>> /\ Auth(log, j, p)
          BY <5>1 DEF StepInv, Follows
        <5> QED
          BY <5>1, <5>2, <4>2, <2>1, <1>4
      <4> QED
        BY <4>1, <4>2
    <3> QED
      BY <3>1, <2>1 DEF StepInv, Follows
  <2>3. OpenSince(next, log, read, n + 1)
    <3>1. ASSUME NEW p \in Live(next.to), NEW k \in read + 1 .. n + 1, Close(log, k, p)
          PROVE  k < next.to.live[p][2]
      <4>1. k \in read + 1 .. n
        BY <3>1, <1>2, <1>7, <1>1b DEF Close
      <4>2. CASE p = w
        BY <4>1, <4>2, <2>1, <1>1, <1>1b
      <4>3. CASE p # w
        <5>1. p \in Live(step.to) /\ p \in Players
          BY <4>3, <2>1, <3>1 DEF Live
        <5> QED
          BY <5>1, <4>1, <4>3, <2>1, <3>1 DEF StepInv, OpenSince
      <4> QED
        BY <4>2, <4>3
    <3>2. ASSUME NEW p \in Players \ Live(next.to), NEW k \in read + 1 .. n + 1, Auth(log, k, p)
          PROVE  \E l \in k + 1 .. n + 1 : Close(log, l, p)
      <4>1. k \in read + 1 .. n
        BY <3>2, <2>1, <1>2, <1>1b DEF Auth
      <4>2. PICK l \in k + 1 .. n : Close(log, l, p)
        BY <4>1, <3>2, <2>1 DEF StepInv, OpenSince
      <4> QED
        BY <4>1, <4>2, <1>4
    <3> QED
      BY <3>1, <3>2 DEF OpenSince
  <2>4. LastOnes(next, log, read, n + 1)
    <3>1. ASSUME ~next.absorbed, NEW p \in Live(next.to), NEW k \in read + 1 .. n + 1,
                 Auth(log, k, p)
          PROVE  k <= next.to.live[p][2]
      <4>1. CASE p = w
        BY <4>1, <2>1, <1>1, <1>1b
      <4>2. CASE p # w
        <5>1. p \in Live(step.to) /\ p \in Players
          BY <4>2, <2>1, <3>1 DEF Live
        <5>2. k \in read + 1 .. n
          BY <3>1, <4>2, <1>2, <1>1b DEF Auth
        <5> QED
          BY <5>1, <5>2, <4>2, <2>1, <3>1 DEF StepInv, LastOnes
      <4> QED
        BY <4>1, <4>2
    <3> QED
      BY <3>1 DEF LastOnes
  <2>5. Keeps(next, b, log, read, n + 1)
    <3>1. ASSUME NEW p \in Players, \A k \in read + 1 .. n + 1 : log[k].who # p
          PROVE  next.to.live[p] = b.live[p]
      <4>1. (\A k \in read + 1 .. n : log[k].who # p) /\ p # w
        BY <3>1, <1>1b
      <4> QED
        BY <4>1, <2>1 DEF StepInv, Keeps
    <3>2. ASSUME NEW p \in next.to.seen
          PROVE  p \in b.seen /\ next.to.live[p] = b.live[p]
      <4>1. p \in Live(step.to) /\ p \in Players
        BY <2>1, <3>2 DEF StepInv, Follows, Live
      <4> QED
        BY <4>1, <2>1, <3>2, <1>7 DEF StepInv, Keeps
    <3> QED
      BY <3>1, <3>2 DEF Keeps
  <2> QED
    BY <2>1, <2>2, <2>3, <2>4, <2>5 DEF StepInv
<1>8. CASE line.kind # "auth"
  <2>0. CloseTakes(step, line, next)
    BY <1>1, <1>1a, <1>8, CloseEffect
  <2>1. /\ next \in Step
        /\ \A p \in Players :
              next.to.live[p] = IF p = w THEN NoSession ELSE step.to.live[p]
        /\ Live(next.to) = Live(step.to) \ {w}
        /\ next.to.seen = step.to.seen \ {w}
        /\ next.absorbed = step.absorbed
    BY <1>8, <2>0 DEF CloseTakes
  <2>2. \A p \in Live(next.to) : /\ p \in Live(step.to) /\ p # w /\ p \in Players
                                 /\ next.to.live[p] = step.to.live[p]
    BY <2>1 DEF Live
  <2>3. Follows(next.to, run, log, n + 1)
    <3>1. ASSUME NEW p \in Live(next.to)
          PROVE  \E j \in 1 .. n + 1 : next.to.live[p] = <<run, j>> /\ Auth(log, j, p)
      <4>1. PICK j \in 1 .. n : step.to.live[p] = <<run, j>> /\ Auth(log, j, p)
        BY <2>2 DEF StepInv, Follows
      <4> QED
        BY <4>1, <2>2, <1>4
    <3>2. next.to.seen \subseteq Live(next.to)
      BY <2>1 DEF StepInv, Follows
    <3> QED
      BY <3>1, <3>2 DEF Follows
  <2>4. OpenSince(next, log, read, n + 1)
    <3>1. ASSUME NEW p \in Live(next.to), NEW k \in read + 1 .. n + 1, Close(log, k, p)
          PROVE  k < next.to.live[p][2]
      <4>1. k \in read + 1 .. n
        BY <3>1, <2>2, <1>2, <1>1b DEF Close
      <4> QED
        BY <4>1, <2>2, <3>1 DEF StepInv, OpenSince
    <3>2. ASSUME NEW p \in Players \ Live(next.to), NEW k \in read + 1 .. n + 1, Auth(log, k, p)
          PROVE  \E l \in k + 1 .. n + 1 : Close(log, l, p)
      <4>1. k \in read + 1 .. n
        BY <3>2, <1>2, <1>8, <1>1b DEF Auth
      <4>2. CASE p = w
        <5>1. n + 1 \in k + 1 .. n + 1
          BY <4>1
        <5> QED
          BY <5>1, <4>2, <1>8, <1>1b DEF Close
      <4>3. CASE p # w
        <5>1. p \in Players \ Live(step.to)
          BY <4>3, <3>2, <2>1
        <5>2. PICK l \in k + 1 .. n : Close(log, l, p)
          BY <5>1, <4>1, <3>2 DEF StepInv, OpenSince
        <5> QED
          BY <4>1, <5>2, <1>4
      <4> QED
        BY <4>2, <4>3
    <3> QED
      BY <3>1, <3>2 DEF OpenSince
  <2>5. LastOnes(next, log, read, n + 1)
    <3>1. ASSUME ~next.absorbed, NEW p \in Live(next.to), NEW k \in read + 1 .. n + 1,
                 Auth(log, k, p)
          PROVE  k <= next.to.live[p][2]
      <4>1. k \in read + 1 .. n
        BY <3>1, <1>2, <1>8, <1>1b DEF Auth
      <4> QED
        BY <4>1, <2>1, <2>2, <3>1 DEF StepInv, LastOnes
    <3> QED
      BY <3>1 DEF LastOnes
  <2>6. Keeps(next, b, log, read, n + 1)
    <3>1. ASSUME NEW p \in Players, \A k \in read + 1 .. n + 1 : log[k].who # p
          PROVE  next.to.live[p] = b.live[p]
      <4>1. (\A k \in read + 1 .. n : log[k].who # p) /\ p # w
        BY <3>1, <1>1b
      <4> QED
        BY <4>1, <2>1 DEF StepInv, Keeps
    <3>2. ASSUME NEW p \in next.to.seen
          PROVE  p \in b.seen /\ next.to.live[p] = b.live[p]
      <4>1. p \in step.to.seen /\ p \in Live(next.to)
        BY <2>1, <3>2 DEF StepInv, Follows
      <4> QED
        BY <4>1, <2>2 DEF StepInv, Keeps
    <3> QED
      BY <3>1, <3>2 DEF Keeps
  <2> QED
    BY <2>1, <2>3, <2>4, <2>5, <2>6 DEF StepInv
<1> QED
  BY <1>6, <1>7, <1>8

-----------------------------------------------------------------------------
(* What the history knows after some lines *)

\* A session is live for one player.
LEMMA OneOwner ==
    ASSUME NEW b, NEW run, NEW log, NEW n, Follows(b, run, log, n),
           NEW p \in Live(b), NEW q \in Live(b), b.live[p] = b.live[q]
    PROVE  p = q
<1>1. PICK i \in 1 .. n : b.live[p] = <<run, i>> /\ Auth(log, i, p)
  BY DEF Follows
<1>2. PICK j \in 1 .. n : b.live[q] = <<run, j>> /\ Auth(log, j, q)
  BY DEF Follows
<1>3. i = j
  <2>1. <<run, i>> = <<run, j>>
    BY <1>1, <1>2
  <2> QED
    BY <2>1
<1> QED
  BY <1>1, <1>2, <1>3 DEF Auth

TakenUp(b, c, w, place) ==
    /\ w \notin Live(b) /\ Live(c) = Live(b) \cup {w}
    /\ \A p \in Players : c.live[p] = IF p = w THEN place ELSE b.live[p]

\* One more player is live, with one more session.
LEMMA SessionsTaken ==
    ASSUME NEW b, NEW c, NEW w \in Players, NEW place, TakenUp(b, c, w, place)
    PROVE  Sessions(c) = Sessions(b) \cup {place}
<1>1. \A p \in Live(b) : p \in Players /\ p # w /\ c.live[p] = b.live[p]
  BY DEF Live, TakenUp
<1>2. c.live[w] = place
  BY DEF TakenUp
<1> QED
  BY <1>1, <1>2 DEF Sessions, TakenUp

Forgotten(b, c, gone) ==
    /\ gone \subseteq Live(b) /\ Live(c) = Live(b) \ gone
    /\ \A p \in Live(c) : c.live[p] = b.live[p]

\* The sessions of forgotten players are those that are not live any more.
LEMMA SessionsForgotten ==
    ASSUME NEW b, NEW c, NEW gone, NEW run, NEW log, NEW n, Follows(b, run, log, n),
           Forgotten(b, c, gone)
    PROVE  Sessions(c) = Sessions(b) \ {b.live[p] : p \in gone}
<1>0. /\ gone \subseteq Live(b) /\ Live(c) = Live(b) \ gone
      /\ \A p \in Live(c) : c.live[p] = b.live[p]
  BY DEF Forgotten
<1>1. ASSUME NEW s \in Sessions(c)
      PROVE  s \in Sessions(b) /\ s \notin {b.live[p] : p \in gone}
  <2>1. PICK p \in Live(c) : s = c.live[p]
    BY <1>1 DEF Sessions
  <2>2. p \in Live(b) /\ p \notin gone /\ s = b.live[p]
    BY <2>1, <1>0
  <2>3. \A q \in gone : b.live[q] # s
    BY <2>2, <1>0, OneOwner
  <2> QED
    BY <2>2, <2>3 DEF Sessions
<1>2. ASSUME NEW s \in Sessions(b), s \notin {b.live[p] : p \in gone}
      PROVE  s \in Sessions(c)
  <2>1. PICK p \in Live(b) : s = b.live[p]
    BY <1>2 DEF Sessions
  <2>2. p \in Live(c) /\ s = c.live[p]
    BY <1>2, <2>1, <1>0
  <2> QED
    BY <2>2 DEF Sessions
<1> QED
  BY <1>1, <1>2

\* The logouts among some events and one more.
LEMMA LogoutsAppend ==
    ASSUME NEW events \in Seq(EventType), NEW event \in EventType
    PROVE  LogoutsOf(Append(events, event))
               = LogoutsOf(events) \cup (IF event.kind = "logout" THEN {event.session} ELSE {})
<1> DEFINE more == Append(events, event)
           m == Len(events)
<1>1. /\ DOMAIN more = 1 .. m + 1 /\ DOMAIN events = 1 .. m /\ m \in Nat
      /\ more[m + 1] = event /\ \A k \in 1 .. m : more[k] = events[k]
  OBVIOUS
<1> HIDE DEF more, m
<1>2. DOMAIN more = DOMAIN events \cup {m + 1}
  BY <1>1
<1>3. {k \in DOMAIN more : more[k].kind = "logout"}
        = {k \in DOMAIN events : events[k].kind = "logout"}
            \cup (IF event.kind = "logout" THEN {m + 1} ELSE {})
  BY <1>1, <1>2
<1> QED
  BY <1>1, <1>3 DEF LogoutsOf, more

Unread(h, run, log, read) ==
    \A k \in read + 1 .. Len(log) : <<run, k>> \notin h.open \cup h.closed

\* The sessions of a run that are open are authentications in its log.
AuthsOnly(h, run, log) ==
    \A s \in h.open : s[1] = run => s[2] \in 1 .. Len(log) /\ log[s[2]].kind = "auth"

\* What is stored stays stored, and what is closed stays closed.
Grows(h, H) ==
    /\ H \in HistoryType /\ H.imported = h.imported /\ H.open \cap H.closed = {}
    /\ h.closed \subseteq H.closed /\ h.open \cup h.closed \subseteq H.open \cup H.closed

\* What is new is in the lines; what is closed has a later line of its player.
FromLines(h, H, run, log, read, n) ==
    /\ \A s \in (H.open \cup H.closed) \ (h.open \cup h.closed) :
          \E k \in read + 1 .. n : s = <<run, k>> /\ log[k].kind = "auth"
    /\ \A s \in H.closed \ h.closed :
          \E i \in 1 .. n : \E k \in i + 1 .. n : s = <<run, i>> /\ log[k].who = log[i].who

\* How the stored sessions and the live ones go together.
Together(h, H, step, b, run, log, read) ==
    /\ Sessions(b) \subseteq h.open \cup h.closed
          => Sessions(step.to) \subseteq H.open \cup H.closed
    /\ Sessions(b) \cap h.closed = {} /\ Unread(h, run, log, read)
          => Sessions(step.to) \cap H.closed = {}
    /\ Sessions(b) = h.open /\ Unread(h, run, log, read) => Sessions(step.to) = H.open

\* Who is live, and whose logout is announced, was live before or is in the
\* lines; and what is announced is closed.
Announced(h, H, step, b, run, log, read, n) ==
    /\ Sessions(step.to) \cup LogoutsOf(step.events)
          \subseteq Sessions(b) \cup {<<run, k>> : k \in read + 1 .. n}
    /\ Sessions(b) \subseteq h.open /\ Unread(h, run, log, read)
          => LogoutsOf(step.events) \subseteq H.closed

\* Of a log that is read from its first line, what is open is live.
Exact(h, H, step, run, log, read, n) ==
    ~step.absorbed /\ read = 0 /\ AuthsOnly(h, run, log) =>
        \A s \in H.open : s[1] = run /\ s[2] <= n => s \in Sessions(step.to)

HistInv(h, H, step, b, run, log, read, n) ==
    /\ Grows(h, H)
    /\ FromLines(h, H, run, log, read, n)
    /\ Together(h, H, step, b, run, log, read)
    /\ Announced(h, H, step, b, run, log, read, n)
    /\ Exact(h, H, step, run, log, read, n)

\* How stored and live sessions go together stays so after one more line.
LEMMA LineKeepsHistory ==
    ASSUME NEW b \in Processor, NEW run \in Nat, NEW log \in Seq(Line), NEW read \in Nat,
           NEW n \in Nat, read <= n, n < Len(log), NEW step,
           StepInv(step, b, run, log, read, n), NEW h \in HistoryType,
           h.open \cap h.closed = {},
           HistInv(h, ApplyEvents(h, step.events), step, b, run, log, read, n), NEW next,
           next = ProcessLine(step, log[n + 1], <<run, n + 1>>)
    PROVE  HistInv(h, ApplyEvents(h, next.events), next, b, run, log, read, n + 1)
<1> DEFINE line == log[n + 1]
           w == line.who
           place == <<run, n + 1>>
           H == ApplyEvents(h, step.events)
<1> SUFFICES ASSUME NEW G, G = ApplyEvents(h, next.events)
             PROVE  HistInv(h, G, next, b, run, log, read, n + 1)
  OBVIOUS
<1>0. n + 1 \in 1 .. Len(log)
  OBVIOUS
<1>1. /\ line \in Line /\ w \in Players /\ step \in Step
      /\ place \in Place /\ place # NoSession
  <2>1. line \in Line
    BY <1>0
  <2>2. w \in Players
    BY <2>1 DEF Line
  <2>3. step \in Step
    BY DEF StepInv
  <2>4. place \in Place /\ place # NoSession
    BY DEF Place, NoSession
  <2> QED
    BY <2>1, <2>2, <2>3, <2>4
<1>1a. next = ProcessLine(step, line, place)
  OBVIOUS
<1>1b. /\ log[n + 1] = line /\ place[2] = n + 1 /\ place = <<run, n + 1>>
  OBVIOUS
<1>1c. HistInv(h, H, step, b, run, log, read, n)
  OBVIOUS
<1>1d. Follows(step.to, run, log, n) /\ step.to \in Processor /\ step.events \in Seq(EventType)
  BY <1>1 DEF StepInv, Step
<1>1e. H \in HistoryType /\ H.open \cap H.closed = {}
  BY <1>1c DEF HistInv, Grows
<1>1f. \A i \in Int : i + 1 .. n \subseteq i + 1 .. n + 1
  OBVIOUS
<1>1g. 1 .. n \subseteq 1 .. n + 1 /\ n + 1 \in 1 .. n + 1 /\ n + 1 \in read + 1 .. n + 1
  OBVIOUS
<1> HIDE DEF line, place, H
<1>2. FromLines(h, H, run, log, read, n + 1)
  <2>1. ASSUME NEW s \in (H.open \cup H.closed) \ (h.open \cup h.closed)
        PROVE  \E k \in read + 1 .. n + 1 : s = <<run, k>> /\ log[k].kind = "auth"
    BY <1>1c, <1>1f DEF HistInv, FromLines
  <2>2. ASSUME NEW s \in H.closed \ h.closed
        PROVE  \E i \in 1 .. n + 1 : \E k \in i + 1 .. n + 1 :
                  s = <<run, i>> /\ log[k].who = log[i].who
    <3>1. PICK i \in 1 .. n : \E k \in i + 1 .. n : s = <<run, i>> /\ log[k].who = log[i].who
      BY <1>1c DEF HistInv, FromLines
    <3> QED
      BY <3>1, <1>1f, <1>1g
  <2> QED
    BY <2>1, <2>2 DEF FromLines
<1>3. {<<run, k>> : k \in read + 1 .. n} \subseteq {<<run, k>> : k \in read + 1 .. n + 1}
  BY <1>1f
\* Nothing is said of the line.
<1>4. ASSUME next.events = step.events, Sessions(next.to) = Sessions(step.to),
             Exact(h, H, next, run, log, read, n + 1)
      PROVE  HistInv(h, G, next, b, run, log, read, n + 1)
  <2>1. G = H
    BY <1>4 DEF H
  <2>2. Together(h, G, next, b, run, log, read)
    BY <2>1, <1>1c, <1>4 DEF HistInv, Together
  <2>3. Announced(h, G, next, b, run, log, read, n + 1)
    BY <2>1, <1>1c, <1>4, <1>3 DEF HistInv, Announced
  <2> QED
    BY <2>1, <2>2, <2>3, <1>1c, <1>2, <1>4 DEF HistInv
<1>5. CASE line.kind = "auth" /\ w \in Live(step.to)
  <2>0. AuthTakes(step, line, place, next)
    BY <1>1, <1>1a, <1>5, AuthEffect
  <2>1. next.to = step.to /\ next.events = step.events /\ next.absorbed = TRUE
    BY <1>5, <2>0 DEF AuthTakes
  <2>2. Exact(h, H, next, run, log, read, n + 1)
    BY <2>1 DEF Exact
  <2> QED
    BY <1>4, <2>1, <2>2
<1>6. CASE line.kind = "auth" /\ w \notin Live(step.to)
  <2>0. AuthTakes(step, line, place, next)
    BY <1>1, <1>1a, <1>6, AuthEffect
  <2> DEFINE e == Event("login", place)
  <2>1. /\ next.to \in Processor /\ next.events = Append(step.events, e)
        /\ next.absorbed = step.absorbed
    BY <2>0, <1>6 DEF AuthTakes, Step
  <2>1a. /\ Live(next.to) = Live(step.to) \cup {w}
         /\ \A p \in Players : next.to.live[p] = IF p = w THEN place ELSE step.to.live[p]
    BY <2>0, <1>6 DEF AuthTakes
  <2>2. Sessions(next.to) = Sessions(step.to) \cup {place}
    <3>1. TakenUp(step.to, next.to, w, place)
      BY <2>1a, <1>6 DEF TakenUp
    <3> QED
      BY <3>1, <1>1, SessionsTaken
  <2>3. e \in EventType /\ e.kind = "login" /\ e.session = place
    BY <1>1 DEF Event, EventType
  <2> HIDE DEF e
  <2>4. G = ApplyEvent(H, e)
    <3>1. ApplyEvents(h, Append(step.events, e)) = ApplyEvent(ApplyEvents(h, step.events), e)
      BY <2>3, <1>1d, ApplyMore, Zenon
    <3>2. G = ApplyEvents(h, Append(step.events, e))
      BY <2>1, Zenon
    <3> QED
      BY <3>1, <3>2, Zenon DEF H
  <2>4a. EventTakes(H, e, G)
    BY <2>3, <2>4, <1>1e, EventEffect
  <2>5. /\ G \in HistoryType /\ G.imported = H.imported /\ G.closed = H.closed
        /\ G.open = IF place \in H.closed THEN H.open ELSE H.open \cup {place}
    BY <2>3, <2>4a DEF EventTakes
  <2>6. LogoutsOf(next.events) = LogoutsOf(step.events)
    BY <2>1, <2>3, <1>1d, LogoutsAppend
  <2>7. Grows(h, G)
    BY <2>5, <1>1c DEF HistInv, Grows
  <2>8. FromLines(h, G, run, log, read, n + 1)
    <3>1. ASSUME NEW s \in (G.open \cup G.closed) \ (h.open \cup h.closed)
          PROVE  \E k \in read + 1 .. n + 1 : s = <<run, k>> /\ log[k].kind = "auth"
      <4>1. CASE s = place
        BY <4>1, <1>1b, <1>1g, <1>6
      <4>2. CASE s # place
        BY <4>2, <2>5, <3>1, <1>2 DEF FromLines
      <4> QED
        BY <4>1, <4>2
    <3> QED
      BY <3>1, <2>5, <1>2 DEF FromLines
  <2>9. Unread(h, run, log, read) => place \notin h.open \cup h.closed /\ place \notin H.closed
    <3>1. SUFFICES ASSUME Unread(h, run, log, read)
                   PROVE  place \notin h.open \cup h.closed /\ place \notin H.closed
      OBVIOUS
    <3>2. n + 1 \in read + 1 .. Len(log)
      OBVIOUS
    <3>3. place \notin h.open \cup h.closed
      BY <3>1, <3>2, <1>1b DEF Unread
    <3>4. ASSUME place \in H.closed
          PROVE  FALSE
      <4>1. PICK i \in 1 .. n : \E k \in i + 1 .. n : place = <<run, i>> /\ log[k].who = log[i].who
        BY <3>3, <3>4, <1>1c DEF HistInv, FromLines
      <4> QED
        BY <4>1, <1>1b
    <3> QED
      BY <3>3, <3>4
  <2>10. Together(h, G, next, b, run, log, read)
    BY <2>2, <2>5, <2>9, <1>1c DEF HistInv, Together
  <2>11. Announced(h, G, next, b, run, log, read, n + 1)
    <3>1. place \in {<<run, k>> : k \in read + 1 .. n + 1}
      BY <1>1b, <1>1g
    <3> QED
      BY <3>1, <2>2, <2>5, <2>6, <1>1c, <1>3 DEF HistInv, Announced
  <2>12. Exact(h, G, next, run, log, read, n + 1)
    <3>1. SUFFICES ASSUME ~next.absorbed, read = 0, AuthsOnly(h, run, log),
                          NEW s \in G.open, s[1] = run, s[2] <= n + 1
                   PROVE  s \in Sessions(next.to)
      BY DEF Exact
    <3>2. s \in Place
      BY <2>5 DEF HistoryType
    <3>3. CASE s = place
      BY <3>3, <2>2
    <3>4. CASE s # place
      <4>1. s[2] <= n
        BY <3>1, <3>2, <3>4, <1>1b DEF Place
      <4>2. s \in H.open
        BY <3>1, <3>4, <2>5
      <4> QED
        BY <4>1, <4>2, <3>1, <2>1, <2>2, <1>1c DEF HistInv, Exact
    <3> QED
      BY <3>3, <3>4
  <2> QED
    BY <2>7, <2>8, <2>10, <2>11, <2>12 DEF HistInv
<1>7. CASE line.kind # "auth" /\ w \notin Live(step.to)
  <2>0. CloseTakes(step, line, next)
    BY <1>1, <1>1a, <1>7, CloseEffect
  <2>1. /\ next.to \in Processor /\ next.events = step.events
        /\ next.absorbed = step.absorbed
        /\ Live(next.to) = Live(step.to)
        /\ \A p \in Live(step.to) : p \in Players /\ p # w /\ next.to.live[p] = step.to.live[p]
    BY <2>0, <1>7 DEF CloseTakes, Step, Live
  <2>2. Sessions(next.to) = Sessions(step.to)
    BY <2>1 DEF Sessions
  <2>3. Exact(h, H, next, run, log, read, n + 1)
    <3>1. SUFFICES ASSUME ~next.absorbed, read = 0, AuthsOnly(h, run, log),
                          NEW s \in H.open, s[1] = run, s[2] <= n + 1
                   PROVE  s \in Sessions(next.to)
      BY DEF Exact
    <3>2. s \in Place
      BY <1>1e DEF HistoryType
    <3>3. log[s[2]].kind = "auth"
      BY <3>1, <1>1c DEF HistInv, FromLines, AuthsOnly, Grows
    <3>4. s[2] <= n
      BY <3>1, <3>2, <3>3, <1>1b, <1>7 DEF Place
    <3> QED
      BY <3>1, <3>4, <2>1, <2>2, <1>1c DEF HistInv, Exact
  <2> QED
    BY <1>4, <2>1, <2>2, <2>3
<1>8. CASE line.kind # "auth" /\ w \in Live(step.to)
  <2>0. CloseTakes(step, line, next)
    BY <1>1, <1>1a, <1>8, CloseEffect
  <2> DEFINE s0 == step.to.live[w]
             e == Event("logout", s0)
  <2>1. /\ next.to \in Processor /\ next.events = Append(step.events, e)
        /\ next.absorbed = step.absorbed
        /\ Live(next.to) = Live(step.to) \ {w}
        /\ \A p \in Live(next.to) : p \in Players /\ p # w /\ next.to.live[p] = step.to.live[p]
    BY <2>0, <1>8 DEF CloseTakes, Step, Live
  <2>2. Sessions(next.to) = Sessions(step.to) \ {s0}
    <3>1. Sessions(next.to) = Sessions(step.to) \ {step.to.live[p] : p \in {w}}
      <4>1. Forgotten(step.to, next.to, {w})
        BY <2>1, <1>8 DEF Forgotten
      <4> QED
        BY <1>1d, <4>1, SessionsForgotten
    <3> QED
      BY <3>1
  <2>3. s0 \in Sessions(step.to) /\ s0 \in Place
    BY <1>1, <1>1d, <1>8 DEF Sessions, Processor
  <2>3a. PICK j \in 1 .. n : s0 = <<run, j>> /\ Auth(log, j, w)
    BY <1>1d, <1>8 DEF Follows
  <2>3b. e \in EventType /\ e.kind = "logout" /\ e.session = s0
    BY <2>3 DEF Event, EventType
  <2> HIDE DEF e, s0
  <2>4. G = ApplyEvent(H, e)
    <3>1. ApplyEvents(h, Append(step.events, e)) = ApplyEvent(ApplyEvents(h, step.events), e)
      BY <2>3b, <1>1d, ApplyMore, Zenon
    <3>2. G = ApplyEvents(h, Append(step.events, e))
      BY <2>1, Zenon
    <3> QED
      BY <3>1, <3>2, Zenon DEF H
  <2>4a. EventTakes(H, e, G)
    BY <2>3b, <2>4, <1>1e, EventEffect
  <2>5. /\ G \in HistoryType /\ G.imported = H.imported
        /\ G.open = H.open \ {s0} /\ G.closed = H.closed \cup (H.open \cap {s0})
    BY <2>3b, <2>4a DEF EventTakes
  <2>6. LogoutsOf(next.events) = LogoutsOf(step.events) \cup {s0}
    <3>1. LogoutsOf(next.events)
            = LogoutsOf(step.events) \cup (IF e.kind = "logout" THEN {e.session} ELSE {})
      <4>1. LogoutsOf(Append(step.events, e))
              = LogoutsOf(step.events) \cup (IF e.kind = "logout" THEN {e.session} ELSE {})
        BY <2>3b, <1>1d, LogoutsAppend
      <4>2. next.events = Append(step.events, e)
        BY <2>1
      <4> QED
        BY ONLY <4>1, <4>2, Zenon
    <3> QED
      BY <3>1, <2>3b
  <2>7. Grows(h, G)
    BY <2>5, <1>1c DEF HistInv, Grows
  <2>8. FromLines(h, G, run, log, read, n + 1)
    <3>1. \A s \in (G.open \cup G.closed) \ (h.open \cup h.closed) :
             \E k \in read + 1 .. n + 1 : s = <<run, k>> /\ log[k].kind = "auth"
      BY <2>5, <1>2 DEF FromLines
    <3>2. ASSUME NEW s \in G.closed \ h.closed
          PROVE  \E i \in 1 .. n + 1 : \E k \in i + 1 .. n + 1 :
                    s = <<run, i>> /\ log[k].who = log[i].who
      <4>1. CASE s = s0
        <5>1. j \in 1 .. n + 1 /\ n + 1 \in j + 1 .. n + 1
          BY <1>1g
        <5>2. log[n + 1].who = log[j].who
          BY <2>3a, <1>1b DEF Auth
        <5> QED
          BY <5>1, <5>2, <4>1, <2>3a
      <4>2. CASE s # s0
        <5>1. s \in H.closed \ h.closed
          BY <4>2, <3>2, <2>5
        <5> QED
          BY <5>1, <1>2 DEF FromLines
      <4> QED
        BY <4>1, <4>2
    <3> QED
      BY <3>1, <3>2 DEF FromLines
  <2>9. Together(h, G, next, b, run, log, read)
    BY <2>2, <2>5, <1>1c DEF HistInv, Together
  <2>10. Announced(h, G, next, b, run, log, read, n + 1)
    <3>1. Sessions(next.to) \cup LogoutsOf(next.events)
             \subseteq Sessions(b) \cup {<<run, k>> : k \in read + 1 .. n + 1}
      <4>1. s0 \in Sessions(b) \cup {<<run, k>> : k \in read + 1 .. n + 1}
        BY <2>3, <1>1c, <1>3 DEF HistInv, Announced
      <4> QED
        BY <4>1, <2>2, <2>6, <1>1c, <1>3 DEF HistInv, Announced
    <3>2. ASSUME Sessions(b) \subseteq h.open, Unread(h, run, log, read)
          PROVE  LogoutsOf(next.events) \subseteq G.closed
      <4>1. Sessions(b) \cap h.closed = {} /\ Sessions(b) \subseteq h.open \cup h.closed
        BY <3>2
      <4>2. s0 \in H.open
        BY <4>1, <3>2, <2>3, <1>1c DEF HistInv, Together
      <4> QED
        BY <4>2, <3>2, <2>5, <2>6, <1>1c DEF HistInv, Announced
    <3> QED
      BY <3>1, <3>2 DEF Announced
  <2>11. Exact(h, G, next, run, log, read, n + 1)
    <3>1. SUFFICES ASSUME ~next.absorbed, read = 0, AuthsOnly(h, run, log),
                          NEW s \in G.open, s[1] = run, s[2] <= n + 1
                   PROVE  s \in Sessions(next.to)
      BY DEF Exact
    <3>2. s \in Place /\ s \in H.open /\ s # s0
      BY <2>5, <3>1 DEF HistoryType
    <3>3. log[s[2]].kind = "auth"
      BY <3>1, <3>2, <1>1c DEF HistInv, FromLines, AuthsOnly, Grows
    <3>4. s[2] <= n
      BY <3>1, <3>2, <3>3, <1>1b, <1>8 DEF Place
    <3> QED
      BY <3>1, <3>2, <3>4, <2>1, <2>2, <1>1c DEF HistInv, Exact
  <2> QED
    BY <2>7, <2>8, <2>9, <2>10, <2>11 DEF HistInv
<1> QED
  BY <1>5, <1>6, <1>7, <1>8

-----------------------------------------------------------------------------
(* A log to its end, and all logouts at once *)

\* The processor at the end of a log, and the history with its events.
LEMMA ProcessFacts ==
    ASSUME NEW b \in Processor, NEW run \in Nat, NEW log \in Seq(Line), NEW read \in 0 .. Len(log),
           Follows(b, run, log, read), NEW h \in HistoryType, h.open \cap h.closed = {},
           NEW step, step = Process(b, run, log, read)
    PROVE  /\ StepInv(step, b, run, log, read, Len(log))
           /\ HistInv(h, ApplyEvents(h, step.events), step, b, run, log, read, Len(log))
<1>0. read \in Nat
  OBVIOUS
<1>0a. \E g : ProcessedBy(g, b, run, log, read)
  BY <1>0, ProcessSteps
<1> DEFINE last == Len(log)
<1>1. last \in Nat /\ read \in Nat /\ read <= last
  OBVIOUS
<1>2. PICK g : /\ step = g[last]
               /\ \A i \in 0 .. last : g[i] = IF i <= read THEN Begins(b)
                                              ELSE ProcessLine(g[i - 1], log[i], <<run, i>>)
  BY <1>0a DEF ProcessedBy
<1> DEFINE S == {n \in read .. last :
                    /\ StepInv(g[n], b, run, log, read, n)
                    /\ HistInv(h, ApplyEvents(h, g[n].events), g[n], b, run, log, read, n)}
<1>3. read \in S
  <2> DEFINE s0 == Begins(b)
  <2>1. g[read] = s0
    <3>1. read \in 0 .. last /\ read <= read
      BY <1>1
    <3> QED
      BY <3>1, <1>2
  <2>2. s0.to = b /\ s0.events = <<>> /\ s0.absorbed = FALSE /\ s0 = Begins(b)
    BY DEF Begins
  <2>3. <<>> \in Seq(EventType) /\ LogoutsOf(<<>>) = {}
    BY DEF LogoutsOf
  <2>4. s0 \in Step
    BY <2>3 DEF Begins, Step
  <2> HIDE DEF s0
  <2>5. ~ \E k \in read + 1 .. read : TRUE
    BY <1>1
  <2>6. StepInv(s0, b, run, log, read, read)
    BY <2>2, <2>4, <2>5 DEF StepInv, OpenSince, LastOnes, Keeps
  <2>7. ApplyEvents(h, s0.events) = h
    BY <2>2, ApplyNone
  <2>8. HistInv(h, h, s0, b, run, log, read, read)
    <3>1. Grows(h, h)
      BY DEF Grows
    <3>2. FromLines(h, h, run, log, read, read)
      BY DEF FromLines
    <3>3. Together(h, h, s0, b, run, log, read)
      BY <2>2 DEF Together
    <3>4. Announced(h, h, s0, b, run, log, read, read)
      BY <2>2, <2>3 DEF Announced
    <3>5. Exact(h, h, s0, run, log, read, read)
      BY DEF Exact, AuthsOnly
    <3> QED
      BY <3>1, <3>2, <3>3, <3>4, <3>5 DEF HistInv
  <2> QED
    BY <1>1, <2>1, <2>6, <2>7, <2>8
<1>4. ASSUME NEW n \in read .. last - 1, n \in S
      PROVE  n + 1 \in S
  <2>1. n \in Nat /\ read <= n /\ n < last /\ n + 1 \in read .. last
    BY <1>1
  <2>2. g[n + 1] = ProcessLine(g[n], log[n + 1], <<run, n + 1>>)
    <3>1. n + 1 \in 0 .. last /\ ~ (n + 1 <= read) /\ (n + 1) - 1 = n
      BY <1>1, <2>1
    <3> QED
      BY <3>1, <1>2
  <2>3. /\ StepInv(g[n], b, run, log, read, n)
        /\ HistInv(h, ApplyEvents(h, g[n].events), g[n], b, run, log, read, n)
    BY <1>4
  <2>4. StepInv(g[n + 1], b, run, log, read, n + 1)
    BY <1>1, <2>1, <2>2, <2>3, LineKeepsStep
  <2>5. HistInv(h, ApplyEvents(h, g[n + 1].events), g[n + 1], b, run, log, read, n + 1)
    BY <1>1, <2>1, <2>2, <2>3, LineKeepsHistory
  <2> QED
    BY <2>1, <2>4, <2>5
<1> HIDE DEF S
<1>5. last \in S
  <2>1. last \in read .. last
    BY <1>1
  <2> QED
    BY <2>1, <1>1, <1>3, <1>4, CountUp
<1> QED
  BY <1>2, <1>5 DEF S

\* The logouts of some of the live players, in any order.
LEMMA LogoutsFacts ==
    ASSUME IsFiniteSet(Players), NEW b \in Processor, NEW gone \in SUBSET Live(b)
    PROVE  /\ Logouts(b, gone) \in Seq(EventType)
           /\ \A k \in DOMAIN Logouts(b, gone) : Logouts(b, gone)[k].kind = "logout"
           /\ LogoutsOf(Logouts(b, gone)) = {b.live[p] : p \in gone}
<1> DEFINE m == Cardinality(gone)
           order == SetToSeq(gone)
           events == Logouts(b, gone)
<1>1. gone \subseteq Players /\ IsFiniteSet(gone)
  BY FS_Subset DEF Live
<1>2. m \in Nat /\ ExistsBijection(1 .. m, gone)
  BY <1>1, FS_CardinalityType
<1>3. \E f \in [1 .. m -> gone] : IsInjective(f)
  BY <1>2 DEF ExistsBijection, Bijection, Injection
<1>4. order \in [1 .. m -> gone] /\ IsInjective(order)
  BY <1>3 DEF SetToSeq
<1> HIDE DEF order, m
<1>5. order \in Surjection(1 .. m, gone)
  <2>1. order \in Injection(1 .. m, gone)
    BY <1>4 DEF Injection
  <2>2. Cardinality(1 .. m) = m
    BY <1>2, FS_Interval
  <2> QED
    BY <2>1, <2>2, <1>1, FS_Injection DEF m
<1>6. \A p \in gone : \E k \in 1 .. m : order[k] = p
  BY <1>5 DEF Surjection
<1>7. events = [k \in 1 .. m |-> Event("logout", b.live[order[k]])]
  BY DEF Logouts, order, m
<1>8. \A p \in gone : b.live[p] \in Place
  BY <1>1 DEF Processor
<1>9. \A k \in 1 .. m : order[k] \in gone
  BY <1>4
<1>10. \A k \in 1 .. m : /\ events[k] \in EventType /\ events[k].kind = "logout"
                         /\ events[k].session = b.live[order[k]]
  BY <1>7, <1>8, <1>9 DEF Event, EventType
<1>11. DOMAIN events = 1 .. m
  BY <1>7
<1>12. events \in Seq(EventType)
  BY <1>2, <1>7, <1>10
<1> HIDE DEF events
<1>13. LogoutsOf(events) = {b.live[p] : p \in gone}
  <2>1. {j \in DOMAIN events : events[j].kind = "logout"} = 1 .. m
    BY <1>10, <1>11
  <2>2. LogoutsOf(events) = {events[k].session : k \in 1 .. m}
    BY <2>1 DEF LogoutsOf
  <2> QED
    BY <2>2, <1>6, <1>9, <1>10
<1> QED
  BY <1>10, <1>11, <1>12, <1>13 DEF events

\* Applying nothing but logouts closes what they name, if it is open.
LEMMA ApplyLogouts ==
    ASSUME NEW h \in HistoryType, NEW events \in Seq(EventType),
           \A k \in DOMAIN events : events[k].kind = "logout"
    PROVE  /\ ApplyEvents(h, events) \in HistoryType
           /\ ApplyEvents(h, events).imported = h.imported
           /\ ApplyEvents(h, events).open = h.open \ LogoutsOf(events)
           /\ ApplyEvents(h, events).closed = h.closed \cup (h.open \cap LogoutsOf(events))
<1> DEFINE m == Len(events)
           Named(n) == {events[k].session : k \in 1 .. n}
<1>1. m \in Nat /\ DOMAIN events = 1 .. m
  OBVIOUS
<1>2. PICK g : /\ ApplyEvents(h, events) = g[m]
               /\ g[0] = h
               /\ \A k \in 1 .. m : g[k] = ApplyEvent(g[k - 1], events[k])
  BY ApplySteps
<1> DEFINE S == {n \in 0 .. m : /\ g[n] \in HistoryType /\ g[n].imported = h.imported
                                /\ g[n].open = h.open \ Named(n)
                                /\ g[n].closed = h.closed \cup (h.open \cap Named(n))}
<1>3. 0 \in S
  <2>1. Named(0) = {}
    OBVIOUS
  <2> HIDE DEF Named
  <2> QED
    BY <1>1, <1>2, <2>1
<1>4. ASSUME NEW n \in 0 .. m - 1, n \in S
      PROVE  n + 1 \in S
  <2>1. n + 1 \in 1 .. m /\ n + 1 \in 0 .. m /\ (n + 1) - 1 = n /\ n \in Nat
    BY <1>1
  <2> DEFINE e == events[n + 1]
             s == e.session
  <2>2. e \in EventType /\ e.kind = "logout"
    BY <1>1, <2>1
  <2>3. Named(n + 1) = Named(n) \cup {s}
    <3>1. 1 .. n + 1 = (1 .. n) \cup {n + 1}
      BY <2>1
    <3> QED
      BY <3>1
  <2>4. g[n + 1] = ApplyEvent(g[n], e)
    BY <1>2, <2>1
  <2> HIDE DEF e, Named
  <2>5. EventTakes(g[n], e, g[n + 1])
    BY <1>4, <2>2, <2>4, EventEffect
  <2>6. /\ g[n + 1] \in HistoryType /\ g[n + 1].imported = h.imported
        /\ g[n + 1].open = g[n].open \ {s}
        /\ g[n + 1].closed = g[n].closed \cup (g[n].open \cap {s})
    BY <1>4, <2>2, <2>5 DEF EventTakes
  <2> QED
    BY <1>4, <2>1, <2>3, <2>6
<1> HIDE DEF S
<1>5. m \in S
  <2>1. m \in 0 .. m /\ 0 \in Nat
    BY <1>1
  <2> QED
    BY <2>1, <1>1, <1>3, <1>4, CountUp
<1>6. LogoutsOf(events) = Named(m)
  <2>1. {j \in DOMAIN events : events[j].kind = "logout"} = 1 .. m
    BY <1>1
  <2> QED
    BY <2>1 DEF LogoutsOf
<1> QED
  BY <1>2, <1>5, <1>6 DEF S

-----------------------------------------------------------------------------
(* The import of the logs *)

\* The logs are lists of lines, and Mordhau.log is one of them.
Logged ==
    /\ IsFiniteSet(Players)
    /\ logs \in Seq(Seq(Line)) /\ here \in BOOLEAN /\ online \in BOOLEAN
    /\ here => Current # 0

ScanStep(run) == Process(Fresh, run, logs[run], 0)

\* A session of the logs.
Known(s) ==
    /\ s[1] \in 1 .. Current /\ s[2] \in 1 .. Len(logs[s[1]])
    /\ logs[s[1]][s[2]].kind = "auth"

\* Its player has no later line in the log.
LastLine(run, i) == \A k \in i + 1 .. Len(logs[run]) : logs[run][k].who # logs[run][i].who

ScanInv(h, R, run, closeAtEnd) ==
    /\ Grows(h, R)
    /\ \A s \in (R.open \cup R.closed) \ (h.open \cup h.closed) : Known(s) /\ s[1] = run
    /\ \A s \in R.closed \ h.closed : s[1] = run /\ (closeAtEnd \/ ~LastLine(run, s[2]))
    /\ Sessions(ScanStep(run).to) \subseteq R.open \cup R.closed
    /\ ~ScanStep(run).absorbed /\ AuthsOnly(h, run, logs[run]) =>
          \A s \in R.open : s[1] = run => ~closeAtEnd /\ s \in Sessions(ScanStep(run).to)

\* No live session is one of any log.
LEMMA FollowsFresh ==
    ASSUME NEW run, NEW log, NEW n
    PROVE  Follows(Fresh, run, log, n)
BY FreshFacts DEF Follows

\* The history after one log was scanned from its first line.
LEMMA ScanFacts ==
    ASSUME Logged, NEW run \in 1 .. Current, NEW h \in HistoryType, h.open \cap h.closed = {},
           NEW closeAtEnd \in BOOLEAN
    PROVE  ScanInv(h, Scan(h, run, closeAtEnd), run, closeAtEnd)
<1> DEFINE log == logs[run]
           step == ScanStep(run)
           H == ApplyEvents(h, step.events)
           R == Scan(h, run, closeAtEnd)
           closing == ClosePlayerSessions(step.to)
           n == Len(log)
<1>1. run \in Nat /\ log \in Seq(Line) /\ n \in Nat /\ 0 \in 0 .. n /\ run \in 1 .. Current
  BY DEF Logged, Current
<1>2. Fresh \in Processor /\ Sessions(Fresh) = {}
  BY FreshFacts
<1>3. step = Process(Fresh, run, log, 0)
  BY DEF ScanStep
<1> HIDE DEF log, step
<1>4. /\ StepInv(step, Fresh, run, log, 0, n)
      /\ HistInv(h, H, step, Fresh, run, log, 0, n)
  BY <1>1, <1>2, <1>3, FollowsFresh, ProcessFacts
<1>5. step.to \in Processor /\ step.events \in Seq(EventType)
  BY <1>4 DEF StepInv, Step
<1>6. H \in HistoryType
  BY <1>4 DEF HistInv, Grows
<1> DEFINE gone == IF closeAtEnd THEN Sessions(step.to) ELSE {}
<1>7. /\ R \in HistoryType /\ R.imported = H.imported
      /\ R.open = H.open \ gone /\ R.closed = H.closed \cup (H.open \cap gone)
  <2>1. CASE closeAtEnd
    <3>1. /\ closing \in Seq(EventType)
          /\ \A k \in DOMAIN closing : closing[k].kind = "logout"
          /\ LogoutsOf(closing) = Sessions(step.to)
      <4>1. Live(step.to) \in SUBSET Live(step.to)
        OBVIOUS
      <4>2. IsFiniteSet(Players)
        BY DEF Logged
      <4> QED
        BY <1>5, <4>1, <4>2, LogoutsFacts DEF ClosePlayerSessions, Sessions
    <3> HIDE DEF closing
    <3>2. R = ApplyEvents(h, step.events \o closing)
      BY <1>3, <2>1 DEF Scan, closing, log
    <3>3. R = ApplyEvents(H, closing)
      BY <3>1, <3>2, <1>5, ApplyParts
    <3> HIDE DEF R, H
    <3> QED
      BY <3>1, <3>3, <1>6, <2>1, ApplyLogouts
  <2>2. CASE ~closeAtEnd
    <3>1. step.events \o <<>> = step.events
      BY <1>5
    <3>2. R = ApplyEvents(h, step.events \o <<>>)
      BY <1>3, <2>2 DEF Scan, log
    <3>3. R = H
      BY <3>1, <3>2
    <3> HIDE DEF R, H
    <3> QED
      BY <3>3, <1>6, <2>2
  <2> QED
    BY <2>1, <2>2
<1> HIDE DEF R, H, gone
<1>8. Grows(h, R)
  BY <1>4, <1>7 DEF HistInv, Grows
<1>9. ASSUME NEW s \in (R.open \cup R.closed) \ (h.open \cup h.closed)
      PROVE  Known(s) /\ s[1] = run
  <2>1. PICK k \in 0 + 1 .. n : s = <<run, k>> /\ log[k].kind = "auth"
    BY <1>4, <1>7 DEF HistInv, FromLines
  <2> QED
    BY <2>1, <1>1 DEF Known, log
<1>10. ASSUME NEW s \in R.closed \ h.closed
       PROVE  s[1] = run /\ (closeAtEnd \/ ~LastLine(run, s[2]))
  <2>1. CASE s \in H.closed
    <3>1. PICK i \in 1 .. n : \E k \in i + 1 .. n : s = <<run, i>> /\ log[k].who = log[i].who
      BY <2>1, <1>4, <1>10 DEF HistInv, FromLines
    <3> QED
      BY <3>1 DEF LastLine, log
  <2>2. CASE s \in gone
    <3>1. closeAtEnd /\ s \in Sessions(step.to)
      BY <2>2 DEF gone
    <3>2. PICK p \in Live(step.to) : s = step.to.live[p]
      BY <3>1 DEF Sessions
    <3>3. s[1] = run
      BY <3>2, <1>4 DEF StepInv, Follows
    <3> QED
      BY <3>1, <3>3
  <2> QED
    BY <2>1, <2>2, <1>7
<1>11. Sessions(step.to) \subseteq R.open \cup R.closed
  BY <1>2, <1>4, <1>7 DEF HistInv, Together
<1>12. ASSUME ~step.absorbed, AuthsOnly(h, run, log), NEW s \in R.open, s[1] = run
       PROVE  ~closeAtEnd /\ s \in Sessions(step.to)
  <2>1. s \in H.open /\ s \notin gone
    BY <1>7
  <2>2. s[2] <= n
    BY <2>1, <1>1, <1>12, <1>4 DEF HistInv, Grows, FromLines, AuthsOnly
  <2>3. s \in Sessions(step.to)
    BY <2>1, <2>2, <1>12, <1>4 DEF HistInv, Exact
  <2> QED
    BY <2>1, <2>3 DEF gone
<1> QED
  BY <1>8, <1>9, <1>10, <1>11, <1>12 DEF ScanInv, R, step, log

Imported(g, history, last) ==
    g = [run \in 0 .. last |-> IF run = 0 THEN history ELSE ImportRun(g[run - 1], run)]

\* The histories after each log, as a function of their number.
LEMMA ImportedExist ==
    ASSUME NEW history, NEW last \in Nat
    PROVE  \E g : Imported(g, history, last)
<1> DEFINE S == {n \in Nat : \E g : Imported(g, history, n)}
<1>1. 0 \in S
  <2> DEFINE g == [i \in 0 .. 0 |-> history]
  <2>1. \A i \in 0 .. 0 : i = 0
    OBVIOUS
  <2>2. g = [run \in 0 .. 0 |-> IF run = 0 THEN history ELSE ImportRun(g[run - 1], run)]
    BY <2>1, Zenon
  <2> QED
    BY <2>2, Zenon DEF Imported
<1>2. ASSUME NEW n \in 0 .. last - 1, n \in S
      PROVE  n + 1 \in S
  <2>1. PICK g : Imported(g, history, n)
    BY <1>2
  <2> DEFINE h == [k \in 0 .. n + 1 |-> IF k <= n THEN g[k] ELSE ImportRun(g[n], k)]
  <2>2. \A k \in 0 .. n : h[k] = g[k]
    OBVIOUS
  <2>3. \A k \in 0 .. n + 1 : h[k] = IF k = 0 THEN history ELSE ImportRun(h[k - 1], k)
    <3> TAKE k \in 0 .. n + 1
    <3>1. CASE k \in 0 .. n
      <4>1. g[k] = IF k = 0 THEN history ELSE ImportRun(g[k - 1], k)
        BY <2>1, <3>1 DEF Imported
      <4>2. k # 0 => k - 1 \in 0 .. n
        BY <3>1
      <4> QED
        BY <4>1, <4>2, <2>2, <3>1
    <3>2. CASE k = n + 1
      BY <3>2, <2>2
    <3> QED
      BY <3>1, <3>2
  <2> HIDE DEF h
  <2>4. h = [k \in 0 .. n + 1 |-> h[k]]
    BY DEF h
  <2>5. Imported(h, history, n + 1)
    BY <2>3, <2>4, Zenon DEF Imported
  <2> QED
    BY <2>5
<1> HIDE DEF S
<1>3. last \in S
  BY <1>1, <1>2, CountUp
<1> QED
  BY <1>3 DEF S

ImportedBy(g, history) ==
    /\ Import(history) = g[Current]
    /\ g[0] = history
    /\ \A run \in 1 .. Current : g[run] = ImportRun(g[run - 1], run)

\* What is imported is the last of these histories.
LEMMA ImportSteps ==
    ASSUME NEW history, Current \in Nat
    PROVE  \E g : ImportedBy(g, history)
<1>1. \E g : Imported(g, history, Current)
  BY ImportedExist
<1>2. \E g : Imported(g, history, Current) /\ Import(history) = g[Current]
  BY <1>1 DEF Import, Imported
<1>3. PICK g : Imported(g, history, Current) /\ Import(history) = g[Current]
  BY <1>2
<1>4. \A run \in 0 .. Current : g[run] = IF run = 0 THEN history ELSE ImportRun(g[run - 1], run)
  BY <1>3 DEF Imported
<1>5. g[0] = history
  BY <1>4
<1>6. \A run \in 1 .. Current : g[run] = ImportRun(g[run - 1], run)
  BY <1>4
<1> QED
  BY <1>3, <1>5, <1>6 DEF ImportedBy

\* No session of an archive that was imported is open, and no log that is now
\* scanned shows an authentication while another session is live.
Faithful(h) ==
    /\ \A s \in h.open : s[1] \notin h.imported
    /\ \A run \in 1 .. Current :
          run \notin Archives \/ run \notin h.imported => ~ScanStep(run).absorbed

\* The history after the logs of the first n runs.
ImportInv(h, R, n) ==
    /\ R \in HistoryType /\ R.open \cap R.closed = {}
    /\ R.imported = h.imported \cup {run \in Archives : run <= n}
    /\ h.closed \subseteq R.closed /\ h.open \cup h.closed \subseteq R.open \cup R.closed
    /\ \A s \in (R.open \cup R.closed) \ (h.open \cup h.closed) : Known(s) /\ s[1] <= n
    /\ \A s \in R.closed \ h.closed :
          online /\ here /\ s[1] = Current => ~LastLine(Current, s[2])
    /\ here /\ n = Current => Sessions(ScanStep(Current).to) \subseteq R.open \cup R.closed
    /\ Faithful(h) =>
          \A s \in R.open : s[1] <= n =>
             online /\ here /\ s[1] = Current /\ s \in Sessions(ScanStep(Current).to)

\* The history after one more log was imported, or skipped.
LEMMA ImportRunFacts ==
    ASSUME Logged, NEW h \in HistoryType, h.imported \subseteq Archives,
           \A s \in h.open \cup h.closed : Known(s),
           NEW R, NEW n \in Nat, n < Current, ImportInv(h, R, n)
    PROVE  ImportInv(h, ImportRun(R, n + 1), n + 1)
<1> DEFINE run == n + 1
<1> SUFFICES ASSUME NEW Q, Q = ImportRun(R, run)
             PROVE  ImportInv(h, Q, run)
  OBVIOUS
<1>0. Current \in Nat
  BY DEF Logged, Current
<1>1. run \in 1 .. Current /\ run \in Nat /\ run # n /\ n <= run
  BY <1>0
<1>2. /\ Archives \subseteq 1 .. Current
      /\ run \in Archives <=> ~ (here /\ run = Current)
      /\ here => Current \notin Archives
  BY <1>0, <1>1 DEF Archives, Logged
<1>3. /\ R \in HistoryType /\ R.open \cap R.closed = {}
      /\ R.imported = h.imported \cup {r \in Archives : r <= n}
  BY DEF ImportInv
<1>4. run \in R.imported <=> run \in h.imported
  BY <1>1, <1>3
<1>5. {r \in Archives : r <= run} = {r \in Archives : r <= n} \cup (Archives \cap {run})
  <2>1. \A r \in Archives : r \in Nat /\ (r <= run <=> r <= n \/ r = run)
    BY <1>0, <1>1, <1>2
  <2> HIDE DEF run
  <2> QED
    BY <2>1
<1>6. \A s \in R.open \cup R.closed : Known(s) /\ s \in Place
  BY <1>3 DEF ImportInv, HistoryType
<1>6a. \A s \in R.open \cup R.closed : s[1] \in Nat /\ (s[1] <= run => s[1] <= n \/ s[1] = run)
  BY <1>6, <1>1 DEF Place
<1>7. \A s \in R.open \cup R.closed : s[1] <= n => s[1] <= run
  BY <1>6a, <1>1
<1>8. ASSUME NEW s \in R.open, s[1] = run
      PROVE  s \in h.open
  <2>1. ~ (s[1] <= n)
    BY <1>8, <1>1
  <2> QED
    BY <1>3, <1>8, <2>1 DEF ImportInv
\* An archive that was imported.
<1>9. CASE run \in Archives /\ run \in R.imported
  <2>1. Q = R
    BY <1>9 DEF ImportRun
  <2>2. run \in h.imported /\ ~ (here /\ run = Current)
    BY <1>9, <1>2, <1>4
  <2>3. R.imported = h.imported \cup {r \in Archives : r <= run}
    BY <1>3, <1>5, <2>2
  <2>4. \A s \in (R.open \cup R.closed) \ (h.open \cup h.closed) : Known(s) /\ s[1] <= run
    BY <1>7 DEF ImportInv
  <2>5. ASSUME Faithful(h), NEW s \in R.open, s[1] <= run
        PROVE  online /\ here /\ s[1] = Current /\ s \in Sessions(ScanStep(Current).to)
    <3>1. s[1] <= n
      BY <2>5, <2>2, <1>6a, <1>8 DEF Faithful
    <3> QED
      BY <3>1, <2>5 DEF ImportInv
  <2> QED
    BY <2>1, <2>2, <2>3, <2>4, <2>5 DEF ImportInv
\* One that is new, or Mordhau.log.
<1>10. CASE ~ (run \in Archives /\ run \in R.imported)
  <2> DEFINE closeAtEnd == run \in Archives \/ ~online
             P == Scan(R, run, closeAtEnd)
  <2>1. /\ Q.open = P.open /\ Q.closed = P.closed
        /\ Q.imported = P.imported \cup (Archives \cap {run})
        /\ P \in HistoryType => Q \in HistoryType
    <3>1. CASE run \in Archives
      <4>1. Q = [Scan(R, run, TRUE) EXCEPT !.imported = @ \cup {run}]
        BY <3>1, <1>10 DEF ImportRun
      <4>2. P = Scan(R, run, TRUE)
        BY <3>1
      <4>3. ScanInv(R, P, run, closeAtEnd)
        BY <1>1, <1>3, ScanFacts
      <4>4. P \in HistoryType
        BY <4>3 DEF ScanInv, Grows
      <4> HIDE DEF P
      <4>5. Q = [P EXCEPT !.imported = @ \cup {run}]
        BY <4>1, <4>2
      <4> QED
        BY <4>4, <4>5, <3>1, <1>1 DEF HistoryType
    <3>2. CASE run \notin Archives
      <4>1. Q = P
        BY <3>2 DEF ImportRun
      <4> HIDE DEF P
      <4> QED
        BY <4>1, <3>2
    <3> QED
      BY <3>1, <3>2
  <2>2. ScanInv(R, P, run, closeAtEnd)
    BY <1>1, <1>3, ScanFacts
  <2> HIDE DEF P
  <2>3. /\ Grows(R, P)
        /\ \A s \in (P.open \cup P.closed) \ (R.open \cup R.closed) : Known(s) /\ s[1] = run
        /\ \A s \in P.closed \ R.closed : s[1] = run /\ (closeAtEnd \/ ~LastLine(run, s[2]))
        /\ Sessions(ScanStep(run).to) \subseteq P.open \cup P.closed
        /\ ~ScanStep(run).absorbed /\ AuthsOnly(R, run, logs[run]) =>
              \A s \in P.open : s[1] = run => ~closeAtEnd /\ s \in Sessions(ScanStep(run).to)
    BY <2>2 DEF ScanInv
  <2>4. /\ Q \in HistoryType /\ Q.open \cap Q.closed = {}
        /\ Q.imported = h.imported \cup {r \in Archives : r <= run}
    BY <2>1, <2>3, <1>3, <1>5 DEF Grows
  <2>5. h.closed \subseteq Q.closed /\ h.open \cup h.closed \subseteq Q.open \cup Q.closed
    BY <2>1, <2>3 DEF Grows, ImportInv
  <2>6. \A s \in (Q.open \cup Q.closed) \ (h.open \cup h.closed) : Known(s) /\ s[1] <= run
    BY <2>1, <2>3, <1>1, <1>7 DEF ImportInv
  <2>7. ASSUME NEW s \in Q.closed \ h.closed, online, here, s[1] = Current
        PROVE  ~LastLine(Current, s[2])
    <3>1. CASE s \in R.closed
      BY <3>1, <2>7 DEF ImportInv
    <3>2. CASE s \notin R.closed
      <4>1. s[1] = run /\ (closeAtEnd \/ ~LastLine(run, s[2]))
        BY <3>2, <2>1, <2>3, <2>7
      <4>2. ~closeAtEnd
        BY <4>1, <2>7, <1>2
      <4> QED
        BY <4>1, <4>2, <2>7
    <3> QED
      BY <3>1, <3>2
  <2>8. here /\ run = Current => Sessions(ScanStep(Current).to) \subseteq Q.open \cup Q.closed
    BY <2>1, <2>3
  <2>9. ASSUME Faithful(h), NEW s \in Q.open, s[1] <= run
        PROVE  online /\ here /\ s[1] = Current /\ s \in Sessions(ScanStep(Current).to)
    <3>1. CASE s[1] = run
      <4>1. ~ScanStep(run).absorbed
        BY <2>9, <1>1, <1>4, <1>10 DEF Faithful
      <4>2. AuthsOnly(R, run, logs[run])
        BY <1>6 DEF AuthsOnly, Known
      <4>3. ~closeAtEnd /\ s \in Sessions(ScanStep(run).to)
        BY <4>1, <4>2, <3>1, <2>1, <2>3, <2>9
      <4> QED
        BY <4>3, <3>1, <1>2
    <3>2. CASE s[1] # run
      <4>1. s \in R.open \cup R.closed
        BY <3>2, <2>1, <2>3, <2>9
      <4>2. s \in R.open
        BY <4>1, <2>1, <2>3, <2>9 DEF Grows
      <4>3. s[1] <= n
        BY <4>1, <3>2, <2>9, <1>6a
      <4> QED
        BY <4>2, <4>3, <2>9 DEF ImportInv
    <3> QED
      BY <3>1, <3>2
  <2> QED
    BY <2>4, <2>5, <2>6, <2>7, <2>8, <2>9 DEF ImportInv
<1> QED
  BY <1>9, <1>10

\* The history after the import: what was there, and what the new logs say.
LEMMA ImportFacts ==
    ASSUME Logged, NEW h \in HistoryType, h.open \cap h.closed = {}, h.imported \subseteq Archives,
           \A s \in h.open \cup h.closed : Known(s)
    PROVE  ImportInv(h, Import(h), Current)
<1>1. Current \in Nat /\ Archives \subseteq 1 .. Current
  BY DEF Logged, Current, Archives
<1>2. \E g : ImportedBy(g, h)
  BY <1>1, ImportSteps
<1>3. PICK g : /\ Import(h) = g[Current]
               /\ g[0] = h
               /\ \A run \in 1 .. Current : g[run] = ImportRun(g[run - 1], run)
  BY <1>2 DEF ImportedBy
<1> DEFINE S == {n \in 0 .. Current : ImportInv(h, g[n], n)}
<1>4. 0 \in S
  <2>1. \A s \in h.open : ~ (s[1] <= 0)
    BY DEF Known
  <2>2. {run \in Archives : run <= 0} = {}
    <3>1. \A r \in Archives : ~ (r <= 0)
      BY <1>1
    <3> QED
      BY <3>1
  <2>3. here => Current # 0
    BY DEF Logged
  <2>4. ImportInv(h, h, 0)
    BY <2>1, <2>2, <2>3 DEF ImportInv
  <2> QED
    BY <2>4, <1>1, <1>3
<1>5. ASSUME NEW n \in 0 .. Current - 1, n \in S
      PROVE  n + 1 \in S
  <2>1. /\ n \in Nat /\ n < Current /\ n + 1 \in 1 .. Current
        /\ (n + 1) - 1 = n /\ n + 1 \in 0 .. Current
    BY <1>1
  <2>2. g[n + 1] = ImportRun(g[n], n + 1)
    BY <1>3, <2>1
  <2>3. ImportInv(h, g[n], n)
    BY <1>5
  <2>4. ImportInv(h, ImportRun(g[n], n + 1), n + 1)
    BY <2>1, <2>3, ImportRunFacts
  <2> QED
    BY <2>1, <2>2, <2>4
<1> HIDE DEF S
<1>6. Current \in S
  <2>1. Current \in 0 .. Current /\ 0 \in Nat
    BY <1>1
  <2> QED
    BY <2>1, <1>1, <1>4, <1>5, CountUp
<1> QED
  BY <1>3, <1>6 DEF S

-----------------------------------------------------------------------------
(* The inductive invariant *)

Up == manager \in {"poll", "reconcile"}
Clean(what) == spoiled \cap what = {}

\* The last line about a player, and it is an authentication.
Present(p, i) ==
    /\ i \in 1 .. Len(logs[Current]) /\ Auth(logs[Current], i, p)
    /\ LastLine(Current, i)

Types ==
    /\ IsFiniteSet(Players) /\ online \in BOOLEAN /\ here \in BOOLEAN
    /\ logs \in Seq(Seq(Line)) /\ Current <= MaxRuns /\ (here => Current # 0)
    /\ \A run \in 1 .. Current : Len(logs[run]) <= MaxLines
    /\ connected \subseteq Players /\ listed \subseteq Players
    /\ genuine \subseteq connected \cap listed
    /\ manager \in {"down", "starting", "poll", "reconcile"}
    /\ playersFile \in HistoryType /\ playerHistory \in HistoryType
    /\ loop \in [wasRunning : BOOLEAN, at : [run : Nat, offset : Nat], of : Processor]
    /\ spoiled \subseteq Spoils

\* Who is on the server has authenticated in Mordhau.log, and not left there.
ServerInv ==
    \A p \in connected : online /\ here /\ \E i \in 1 .. Len(logs[Current]) : Present(p, i)

\* Sessions are of the logs; the session of a player on the server is not
\* closed, if no list from before it showed it; and an archive that was imported
\* has none that is open.
HistoryOK(h) ==
    /\ h.open \cap h.closed = {}
    /\ \A s \in h.open \cup h.closed : Known(s)
    /\ Clean({"stale"}) => \A p \in connected : \A i \in 1 .. Len(logs[Current]) :
          Present(p, i) => <<Current, i>> \notin h.closed
    /\ h.imported \subseteq Archives
    /\ Clean({"replay"}) => \A s \in h.open : s[1] \notin h.imported

Idle == [wasRunning |-> FALSE, at |-> Follower(0, 0), of |-> Fresh]

StoreInv ==
    /\ HistoryOK(playersFile) /\ HistoryOK(playerHistory)
    /\ playersFile.imported = playerHistory.imported
    /\ ~Up => playersFile = playerHistory /\ loop = Idle

\* What the loop will find in Mordhau.log is what was imported.
Found == IF here THEN ScanStep(Current) ELSE Begins(Fresh)
StartingInv ==
    manager = "starting" /\ Clean({"gap"}) =>
        /\ Sessions(Found.to) \subseteq playerHistory.open \cup playerHistory.closed
        /\ Clean({"replay"}) =>
              /\ ~Found.absorbed
              /\ playerHistory.open = IF online /\ here
                                      THEN Sessions(Found.to) \ playerHistory.closed ELSE {}

\* The follower is in a log that is there, and the live sessions are in what
\* it has read; while the server is down there are none.
FollowerInv ==
    /\ loop.at.run \in 0 .. Current
    /\ loop.at.run = 0 => loop.at.offset = 0
    /\ loop.at.run # 0 => loop.at.offset <= Len(logs[loop.at.run])
    /\ Follows(loop.of, loop.at.run, logs[loop.at.run], loop.at.offset)
    /\ ~loop.wasRunning => Live(loop.of) = {} /\ (online /\ here => loop.at.run # Current)

\* Of Mordhau.log only what was read is stored.
ReadInv ==
    here => \A s \in playerHistory.open \cup playerHistory.closed :
               s[1] < Current \/ (loop.at.run = Current /\ s[2] <= loop.at.offset)

LiveInv ==
    /\ Sessions(loop.of) \cap playerHistory.closed = {}
    /\ Clean({"gap", "missed", "cut"}) => Sessions(loop.of) \subseteq playerHistory.open
    /\ Clean({"gap", "replay"}) => playerHistory.open = Sessions(loop.of)

\* The session of a player on the server is live once it was read, and the
\* bridge lists whom it has listed since, under the controller of the session.
WatchInv ==
    \A p \in connected : \A i \in 1 .. Len(logs[Current]) :
        Present(p, i) =>
            /\ Clean({"stale"}) /\ p \in loop.of.seen /\ loop.of.live[p] = <<Current, i>>
                  => p \in genuine
            /\ Clean({"gap", "rejoin", "stale", "replay"}) /\ loop.at.run = Current /\ i <= loop.at.offset
                  => loop.of.live[p] = <<Current, i>>

LoopInv == Up => FollowerInv /\ ReadInv /\ LiveInv /\ WatchInv

\* What was announced is stored as closed.
ToldInv == Clean({"gap", "missed", "cut"}) => again = {} /\ told \subseteq playerHistory.closed

SessionsInv ==
    Types /\ ServerInv /\ StoreInv /\ StartingInv /\ LoopInv /\ ToldInv

\* The manager was never started, and nothing has happened.
LEMMA InitSessions ==
    ASSUME SessionsInit
    PROVE  SessionsInv
<1>1. /\ logs = <<>> /\ here = FALSE /\ online = FALSE /\ manager = "down" /\ connected = {}
      /\ listed = {} /\ genuine = {} /\ playersFile = [open |-> {}, closed |-> {}, imported |-> {}]
      /\ playerHistory = playersFile /\ loop = Idle /\ told = {} /\ again = {} /\ spoiled = {}
  BY DEF SessionsInit, Idle
<1>2. Current = 0
  BY <1>1 DEF Current
<1>3. Types
  <2>1. loop \in [wasRunning : BOOLEAN, at : [run : Nat, offset : Nat], of : Processor]
    BY <1>1, FreshFacts DEF Idle, Follower
  <2>2. playersFile \in HistoryType /\ playerHistory \in HistoryType
    BY <1>1 DEF HistoryType
  <2>3. logs \in Seq(Seq(Line))
    BY <1>1
  <2>4. Current <= MaxRuns /\ (here => Current # 0)
    BY <1>1, <1>2, SessionsAssumption
  <2>5. \A run \in 1 .. Current : Len(logs[run]) <= MaxLines
    BY <1>2
  <2>6. /\ IsFiniteSet(Players) /\ online \in BOOLEAN /\ here \in BOOLEAN
        /\ connected \subseteq Players /\ listed \subseteq Players /\ spoiled \subseteq Spoils
        /\ genuine \subseteq connected \cap listed
        /\ manager \in {"down", "starting", "poll", "reconcile"}
    BY <1>1, SessionsAssumption
  <2> QED
    BY <2>1, <2>2, <2>3, <2>4, <2>5, <2>6 DEF Types
<1>4. HistoryOK(playersFile)
  BY <1>1 DEF HistoryOK
<1> QED
  BY <1>1, <1>3, <1>4 DEF SessionsInv, ServerInv, StoreInv, StartingInv, LoopInv, ToldInv, Up

-----------------------------------------------------------------------------
(* The server's steps *)

\* What a step of the server leaves alone, and what it may do to the rest.
Elsewhere == UNCHANGED <<manager, loop, playersFile, playerHistory, told, again>>

NewLine(i) == Current' = Current /\ here /\ i = Len(logs[Current]) + 1

ServerMoves ==
    /\ Elsewhere
    /\ Current <= Current'
    /\ \A run \in 1 .. Current :
          /\ Len(logs[run]) <= Len(logs'[run])
          /\ \A i \in 1 .. Len(logs[run]) : logs'[run][i] = logs[run][i]
    /\ Archives \subseteq Archives'
    /\ \A p \in connected' : \A i \in 1 .. Len(logs'[Current']) :
          Present(p, i)' => \/ p \in connected /\ Present(p, i) /\ Current' = Current
                            \/ NewLine(i)
    /\ spoiled \ {"rejoin", "stale"} \subseteq spoiled'
    /\ connected' # {} => spoiled \subseteq spoiled'
    /\ genuine \cap connected' \subseteq genuine'
    /\ here' => (here /\ Current' = Current) \/ Current < Current'
    /\ online' /\ here' => (online /\ here /\ Current' = Current) \/ Current < Current'

\* What the server does keeps the invariant: it writes, and a manager's record
\* is of what was written before.
LEMMA ServerMovesKeep ==
    ASSUME SessionsInv, ServerMoves, Types', ServerInv', StartingInv'
    PROVE  SessionsInv'
<1>1. /\ manager' = manager /\ loop' = loop /\ playersFile' = playersFile
      /\ playerHistory' = playerHistory /\ told' = told /\ again' = again
  BY DEF ServerMoves, Elsewhere
<1>2. /\ Current \in Nat /\ Current' \in Nat /\ Current <= Current'
      /\ logs \in Seq(Seq(Line)) /\ logs' \in Seq(Seq(Line))
  <2>1. logs \in Seq(Seq(Line)) /\ logs' \in Seq(Seq(Line))
    BY DEF SessionsInv, Types
  <2>2. Current \in Nat /\ Current' \in Nat
    BY <2>1 DEF Current
  <2> QED
    BY <2>1, <2>2 DEF ServerMoves
<1>3. ASSUME NEW run \in 1 .. Current
      PROVE  /\ run \in 1 .. Current' /\ Len(logs[run]) \in Nat /\ Len(logs'[run]) \in Nat
             /\ Len(logs[run]) <= Len(logs'[run])
             /\ \A i \in 1 .. Len(logs[run]) :
                   i \in 1 .. Len(logs'[run]) /\ logs'[run][i] = logs[run][i]
  <2>1. run \in 1 .. Current' /\ logs[run] \in Seq(Line) /\ logs'[run] \in Seq(Line)
    BY <1>2 DEF Current
  <2>2. /\ Len(logs[run]) <= Len(logs'[run])
        /\ \A i \in 1 .. Len(logs[run]) : logs'[run][i] = logs[run][i]
    BY DEF ServerMoves
  <2> QED
    BY <2>1, <2>2
<1>4. \A s : Known(s) => Known(s)'
  BY <1>3 DEF Known
<1>5. Clean({"replay"})' => Clean({"replay"})
  BY DEF Clean, ServerMoves
<1>6. ASSUME NEW h, HistoryOK(h)
      PROVE  /\ h.open \cap h.closed = {}
             /\ \A s \in h.open \cup h.closed : Known(s)'
             /\ Clean({"stale"})' => \A p \in connected' : \A i \in 1 .. Len(logs'[Current']) :
                   Present(p, i)' => <<Current', i>> \notin h.closed
             /\ h.imported \subseteq Archives'
             /\ Clean({"replay"})' => \A s \in h.open : s[1] \notin h.imported
  <2>1. ASSUME NEW p \in connected', NEW i \in 1 .. Len(logs'[Current']), Present(p, i)',
               <<Current', i>> \in h.closed, Clean({"stale"})'
        PROVE  FALSE
    <3>0. Clean({"stale"})
      BY <2>1 DEF Clean, ServerMoves
    <3>1. CASE p \in connected /\ Present(p, i) /\ Current' = Current
      BY <3>0, <3>1, <2>1, <1>6 DEF HistoryOK, Present
    <3>2. CASE NewLine(i)
      <4>1. Known(<<Current, i>>)
        BY <3>2, <2>1, <1>6 DEF HistoryOK, NewLine
      <4>2. i \in 1 .. Len(logs[Current]) /\ Current \in 1 .. Current
        BY <4>1 DEF Known
      <4>3. Len(logs[Current]) \in Nat
        BY <1>3, <4>2
      <4> QED
        BY <3>2, <4>2, <4>3 DEF NewLine
    <3> QED
      BY <3>1, <3>2, <2>1 DEF ServerMoves
  <2> QED
    BY <2>1, <1>4, <1>5, <1>6 DEF HistoryOK, ServerMoves
<1>7. StoreInv'
  <2>1. HistoryOK(playersFile)'
    BY <1>1, <1>6 DEF HistoryOK, SessionsInv, StoreInv
  <2>2. HistoryOK(playerHistory)'
    BY <1>1, <1>6 DEF HistoryOK, SessionsInv, StoreInv
  <2> QED
    BY <1>1, <2>1, <2>2 DEF SessionsInv, StoreInv, Up, Idle
<1>8. ToldInv'
  BY <1>1 DEF SessionsInv, ToldInv, Clean, ServerMoves
<1>9. ASSUME Up
      PROVE  FollowerInv' /\ ReadInv' /\ LiveInv' /\ WatchInv'
  <2>1. FollowerInv /\ ReadInv /\ LiveInv /\ WatchInv
    BY <1>9 DEF SessionsInv, LoopInv
  <2>2. loop.at.run \in Nat /\ loop.at.offset \in Nat
    BY DEF SessionsInv, Types
  <2>3. loop.at.run \in 0 .. Current' /\ (loop.at.run = 0 => loop.at.offset = 0)
    BY <2>1, <1>2 DEF FollowerInv
  <2>4. ASSUME loop.at.run # 0
        PROVE  /\ loop.at.offset <= Len(logs[loop.at.run])
               /\ loop.at.offset <= Len(logs'[loop.at.run])
               /\ loop.at.run \in 1 .. Current /\ Len(logs[loop.at.run]) \in Nat
               /\ \A i \in 1 .. loop.at.offset : logs'[loop.at.run][i] = logs[loop.at.run][i]
    <3>1. loop.at.run \in 1 .. Current /\ loop.at.offset <= Len(logs[loop.at.run])
      BY <2>1, <2>2, <2>4, <1>2 DEF FollowerInv
    <3>2. /\ Len(logs[loop.at.run]) \in Nat /\ Len(logs'[loop.at.run]) \in Nat
          /\ Len(logs[loop.at.run]) <= Len(logs'[loop.at.run])
          /\ \A i \in 1 .. Len(logs[loop.at.run]) : logs'[loop.at.run][i] = logs[loop.at.run][i]
      BY <1>3, <3>1
    <3> QED
      BY <3>1, <3>2, <2>2
  <2>5. Follows(loop.of, loop.at.run, logs'[loop.at.run], loop.at.offset)
    <3>1. Follows(loop.of, loop.at.run, logs[loop.at.run], loop.at.offset)
      BY <2>1 DEF FollowerInv
    <3>2. ASSUME NEW p \in Live(loop.of)
          PROVE  \E j \in 1 .. loop.at.offset :
                    loop.of.live[p] = <<loop.at.run, j>> /\ Auth(logs'[loop.at.run], j, p)
      <4>1. PICK j \in 1 .. loop.at.offset :
               loop.of.live[p] = <<loop.at.run, j>> /\ Auth(logs[loop.at.run], j, p)
        BY <3>1 DEF Follows
      <4>2. loop.at.run # 0
        BY <2>3, <4>1
      <4> QED
        BY <4>1, <4>2, <2>4 DEF Auth
    <3> QED
      BY <3>1, <3>2 DEF Follows
  <2>6. ~loop.wasRunning => Live(loop.of) = {} /\ (online' /\ here' => loop.at.run # Current')
    BY <2>1, <1>2 DEF FollowerInv, ServerMoves
  <2>7. FollowerInv'
    BY <1>1, <2>3, <2>4, <2>5, <2>6 DEF FollowerInv, Follows, Live, Auth
  <2>8. ReadInv'
    <3>1. ASSUME here', NEW s \in playerHistory.open \cup playerHistory.closed
          PROVE  s[1] < Current' \/ (loop.at.run = Current' /\ s[2] <= loop.at.offset)
      <4>1. CASE here /\ Current' = Current
        BY <4>1, <2>1 DEF ReadInv
      <4>2. CASE Current < Current'
        <5>1. s[1] \in 1 .. Current
          BY <3>1 DEF SessionsInv, StoreInv, HistoryOK, Known
        <5> QED
          BY <5>1, <4>2, <1>2
      <4> QED
        BY <4>1, <4>2, <3>1 DEF ServerMoves
    <3> QED
      BY <3>1, <1>1 DEF ReadInv
  <2>9. LiveInv'
    BY <1>1, <2>1 DEF LiveInv, Clean, ServerMoves, Sessions, Live
  <2>10. WatchInv'
    <3>1. ASSUME NEW p \in connected', NEW i \in 1 .. Len(logs'[Current']), Present(p, i)'
          PROVE  /\ Clean({"stale"})' /\ p \in loop.of.seen /\ loop.of.live[p] = <<Current', i>>
                       => p \in genuine'
                 /\ Clean({"gap", "rejoin", "stale", "replay"})' /\ loop.at.run = Current'
                    /\ i <= loop.at.offset
                       => loop.of.live[p] = <<Current', i>>
      <4>1. CASE p \in connected /\ Present(p, i) /\ Current' = Current
        <5>1. /\ Clean({"gap", "rejoin", "stale", "replay"})'
                    => Clean({"gap", "rejoin", "stale", "replay"})
              /\ Clean({"stale"})' => Clean({"stale"})
          BY <3>1 DEF Clean, ServerMoves
        <5>2. i \in 1 .. Len(logs[Current])
          BY <4>1 DEF Present
        <5> QED
          BY <4>1, <5>1, <5>2, <2>1, <3>1 DEF WatchInv, ServerMoves
      <4>2. CASE NewLine(i)
        <5>1. Current \in 1 .. Current /\ Len(logs[Current]) \in Nat /\ i > Len(logs[Current])
          <6>0. Current # 0
            BY <4>2 DEF NewLine, SessionsInv, Types
          <6>1. Current \in 1 .. Current
            BY <6>0, <1>2
          <6>2. Len(logs[Current]) \in Nat
            BY <6>1, <1>3
          <6> QED
            BY <6>1, <6>2, <4>2 DEF NewLine
        <5>2. loop.at.run = Current' => i > loop.at.offset
          BY <4>2, <5>1, <2>2, <2>4 DEF NewLine
        <5>3. ASSUME p \in loop.of.seen, loop.of.live[p] = <<Current', i>>
              PROVE  FALSE
          <6>1. p \in Live(loop.of)
            BY <5>3, <2>1 DEF FollowerInv, Follows
          <6>2. PICK j \in 1 .. loop.at.offset : loop.of.live[p] = <<loop.at.run, j>>
            BY <6>1, <2>1 DEF FollowerInv, Follows
          <6>3. <<Current', i>> = <<loop.at.run, j>>
            BY <5>3, <6>2
          <6> QED
            BY <6>2, <6>3, <5>2, <2>2
        <5> QED
          BY <5>2, <5>3, <2>2
      <4> QED
        BY <4>1, <4>2, <3>1 DEF ServerMoves
    <3> QED
      BY <3>1, <1>1 DEF WatchInv
  <2> QED
    BY <2>7, <2>8, <2>9, <2>10
<1>10. LoopInv'
  BY <1>1, <1>9 DEF LoopInv, Up
<1> QED
  BY <1>7, <1>8, <1>10 DEF SessionsInv

\* The log that a line is written to.
Grown(line) ==
    /\ Current' = Current /\ Current \in 1 .. Current /\ logs' \in Seq(Seq(Line))
    /\ \A run \in 1 .. Current : run # Current => logs'[run] = logs[run]
    /\ Len(logs[Current]) \in Nat /\ Len(logs'[Current]) = Len(logs[Current]) + 1
    /\ Len(logs'[Current]) <= MaxLines
    /\ \A i \in 1 .. Len(logs[Current]) : logs'[Current][i] = logs[Current][i]
    /\ logs'[Current][Len(logs[Current]) + 1] = line

\* A line that is written is the last one of the current log.
LEMMA WriteFacts ==
    ASSUME Types, MayWrite, NEW line \in Line, Write(line)
    PROVE  Grown(line)
<1>1. /\ logs \in Seq(Seq(Line)) /\ here /\ (here => Current # 0)
      /\ Len(logs[Current]) < MaxLines /\ MaxLines \in Nat
  BY SessionsAssumption DEF Types, MayWrite
<1>2. Current \in Nat /\ Current \in 1 .. Len(logs) /\ Current = Len(logs)
  BY <1>1 DEF Current
<1>3. logs[Current] \in Seq(Line)
  BY <1>1, <1>2
<1> DEFINE log == logs[Current]
           more == Append(log, line)
<1>4. /\ more \in Seq(Line) /\ Len(log) \in Nat /\ Len(more) = Len(log) + 1
      /\ more[Len(log) + 1] = line /\ \A i \in 1 .. Len(log) : more[i] = log[i]
  BY <1>3
<1>5. logs' = [logs EXCEPT ![Current] = more]
  BY DEF Write
<1> HIDE DEF more
<1>6. /\ logs' \in Seq(Seq(Line)) /\ Len(logs') = Len(logs) /\ logs'[Current] = more
      /\ \A run \in 1 .. Len(logs) : run # Current => logs'[run] = logs[run]
  BY <1>1, <1>2, <1>4, <1>5
<1>7. Current' = Current
  BY <1>6 DEF Current
<1> QED
  BY <1>1, <1>2, <1>4, <1>6, <1>7 DEF Grown

\* Who has the last line of the log that was written to.
LEMMA GrownPresent ==
    ASSUME NEW line \in Line, Grown(line), NEW p, NEW i \in 1 .. Len(logs'[Current'])
    PROVE  Present(p, i)' <=> \/ Present(p, i) /\ i \in 1 .. Len(logs[Current]) /\ line.who # p
                              \/ i = Len(logs[Current]) + 1 /\ line.kind = "auth" /\ line.who = p
<1> DEFINE n == Len(logs[Current])
<1>1. /\ Current' = Current /\ n \in Nat /\ Len(logs'[Current]) = n + 1
      /\ \A k \in 1 .. n : logs'[Current][k] = logs[Current][k]
      /\ logs'[Current][n + 1] = line
  BY DEF Grown
<1>2. Present(p, i)' <=> /\ logs'[Current][i].kind = "auth" /\ logs'[Current][i].who = p
                         /\ \A k \in i + 1 .. n + 1 : logs'[Current][k].who # p
  BY <1>1 DEF Present, Auth, LastLine
<1> HIDE DEF n
<1>3. CASE i = n + 1
  <2>1. i + 1 .. n + 1 = {} /\ i \notin 1 .. n
    BY <1>1, <1>3
  <2>2. Present(p, i)' <=> line.kind = "auth" /\ line.who = p
    BY <1>1, <1>2, <1>3, <2>1
  <2> QED
    BY <1>3, <2>1, <2>2 DEF n
<1>4. CASE i # n + 1
  <2>1. i \in 1 .. n /\ i + 1 .. n + 1 = (i + 1 .. n) \cup {n + 1}
    BY <1>1, <1>4
  <2>2. Present(p, i)' <=> /\ logs[Current][i].kind = "auth" /\ logs[Current][i].who = p
                           /\ \A k \in i + 1 .. n : logs[Current][k].who # p
                           /\ line.who # p
    BY <1>1, <1>2, <2>1
  <2>3. Present(p, i) <=> /\ logs[Current][i].kind = "auth" /\ logs[Current][i].who = p
                          /\ \A k \in i + 1 .. n : logs[Current][k].who # p
    BY <2>1 DEF Present, Auth, LastLine, n
  <2> QED
    BY <1>4, <2>1, <2>2, <2>3 DEF n
<1> QED
  BY <1>3, <1>4

\* What writing a line leaves of the follower's view of the logs.
LEMMA GrownLogs ==
    ASSUME Types, NEW line \in Line, Grown(line), here' = here,
           spoiled' = Unseen, NEW p, line.who = p,
           connected' \subseteq connected \cup (IF line.kind = "auth" THEN {p} ELSE {}),
           genuine \cap connected' \subseteq genuine', UNCHANGED <<online, listed>>, Elsewhere,
           online, here
    PROVE  ServerMoves
<1>1. Elsewhere
  OBVIOUS
<1>2. Current' = Current /\ Current \in Nat
  BY DEF Grown
<1>3. ASSUME NEW run \in 1 .. Current
      PROVE  /\ Len(logs[run]) <= Len(logs'[run])
             /\ \A i \in 1 .. Len(logs[run]) : logs'[run][i] = logs[run][i]
  <2>1. CASE run = Current
    BY <2>1 DEF Grown
  <2>2. CASE run # Current
    <3>1. logs'[run] = logs[run] /\ logs \in Seq(Seq(Line)) /\ run \in 1 .. Len(logs)
      BY <2>2 DEF Grown, Types, Current
    <3>2. Len(logs[run]) \in Nat
      BY <3>1
    <3> QED
      BY <3>1, <3>2
  <2> QED
    BY <2>1, <2>2
<1>4. Archives' = Archives
  BY <1>2 DEF Archives
<1>5. ASSUME NEW q \in connected', NEW i \in 1 .. Len(logs'[Current']), Present(q, i)'
      PROVE  (q \in connected /\ Present(q, i) /\ Current' = Current) \/ NewLine(i)
  <2>1. \/ Present(q, i) /\ line.who # q
        \/ i = Len(logs[Current]) + 1
    BY <1>5, GrownPresent
  <2> QED
    BY <2>1, <1>2, <1>5 DEF NewLine
<1>6. spoiled \subseteq spoiled'
  BY DEF Unseen
<1> QED
  BY <1>2, <1>3, <1>4, <1>5, <1>6 DEF ServerMoves

\* What happens before the loop begins counts as a gap.
LEMMA UnseenFacts ==
    ASSUME Types
    PROVE  /\ spoiled \subseteq Unseen /\ Unseen \subseteq Spoils
           /\ manager = "starting" => "gap" \in Unseen
BY DEF Types, Unseen, Spoils

\* After a gap nothing is expected of what the loop will find.
LEMMA StartingSpoiled ==
    ASSUME manager = "starting" => "gap" \in spoiled', manager' = manager
    PROVE  StartingInv'
BY DEF StartingInv, Clean

\* A player comes, and has the last line.
LEMMA LoginKeeps ==
    ASSUME SessionsInv, NEW p \in Players, Login(p)
    PROVE  SessionsInv'
<1> DEFINE line == [kind |-> "auth", who |-> p]
<1>1. /\ MayWrite /\ p \notin connected /\ Write(line) /\ connected' = connected \cup {p}
      /\ spoiled' = Unseen /\ UNCHANGED <<online, here, listed, genuine>> /\ Elsewhere
  BY DEF Login, histories, announced, Elsewhere
<1>2. line \in Line /\ line.who = p /\ line.kind = "auth"
  BY DEF Line
<1>3. Types /\ ServerInv /\ online /\ here
  BY <1>1 DEF SessionsInv, MayWrite
<1> HIDE DEF line
<1>4. Grown(line)
  BY <1>1, <1>2, <1>3, WriteFacts
<1>5. ServerMoves
  BY <1>1, <1>2, <1>3, <1>4, GrownLogs
<1>6. Types'
  <2>1. (Current <= MaxRuns)' /\ (logs \in Seq(Seq(Line)))' /\ (here => Current # 0)'
    BY <1>1, <1>3, <1>4 DEF Types, Grown
  <2>2. (\A run \in 1 .. Current : Len(logs[run]) <= MaxLines)'
    BY <1>3, <1>4 DEF Types, Grown
  <2>3. spoiled' \subseteq Spoils
    BY <1>1, <1>3, UnseenFacts
  <2> QED
    BY <1>1, <1>3, <2>1, <2>2, <2>3 DEF Types, Elsewhere
<1>7. ServerInv'
  <2>1. ASSUME NEW q \in connected'
        PROVE  \E i \in 1 .. Len(logs'[Current']) : Present(q, i)'
    <3>1. CASE q = p
      <4>1. Len(logs[Current]) + 1 \in 1 .. Len(logs'[Current'])
        BY <1>4 DEF Grown
      <4> QED
        BY <3>1, <4>1, <1>2, <1>4, GrownPresent
    <3>2. CASE q # p
      <4>1. PICK i \in 1 .. Len(logs[Current]) : Present(q, i)
        BY <1>1, <1>3, <2>1, <3>2 DEF ServerInv
      <4>2. i \in 1 .. Len(logs'[Current'])
        BY <1>4, <4>1 DEF Grown
      <4> QED
        BY <3>2, <4>1, <4>2, <1>2, <1>4, GrownPresent
    <3> QED
      BY <3>1, <3>2
  <2> QED
    BY <1>1, <1>3, <2>1 DEF ServerInv
<1>8. StartingInv'
  BY <1>1, <1>3, UnseenFacts, StartingSpoiled DEF Elsewhere
<1> QED
  BY <1>5, <1>6, <1>7, <1>8, ServerMovesKeep

\* A step that leaves the logs alone, and adds nobody.
LEMMA SameLogs ==
    ASSUME Types, Elsewhere, logs' = logs, connected' \subseteq connected,
           here' \in BOOLEAN, online' \in BOOLEAN, here' => here, online' /\ here' => online,
           spoiled \ {"rejoin", "stale"} \subseteq spoiled',
           connected' # {} => spoiled \subseteq spoiled',
           genuine \cap connected' \subseteq genuine', genuine' \subseteq connected' \cap listed',
           listed' \subseteq Players, spoiled' \subseteq Spoils
    PROVE  ServerMoves /\ Types'
<1>1. Current' = Current /\ Current \in Nat
  BY DEF Types, Current
<1>2. \A p, i : Present(p, i)' = Present(p, i)
  BY <1>1 DEF Present, LastLine
<1>3. ServerMoves
  <2>1. \A run \in 1 .. Current : Len(logs[run]) \in Nat
    BY DEF Types, Current
  <2>2. Archives \subseteq Archives'
    BY <1>1 DEF Archives, Types
  <2> QED
    BY <1>1, <1>2, <2>1, <2>2 DEF ServerMoves
<1>4. Types'
  <2>1. (Current <= MaxRuns /\ logs \in Seq(Seq(Line)) /\ (here => Current # 0))'
    BY <1>1 DEF Types
  <2>2. (\A run \in 1 .. Current : Len(logs[run]) <= MaxLines)'
    BY <1>1 DEF Types
  <2> QED
    BY <2>1, <2>2 DEF Types, Elsewhere
<1> QED
  BY <1>3, <1>4

\* What the loop will find stays so while the log and the server do.
LEMMA StartingSame ==
    ASSUME SessionsInv, Elsewhere, UNCHANGED <<logs, here, online, spoiled>>
    PROVE  StartingInv'
<1>1. StartingInv
  BY DEF SessionsInv
<1>2. Found' = Found
  BY DEF Found, ScanStep, Current
<1> QED
  BY <1>1, <1>2 DEF StartingInv, Elsewhere, Clean

\* A player leaves, with or without a line.
LEMMA LeaveKeeps ==
    ASSUME SessionsInv, NEW p \in Players, Leave(p)
    PROVE  SessionsInv'
<1>1. /\ p \in connected /\ connected' = connected \ {p} /\ genuine' = genuine \ {p}
      /\ UNCHANGED <<online, here, listed>> /\ Elsewhere
  BY DEF Leave, histories, announced, Elsewhere
<1>2. Types /\ ServerInv /\ online /\ here
  BY <1>1 DEF SessionsInv, ServerInv
<1>3. CASE UNCHANGED <<logs, spoiled>>
  <2>1. ServerMoves /\ Types'
    BY <1>1, <1>2, <1>3, SameLogs DEF Types
  <2>2. StartingInv'
    BY <1>1, <1>3, StartingSame
  <2>3. ServerInv'
    <3>1. \A q, i : Present(q, i)' = Present(q, i)
      BY <1>3 DEF Present, LastLine, Current
    <3> QED
      BY <1>1, <1>2, <1>3, <3>1 DEF ServerInv, Current
  <2> QED
    BY <2>1, <2>2, <2>3, ServerMovesKeep
<1> DEFINE line == [kind |-> "close", who |-> p]
<1>4. CASE MayWrite /\ Write(line) /\ spoiled' = Unseen
  <2>1. line \in Line /\ line.who = p /\ line.kind # "auth"
    BY DEF Line
  <2> HIDE DEF line
  <2>2. Grown(line)
    BY <1>2, <1>4, <2>1, WriteFacts
  <2>3. ServerMoves
    BY <1>1, <1>2, <1>4, <2>1, <2>2, GrownLogs
  <2>4. Types'
    <3>1. (Current <= MaxRuns)' /\ (logs \in Seq(Seq(Line)))' /\ (here => Current # 0)'
      BY <1>1, <1>2, <2>2 DEF Types, Grown
    <3>2. (\A run \in 1 .. Current : Len(logs[run]) <= MaxLines)'
      BY <1>2, <2>2 DEF Types, Grown
    <3>3. spoiled' \subseteq Spoils
      BY <1>2, <1>4, UnseenFacts
    <3> QED
      BY <1>1, <1>2, <3>1, <3>2, <3>3 DEF Types, Elsewhere
  <2>5. ServerInv'
    <3>1. ASSUME NEW q \in connected'
          PROVE  \E i \in 1 .. Len(logs'[Current']) : Present(q, i)'
      <4>1. q # p
        BY <1>1, <3>1
      <4>2. PICK i \in 1 .. Len(logs[Current]) : Present(q, i)
        BY <1>1, <1>2, <3>1 DEF ServerInv
      <4>3. i \in 1 .. Len(logs'[Current'])
        BY <2>2, <4>2 DEF Grown
      <4> QED
        BY <4>1, <4>2, <4>3, <2>1, <2>2, GrownPresent
    <3> QED
      BY <1>1, <1>2, <3>1 DEF ServerInv
  <2>6. StartingInv'
    BY <1>1, <1>2, <1>4, UnseenFacts, StartingSpoiled DEF Elsewhere
  <2> QED
    BY <2>3, <2>4, <2>5, <2>6, ServerMovesKeep
<1> QED
  BY <1>3, <1>4 DEF Leave

\* The bridge lists who is on the server, new ones or not, and some who were.
LEMMA SampleKeeps ==
    ASSUME SessionsInv, Sample
    PROVE  SessionsInv'
<1>1. /\ UNCHANGED <<online, logs, here, connected, spoiled>> /\ Elsewhere /\ Types /\ ServerInv
      /\ \E new \in SUBSET (connected \ genuine), old \in SUBSET (listed \ genuine) :
            genuine' = genuine \cup new /\ listed' = genuine' \cup old
  BY DEF Sample, histories, announced, Elsewhere, SessionsInv
<1>2. /\ listed' \subseteq Players /\ genuine \cap connected' \subseteq genuine'
      /\ genuine' \subseteq connected' \cap listed'
  BY <1>1 DEF Types
<1>3. ServerMoves /\ Types'
  BY <1>1, <1>2, SameLogs DEF Types
<1>4. ServerInv'
  BY <1>1 DEF ServerInv, Present, LastLine, Current
<1>5. StartingInv'
  BY <1>1, StartingSame
<1> QED
  BY <1>3, <1>4, <1>5, ServerMovesKeep

\* The server ends, and nobody is on it.
LEMMA RunEndsKeeps ==
    ASSUME SessionsInv, RunEnds
    PROVE  SessionsInv'
<1>1. /\ UNCHANGED <<logs, here, listed>> /\ Elsewhere /\ Types /\ online
      /\ online' = FALSE /\ connected' = {} /\ genuine' = {}
      /\ spoiled' = Unseen \ {"rejoin", "stale"}
  BY DEF RunEnds, histories, announced, Elsewhere, SessionsInv
<1>2. ServerMoves /\ Types'
  BY <1>1, UnseenFacts, SameLogs DEF Types
<1>3. ServerInv'
  BY <1>1 DEF ServerInv
<1>4. StartingInv'
  BY <1>1, UnseenFacts, StartingSpoiled DEF Elsewhere
<1> QED
  BY <1>2, <1>3, <1>4, ServerMovesKeep

\* The server starts: its log is in the archive, and there is no other.
LEMMA RunBeginsKeeps ==
    ASSUME SessionsInv, RunBegins
    PROVE  SessionsInv'
<1>1. /\ UNCHANGED <<logs, connected, listed, genuine>> /\ Elsewhere /\ Types /\ ServerInv
      /\ ~online /\ online' = TRUE /\ here' = FALSE /\ spoiled' = Unseen
  BY DEF RunBegins, histories, announced, Elsewhere, SessionsInv
<1>2. connected = {} /\ connected' = {}
  BY <1>1 DEF ServerInv
<1>3. ServerMoves /\ Types'
  <2>1. Current' = Current /\ Current \in Nat
    BY <1>1 DEF Types, Current
  <2>2. \A run \in 1 .. Current : Len(logs[run]) \in Nat
    BY <1>1 DEF Types, Current
  <2>3. Archives \subseteq Archives'
    BY <1>1, <2>1 DEF Archives, Types
  <2>4. ServerMoves
    BY <1>1, <1>2, <2>1, <2>2, <2>3, UnseenFacts DEF ServerMoves
  <2>5. (Current <= MaxRuns /\ logs \in Seq(Seq(Line)) /\ (here => Current # 0))'
    BY <1>1, <2>1 DEF Types
  <2>6. (\A run \in 1 .. Current : Len(logs[run]) <= MaxLines)'
    BY <1>1, <2>1 DEF Types
  <2> QED
    BY <1>1, <1>2, <2>4, <2>5, <2>6, UnseenFacts DEF Types, Elsewhere
<1>4. ServerInv'
  BY <1>2 DEF ServerInv
<1>5. StartingInv'
  BY <1>1, UnseenFacts, StartingSpoiled DEF Elsewhere
<1> QED
  BY <1>3, <1>4, <1>5, ServerMovesKeep

\* An empty log has no events.
LEMMA NothingToScan ==
    ASSUME NEW run
    PROVE  Process(Fresh, run, <<>>, 0) = Begins(Fresh)
<1>1. Len(<<>>) = 0 /\ 0 \in Nat /\ <<>> \in Seq(Line)
  OBVIOUS
<1>2. \E g : ProcessedBy(g, Fresh, run, <<>>, 0)
  BY <1>1, ProcessSteps
<1>3. PICK g : ProcessedBy(g, Fresh, run, <<>>, 0)
  BY <1>2
<1>4. Process(Fresh, run, <<>>, 0) = g[0]
  BY <1>1, <1>3 DEF ProcessedBy
<1>5. g[0] = Begins(Fresh)
  <2>1. 0 \in 0 .. Len(<<>>) /\ 0 <= 0
    BY <1>1
  <2> QED
    BY <2>1, <1>3 DEF ProcessedBy
<1> QED
  BY <1>4, <1>5

\* The log of a new run appears, and is empty.
LEMMA LogAppearsKeeps ==
    ASSUME SessionsInv, LogAppears
    PROVE  SessionsInv'
<1>1. /\ UNCHANGED <<online, connected, listed, genuine, spoiled>> /\ Elsewhere /\ Types /\ ServerInv
      /\ StartingInv /\ ~here /\ here' = TRUE /\ logs' = Append(logs, <<>>) /\ Current < MaxRuns
  BY DEF LogAppears, histories, announced, Elsewhere, SessionsInv
<1>2. connected = {} /\ connected' = {}
  BY <1>1 DEF ServerInv
<1>3. /\ logs \in Seq(Seq(Line)) /\ <<>> \in Seq(Line) /\ Len(<<>>) = 0
      /\ MaxRuns \in Nat /\ MaxLines \in Nat
  BY <1>1, SessionsAssumption DEF Types
<1>4. /\ logs' \in Seq(Seq(Line)) /\ Len(logs') = Len(logs) + 1 /\ Len(logs) \in Nat
      /\ logs'[Len(logs) + 1] = <<>> /\ \A run \in 1 .. Len(logs) : logs'[run] = logs[run]
  BY <1>1, <1>3
<1>5. /\ Current' = Current + 1 /\ Current \in Nat /\ logs'[Current'] = <<>>
      /\ \A run \in 1 .. Current : logs'[run] = logs[run] /\ Len(logs[run]) \in Nat
  <2>1. Current = Len(logs) /\ Current' = Len(logs')
    BY DEF Current
  <2>2. \A run \in 1 .. Len(logs) : Len(logs[run]) \in Nat
    BY <1>3
  <2> QED
    BY <1>4, <2>1, <2>2
<1>6. Archives' = Archives
  BY <1>1, <1>5 DEF Archives
<1>7. ServerMoves
  <2>1. ASSUME NEW run \in 1 .. Current
        PROVE  /\ Len(logs[run]) <= Len(logs'[run])
               /\ \A i \in 1 .. Len(logs[run]) : logs'[run][i] = logs[run][i]
    <3>1. logs'[run] = logs[run] /\ Len(logs[run]) \in Nat
      BY <1>5
    <3> QED
      BY <3>1
  <2>2. Current <= Current' /\ Current < Current'
    BY <1>5
  <2> QED
    BY <1>1, <1>2, <1>6, <2>1, <2>2 DEF ServerMoves
<1>8. Types'
  <2>1. (Current <= MaxRuns)' /\ (logs \in Seq(Seq(Line)))' /\ (here => Current # 0)'
    BY <1>1, <1>3, <1>4, <1>5
  <2>2. (\A run \in 1 .. Current : Len(logs[run]) <= MaxLines)'
    <3>1. ASSUME NEW run \in 1 .. Current'
          PROVE  Len(logs'[run]) <= MaxLines
      <4>1. CASE run = Current'
        BY <4>1, <1>3, <1>5
      <4>2. CASE run # Current'
        <5>1. run \in 1 .. Current
          BY <4>2, <1>5
        <5> QED
          BY <5>1, <1>1, <1>5 DEF Types
      <4> QED
        BY <4>1, <4>2
    <3> QED
      BY <3>1
  <2> QED
    BY <1>1, <2>1, <2>2 DEF Types, Elsewhere
<1>9. ServerInv'
  BY <1>2 DEF ServerInv
<1>10. StartingInv'
  <2>1. Found = Begins(Fresh) /\ Found' = Begins(Fresh)
    BY <1>1, <1>5, NothingToScan DEF Found, ScanStep
  <2>2. Sessions(Begins(Fresh).to) = {} /\ ~Begins(Fresh).absorbed
    BY FreshFacts DEF Begins
  <2> QED
    BY <1>1, <2>1, <2>2 DEF StartingInv, Elsewhere, Clean
<1> QED
  BY <1>7, <1>8, <1>9, <1>10, ServerMovesKeep

\* Every step of the server keeps the invariant.
LEMMA ServerKeeps ==
    ASSUME SessionsInv, ServerStep
    PROVE  SessionsInv'
BY LoginKeeps, LeaveKeeps, SampleKeeps, RunEndsKeeps, RunBeginsKeeps, LogAppearsKeeps DEF ServerStep

-----------------------------------------------------------------------------
(* The manager's steps *)

\* What holds of the logs and of who is on the server stays so.
LEMMA WorldSame ==
    ASSUME UNCHANGED world
    PROVE  /\ Current' = Current /\ Archives' = Archives
           /\ \A s : Known(s)' = Known(s)
           /\ \A p, i : Present(p, i)' = Present(p, i)
           /\ ServerInv' = ServerInv
           /\ AtEnd' = AtEnd
<1>1. UNCHANGED <<online, logs, here, connected, listed, genuine>>
  BY DEF world
<1>2. Current' = Current
  BY <1>1 DEF Current
<1>3. Archives' = Archives
  BY <1>1, <1>2 DEF Archives
<1>4. \A s : Known(s)' = Known(s)
  BY <1>1, <1>2 DEF Known
<1>5. \A p, i : Present(p, i)' = Present(p, i)
  BY <1>1, <1>2 DEF Present, LastLine
<1>6. ServerInv' = ServerInv
  BY <1>1, <1>2, <1>5 DEF ServerInv
<1>7. AtEnd' = AtEnd
  BY <1>1, <1>2 DEF AtEnd
<1> QED
  BY <1>2, <1>3, <1>4, <1>5, <1>6, <1>7

\* A stored history stays right while the world does.
LEMMA HistoryKept ==
    ASSUME UNCHANGED world, NEW h, HistoryOK(h),
           spoiled \cap {"stale", "replay"} \subseteq spoiled'
    PROVE  HistoryOK(h)'
BY WorldSame DEF HistoryOK, Clean, world

\* The types after a step that leaves the world alone.
LEMMA TypesKept ==
    ASSUME Types, UNCHANGED world, spoiled' \subseteq Spoils,
           manager' \in {"down", "starting", "poll", "reconcile"},
           playersFile' \in HistoryType, playerHistory' \in HistoryType,
           loop' \in [wasRunning : BOOLEAN, at : [run : Nat, offset : Nat], of : Processor]
    PROVE  Types'
<1>1. (Current <= MaxRuns)' /\ (logs \in Seq(Seq(Line)))' /\ (here => Current # 0)'
  BY WorldSame DEF Types, world
<1>2. (\A run \in 1 .. Current : Len(logs[run]) <= MaxLines)'
  BY WorldSame DEF Types, world
<1> QED
  BY <1>1, <1>2 DEF Types, world

\* The logs are as the import expects them.
LEMMA LoggedFacts ==
    ASSUME Types
    PROVE  /\ Logged /\ Current \in Nat
           /\ \A run \in 1 .. Current : logs[run] \in Seq(Line) /\ Len(logs[run]) \in Nat
BY DEF Types, Logged, Current

\* The manager imports the logs it has not imported, and the current one.
LEMMA StartKeeps ==
    ASSUME SessionsInv, Start
    PROVE  SessionsInv'
<1> SUFFICES ASSUME NEW h, h = playersFile, NEW R, R = Import(h)
             PROVE  SessionsInv'
  OBVIOUS
<1>1. /\ manager = "down" /\ manager' = "starting" /\ playerHistory' = R /\ playersFile' = R
      /\ spoiled' = (spoiled \ {"gap"})
                       \cup (IF "gap" \in spoiled THEN {"missed"} ELSE {}) \cup Replays
      /\ UNCHANGED <<world, loop, told, again>>
  BY DEF Start, announced
<1>2. Types /\ ServerInv /\ StoreInv /\ ToldInv /\ HistoryOK(h) /\ playerHistory = h /\ loop = Idle
  BY <1>1 DEF SessionsInv, StoreInv, Up
<1>3. /\ h \in HistoryType /\ h.open \cap h.closed = {} /\ h.imported \subseteq Archives
      /\ \A s \in h.open \cup h.closed : Known(s)
  BY <1>2 DEF Types, HistoryOK
<1>4. Logged /\ Current \in Nat
  BY <1>2, LoggedFacts
<1>5. ImportInv(h, R, Current)
  BY <1>3, <1>4, ImportFacts
<1>6. /\ R \in HistoryType /\ R.open \cap R.closed = {}
      /\ R.imported = h.imported \cup {run \in Archives : run <= Current}
      /\ h.closed \subseteq R.closed /\ h.open \cup h.closed \subseteq R.open \cup R.closed
      /\ \A s \in (R.open \cup R.closed) \ (h.open \cup h.closed) : Known(s)
      /\ \A s \in R.closed \ h.closed :
            online /\ here /\ s[1] = Current => ~LastLine(Current, s[2])
      /\ here => Sessions(ScanStep(Current).to) \subseteq R.open \cup R.closed
      /\ Faithful(h) =>
            \A s \in R.open : s[1] <= Current =>
               online /\ here /\ s[1] = Current /\ s \in Sessions(ScanStep(Current).to)
  BY <1>5 DEF ImportInv
<1>7. \A s \in R.open \cup R.closed : Known(s) /\ s[1] <= Current
  <2>1. \A s \in R.open \cup R.closed : Known(s)
    BY <1>3, <1>6
  <2> QED
    BY <2>1, <1>4 DEF Known
<1>8. R.imported \subseteq Archives /\ (here => Current \notin Archives)
  BY <1>3, <1>4, <1>6 DEF Archives
<1>9. ASSUME "replay" \notin spoiled'
      PROVE  Faithful(h)
  <2>1. "replay" \notin spoiled /\ "replay" \notin Replays
    BY <1>1, <1>9
  <2>2. \A s \in h.open : s[1] \notin h.imported
    BY <2>1, <1>2 DEF HistoryOK, Clean
  <2>3. \A run \in (Archives \ h.imported) \cup (IF here THEN {Current} ELSE {}) :
           ~ScanStep(run).absorbed
    BY <2>1 DEF Replays, ScanStep
  <2>4. \A run \in 1 .. Current : run \notin Archives => here /\ run = Current
    BY <1>4 DEF Archives, Logged
  <2> QED
    BY <2>2, <2>3, <2>4 DEF Faithful
<1>10. ASSUME "replay" \notin spoiled'
       PROVE  \A s \in R.open :
                 online /\ here /\ s[1] = Current /\ s \in Sessions(ScanStep(Current).to)
  BY <1>6, <1>7, <1>9, <1>10
<1>11. HistoryOK(R)'
  <2>1. ASSUME NEW p \in connected, NEW i \in 1 .. Len(logs[Current]), Present(p, i),
               "stale" \notin spoiled'
        PROVE  <<Current, i>> \notin R.closed
    <3>1. <<Current, i>> \notin h.closed /\ online /\ here
      BY <2>1, <1>1, <1>2 DEF HistoryOK, ServerInv, Clean
    <3>2. LastLine(Current, i)
      BY <2>1 DEF Present
    <3> QED
      BY <3>1, <3>2, <1>6
  <2>2. "replay" \notin spoiled' => \A s \in R.open : s[1] \notin R.imported
    BY <1>8, <1>10
  <2>3. UNCHANGED <<connected, logs>>
    BY <1>1 DEF world
  <2> QED
    BY <2>1, <2>2, <2>3, <1>1, <1>6, <1>7, <1>8, WorldSame DEF HistoryOK, Clean
<1>12. StoreInv'
  BY <1>1, <1>2, <1>11 DEF StoreInv, HistoryOK, Up, Idle
<1>13. StartingInv'
  <2>1. Found' = Found
    BY <1>1, WorldSame DEF Found, ScanStep, world
  <2>2. ~here => Sessions(Found.to) = {} /\ ~Found.absorbed
    BY FreshFacts DEF Found, Begins
  <2>3. here => Found = ScanStep(Current)
    BY DEF Found
  <2>4. Sessions(Found.to) \subseteq R.open \cup R.closed
    BY <2>2, <2>3, <1>6
  <2>5. ASSUME "replay" \notin spoiled'
        PROVE  /\ ~Found.absorbed
               /\ R.open = IF online /\ here THEN Sessions(Found.to) \ R.closed ELSE {}
    <3>1. here => ~ScanStep(Current).absorbed
      <4>1. ASSUME here
            PROVE  Current \in 1 .. Current /\ Current \notin Archives
        BY <4>1, <1>4, <1>8 DEF Logged
      <4> QED
        BY <4>1, <1>9, <2>5 DEF Faithful
    <3> QED
      BY <3>1, <2>2, <2>3, <2>4, <2>5, <1>6, <1>10
  <2> QED
    BY <2>1, <2>4, <2>5, <1>1 DEF StartingInv, Clean, world
<1>14. ToldInv'
  BY <1>1, <1>2, <1>6 DEF ToldInv, Clean
<1>15. Types'
  <2>1. spoiled' \subseteq Spoils
    BY <1>1, <1>2 DEF Types, Spoils, Replays
  <2> QED
    BY <2>1, <1>1, <1>2, <1>6, TypesKept DEF Types
<1>16. LoopInv'
  BY <1>1 DEF LoopInv, Up
<1>17. ServerInv'
  BY <1>1, <1>2, WorldSame
<1> QED
  BY <1>12, <1>13, <1>14, <1>15, <1>16, <1>17 DEF SessionsInv

\* Who has the last line of the log that was read, and nothing was absorbed,
\* is live with it.
LEMMA PresentIsLive ==
    ASSUME Types, NEW step, NEW b, NEW read \in Nat,
           StepInv(step, b, Current, logs[Current], read, Len(logs[Current])), ~step.absorbed,
           NEW p \in Players, NEW i \in 1 .. Len(logs[Current]), Present(p, i), read < i
    PROVE  p \in Live(step.to) /\ step.to.live[p] = <<Current, i>>
<1> DEFINE log == logs[Current]
           n == Len(log)
<1>1. /\ Follows(step.to, Current, log, n) /\ OpenSince(step, log, read, n)
      /\ \A q \in Live(step.to) : \A k \in read + 1 .. n :
            Auth(log, k, q) => k <= step.to.live[q][2]
  BY DEF StepInv, LastOnes
<1>2. /\ Auth(log, i, p) /\ \A k \in i + 1 .. n : log[k].who # p
      /\ i \in read + 1 .. n
  <2>1. i \in 1 .. n /\ read + 1 <= i
    OBVIOUS
  <2>2. \A k \in i + 1 .. n : log[k].who # log[i].who
    BY DEF Present, LastLine
  <2> QED
    BY <2>1, <2>2 DEF Present, Auth
<1> HIDE DEF log, n
<1>3. p \in Live(step.to)
  BY <1>1, <1>2 DEF OpenSince, Close
<1>4. PICK j \in 1 .. n : step.to.live[p] = <<Current, j>> /\ Auth(log, j, p)
  BY <1>1, <1>3 DEF Follows
<1>5. i <= j
  BY <1>1, <1>2, <1>3, <1>4
<1>6. j = i
  <2>1. j \notin i + 1 .. n
    BY <1>2, <1>4 DEF Auth
  <2> QED
    BY <2>1, <1>2, <1>4, <1>5
<1> QED
  BY <1>3, <1>4, <1>6

\* The loop of a manager that has just imported the logs.
LEMMA LoopBeginsKeeps ==
    ASSUME SessionsInv, LoopBegins
    PROVE  SessionsInv'
<1>1. /\ manager = "starting" /\ manager' = "poll"
      /\ loop' = [wasRunning |-> online, at |-> AtEnd,
                  of |-> IF online /\ here
                         THEN Discard(Process(Fresh, Current, logs[Current], 0).to)
                         ELSE Fresh]
      /\ UNCHANGED <<world, playersFile, playerHistory, told, again, spoiled>>
  BY DEF LoopBegins, histories, announced
<1>2. Types /\ ServerInv /\ StoreInv /\ StartingInv /\ ToldInv /\ HistoryOK(playerHistory)
  BY DEF SessionsInv, StoreInv
<1>3. Logged /\ Current \in Nat /\ (here => Current \in 1 .. Current)
  BY <1>2, LoggedFacts DEF Logged
<1> SUFFICES ASSUME NEW h, h = playerHistory, NEW b, b = loop'.of,
                    NEW n, n = IF here THEN Len(logs[Current]) ELSE 0
             PROVE  SessionsInv'
  OBVIOUS
<1>4. /\ n \in Nat /\ (here => logs[Current] \in Seq(Line) /\ n = Len(logs[Current]))
      /\ AtEnd = [run |-> IF here THEN Current ELSE 0, offset |-> n]
  BY <1>2, <1>3, LoggedFacts DEF AtEnd, Follower
<1>5. /\ loop'.wasRunning = online /\ loop'.at = AtEnd /\ loop'.of = b
      /\ loop' = [wasRunning |-> online, at |-> AtEnd, of |-> b]
  BY <1>1
<1>6. h \in HistoryType /\ h.open \cap h.closed = {}
  BY <1>2 DEF Types, HistoryOK
<1> DEFINE Begun ==
             /\ b \in Processor /\ b.seen = {}
             /\ Follows(b, IF here THEN Current ELSE 0, logs[IF here THEN Current ELSE 0], n)
             /\ Live(b) # {} => online /\ here
             /\ Sessions(b) \cap h.closed = {}
             /\ Clean({"gap"}) => Sessions(b) \subseteq h.open
             /\ Clean({"gap", "replay"}) => h.open = Sessions(b)
             /\ \A p \in connected : \A i \in 1 .. Len(logs[Current]) :
                   Present(p, i) /\ Clean({"gap", "stale", "replay"})
                      => b.live[p] = <<Current, i>>
<1>9. Begun
  <2>1. CASE ~ (online /\ here)
    <3>1. b = Fresh
      BY <1>1, <2>1
    <3>2. connected = {}
      BY <1>2, <2>1 DEF ServerInv
    <3>3. Clean({"gap", "replay"}) => h.open = {}
      BY <1>1, <1>2, <2>1 DEF StartingInv, Clean
    <3> QED
      BY <3>1, <3>2, <3>3, FreshFacts, FollowsFresh
  <2>2. CASE online /\ here
    <3> SUFFICES ASSUME NEW step, step = ScanStep(Current)
                 PROVE  Begun
      OBVIOUS
    <3> DEFINE gone == {p \in Live(step.to) : step.to.live[p] \in h.closed}
    <3>1. b = Forget(step.to, gone)
      BY <1>1, <2>2 DEF Discard, ScanStep
    <3>2. StepInv(step, Fresh, Current, logs[Current], 0, n)
      <4>1. 0 \in 0 .. n
        BY <1>4
      <4> QED
        BY <4>1, <1>3, <1>4, <1>6, <2>2, FreshFacts, FollowsFresh, ProcessFacts DEF ScanStep
    <3>3. step.to \in Processor /\ Follows(step.to, Current, logs[Current], n) /\ step.to.seen = {}
      BY <3>2, FreshFacts DEF StepInv, Step, Keeps
    <3>4. gone \subseteq Live(step.to) /\ gone \subseteq Players
      BY DEF Live
    <3>5. /\ b \in Processor /\ Live(b) = Live(step.to) \ gone /\ b.seen = {}
          /\ \A p \in Players : b.live[p] = IF p \in gone THEN NoSession ELSE step.to.live[p]
      BY <3>1, <3>3, <3>4, ForgetFacts
    <3>6. Live(b) \subseteq Players /\ \A p \in Live(b) : b.live[p] = step.to.live[p]
      BY <3>5 DEF Live
    <3>7. Sessions(b) = Sessions(step.to) \ {step.to.live[p] : p \in gone}
      <4>1. Forgotten(step.to, b, gone)
        BY <3>4, <3>5, <3>6 DEF Forgotten
      <4> QED
        BY <4>1, <3>3, SessionsForgotten
    <3>8. Sessions(b) = Sessions(step.to) \ h.closed
      <4>1. {step.to.live[p] : p \in gone} = Sessions(step.to) \cap h.closed
        BY DEF Sessions
      <4> QED
        BY <4>1, <3>7
    <3>9. Follows(b, Current, logs[Current], n)
      BY <3>3, <3>5, <3>6 DEF Follows
    <3>10. /\ Clean({"gap"}) => Sessions(step.to) \subseteq h.open \cup h.closed
           /\ Clean({"gap", "replay"}) => /\ ~step.absorbed
                                          /\ h.open = Sessions(step.to) \ h.closed
      <4>1. Found = step
        BY <2>2 DEF Found
      <4> QED
        BY <4>1, <1>1, <1>2, <2>2 DEF StartingInv, Clean
    <3>11. ASSUME NEW p \in connected, NEW i \in 1 .. Len(logs[Current]), Present(p, i),
                  Clean({"gap", "stale", "replay"})
           PROVE  b.live[p] = <<Current, i>>
      <4>0. Clean({"gap", "replay"}) /\ Clean({"stale"})
        BY <3>11 DEF Clean
      <4>1. p \in Players /\ ~step.absorbed /\ 0 < i /\ 0 \in Nat
        BY <3>10, <3>11, <4>0, <1>2 DEF Types
      <4>2. p \in Live(step.to) /\ step.to.live[p] = <<Current, i>>
        BY <4>1, <3>2, <3>11, <1>2, <1>4, <2>2, PresentIsLive
      <4>3. <<Current, i>> \notin h.closed
        BY <3>11, <4>0, <1>2 DEF HistoryOK
      <4> QED
        BY <4>1, <4>2, <4>3, <3>5
    <3> HIDE DEF gone
    <3> QED
      BY <3>5, <3>8, <3>9, <3>10, <3>11, <2>2
  <2> QED
    BY <2>1, <2>2
<1>10. Types'
  <2>1. loop' \in [wasRunning : BOOLEAN, at : [run : Nat, offset : Nat], of : Processor]
    BY <1>2, <1>3, <1>4, <1>5, <1>9 DEF Types
  <2> QED
    BY <2>1, <1>1, <1>2, TypesKept DEF Types
<1>11. ServerInv' /\ ToldInv'
  BY <1>1, <1>2, WorldSame DEF ToldInv, Clean
<1>12. StoreInv'
  <2>1. HistoryOK(playersFile)' /\ HistoryOK(playerHistory)'
    BY <1>1, <1>2, WorldSame DEF StoreInv, HistoryOK, Clean, world
  <2> QED
    BY <2>1, <1>1, <1>2 DEF StoreInv, Up
<1>13. FollowerInv'
  BY <1>1, <1>3, <1>4, <1>5, <1>9, WorldSame DEF FollowerInv, world
<1>14. ReadInv'
  <2>1. here => \A s \in h.open \cup h.closed : s[1] < Current \/ (s[1] = Current /\ s[2] <= n)
    BY <1>2, <1>3, <1>4 DEF HistoryOK, Known
  <2> QED
    BY <2>1, <1>1, <1>3, <1>4, <1>5, WorldSame DEF ReadInv, world
<1>15. LiveInv'
  BY <1>1, <1>5, <1>9 DEF LiveInv, Clean, Sessions, Live
<1>16. WatchInv'
  BY <1>1, <1>5, <1>9, WorldSame DEF WatchInv, Clean, world
<1>17. StartingInv' /\ LoopInv'
  BY <1>1, <1>13, <1>14, <1>15, <1>16 DEF StartingInv, LoopInv
<1> QED
  BY <1>10, <1>11, <1>12, <1>17 DEF SessionsInv

\* What a step of the loop stores: H is the history with the new events.
Stores(events, H) ==
    /\ H \in HistoryType /\ HistoryOK(H)
    /\ H.imported = playerHistory.imported /\ playerHistory.closed \subseteq H.closed
    /\ Clean({"gap", "missed", "cut"}) =>
          LogoutsOf(events) \subseteq H.closed /\ LogoutsOf(events) \cap playerHistory.closed = {}

\* What the loop records keeps the invariant, if what it announces was open,
\* is stored as closed and leaves the loop right about who is live.
LEMMA RecordKeeps ==
    ASSUME SessionsInv, Up, Up', UNCHANGED world,
           spoiled \subseteq spoiled', spoiled' \subseteq Spoils,
           manager' \in {"down", "starting", "poll", "reconcile"},
           NEW events, RecordEvents(events),
           NEW H, H = ApplyEvents(playerHistory, events), Stores(events, H),
           loop' \in [wasRunning : BOOLEAN, at : [run : Nat, offset : Nat], of : Processor],
           (FollowerInv /\ ReadInv /\ LiveInv /\ WatchInv)'
    PROVE  SessionsInv'
<1>1. /\ playerHistory' = H /\ playersFile' \in {playersFile, H}
      /\ told' = told \cup LogoutsOf(events) /\ again' = again \cup (LogoutsOf(events) \cap told)
  BY DEF RecordEvents, LogoutsOf
<1>2. Types /\ ServerInv /\ StoreInv /\ ToldInv
  BY DEF SessionsInv
<1>3. /\ H \in HistoryType /\ HistoryOK(H) /\ H.imported = playerHistory.imported
      /\ playerHistory.closed \subseteq H.closed
      /\ Clean({"gap", "missed", "cut"}) =>
            LogoutsOf(events) \subseteq H.closed /\ LogoutsOf(events) \cap playerHistory.closed = {}
  BY DEF Stores
<1>4. Types'
  BY <1>1, <1>2, <1>3, TypesKept DEF Types
<1>5. ServerInv'
  BY <1>2, WorldSame
<1>6. StoreInv'
  <2>1. HistoryOK(playerHistory)'
    BY <1>1, <1>3, WorldSame DEF HistoryOK, Clean, world
  <2>2. HistoryOK(playersFile)'
    <3>1. CASE playersFile' = playersFile
      <4>1. HistoryOK(playersFile)
        BY <1>2 DEF StoreInv
      <4> QED
        BY <3>1, <4>1, WorldSame DEF HistoryOK, Clean, world
    <3>2. CASE playersFile' = playerHistory'
      BY <3>2, <2>1 DEF HistoryOK
    <3> QED
      BY <3>1, <3>2, <1>1
  <2> QED
    BY <2>1, <2>2, <1>1, <1>2, <1>3 DEF StoreInv
<1>7. ToldInv'
  BY <1>1, <1>2, <1>3 DEF ToldInv, Clean
<1>8. StartingInv' /\ LoopInv'
  BY DEF StartingInv, LoopInv, Up
<1> QED
  BY <1>4, <1>5, <1>6, <1>7, <1>8 DEF SessionsInv

\* Nothing is stored, or logouts of some that are live.
LEMMA StoresLogouts ==
    ASSUME SessionsInv, Up, NEW gone \in SUBSET Live(loop.of), NEW H,
           H = ApplyEvents(playerHistory, Logouts(loop.of, gone)),
           NEW out, out = {loop.of.live[p] : p \in gone},
           Clean({"stale"}) => \A p \in connected : \A i \in 1 .. Len(logs[Current]) :
               Present(p, i) => <<Current, i>> \notin out
    PROVE  /\ Stores(Logouts(loop.of, gone), H)
           /\ H.open = playerHistory.open \ out
           /\ H.open \cup H.closed = playerHistory.open \cup playerHistory.closed
           /\ H.closed = playerHistory.closed \cup (playerHistory.open \cap out)
           /\ LogoutsOf(Logouts(loop.of, gone)) = out /\ out \subseteq Sessions(loop.of)
           /\ Logouts(loop.of, gone) \in Seq(EventType)
<1>1. /\ Types /\ HistoryOK(playerHistory) /\ LiveInv
      /\ playerHistory \in HistoryType /\ loop.of \in Processor /\ IsFiniteSet(Players)
  BY DEF SessionsInv, StoreInv, LoopInv, Types
<1> SUFFICES ASSUME NEW events, events = Logouts(loop.of, gone)
             PROVE  /\ Stores(events, H)
                    /\ H.open = playerHistory.open \ out
                    /\ H.open \cup H.closed = playerHistory.open \cup playerHistory.closed
                    /\ H.closed = playerHistory.closed \cup (playerHistory.open \cap out)
                    /\ LogoutsOf(events) = out /\ out \subseteq Sessions(loop.of)
                    /\ events \in Seq(EventType)
  OBVIOUS
<1>2. /\ events \in Seq(EventType) /\ \A k \in DOMAIN events : events[k].kind = "logout"
      /\ LogoutsOf(events) = out
  BY <1>1, LogoutsFacts
<1>3. /\ H \in HistoryType /\ H.imported = playerHistory.imported
      /\ H.open = playerHistory.open \ out
      /\ H.closed = playerHistory.closed \cup (playerHistory.open \cap out)
  BY <1>1, <1>2, ApplyLogouts
<1>4. out \subseteq Sessions(loop.of)
  BY DEF Sessions
<1>5. HistoryOK(H)
  BY <1>1, <1>3 DEF HistoryOK
<1>6. Stores(events, H)
  BY <1>1, <1>2, <1>3, <1>4, <1>5 DEF Stores, LiveInv
<1> QED
  BY <1>2, <1>3, <1>4, <1>6

\* To record nothing changes nothing.
LEMMA StoresNothing ==
    ASSUME SessionsInv
    PROVE  Stores(<<>>, playerHistory) /\ ApplyEvents(playerHistory, <<>>) = playerHistory
<1>1. LogoutsOf(<<>>) = {}
  BY DEF LogoutsOf
<1>2. playerHistory \in HistoryType /\ HistoryOK(playerHistory)
  BY DEF SessionsInv, Types, StoreInv
<1> QED
  BY <1>1, <1>2, ApplyNone DEF Stores

\* The manager ends: what it had not saved is gone, which counts as a cut.
LEMMA ManagerEndsKeeps ==
    ASSUME SessionsInv, ManagerEnds
    PROVE  SessionsInv'
<1>1. /\ manager' = "down" /\ loop' = Idle /\ playerHistory' = playersFile
      /\ spoiled' = IF playerHistory # playersFile THEN spoiled \cup {"cut"} ELSE spoiled
      /\ UNCHANGED <<world, playersFile, told, again>>
  BY DEF ManagerEnds, announced, Idle
<1>2. Types /\ ServerInv /\ StoreInv /\ ToldInv
  BY DEF SessionsInv
<1>3. Types'
  <2>1. Idle \in [wasRunning : BOOLEAN, at : [run : Nat, offset : Nat], of : Processor]
    BY FreshFacts DEF Idle, Follower
  <2>2. spoiled' \subseteq Spoils
    BY <1>1, <1>2 DEF Types, Spoils
  <2> QED
    BY <2>1, <2>2, <1>1, <1>2, TypesKept DEF Types
<1>4. ServerInv'
  BY <1>1, <1>2, WorldSame
<1>5. StoreInv'
  <2>1. HistoryOK(playersFile)' /\ HistoryOK(playerHistory)'
    BY <1>1, <1>2, WorldSame DEF StoreInv, HistoryOK, Clean, world
  <2> QED
    BY <2>1, <1>1 DEF StoreInv, Idle
<1>6. ToldInv'
  BY <1>1, <1>2 DEF ToldInv, Clean
<1>7. StartingInv' /\ LoopInv'
  BY <1>1 DEF StartingInv, LoopInv, Up
<1> QED
  BY <1>3, <1>4, <1>5, <1>6, <1>7 DEF SessionsInv

\* The loop sees that the server has ended: every live session ends.
LEMMA PollStoppedKeeps ==
    ASSUME SessionsInv, PollStopped
    PROVE  SessionsInv'
<1> SUFFICES ASSUME NEW was, was = loop, NEW events,
                    events = IF was.wasRunning THEN ClosePlayerSessions(was.of) ELSE <<>>,
                    NEW H, H = ApplyEvents(playerHistory, events)
             PROVE  SessionsInv'
  OBVIOUS
<1>1. /\ manager = "poll" /\ ~online /\ RecordEvents(events)
      /\ loop' = [was EXCEPT !.wasRunning = FALSE,
                             !.of = IF was.wasRunning THEN Fresh ELSE @]
      /\ UNCHANGED <<world, manager, spoiled>>
  BY DEF PollStopped
<1>2. /\ Types /\ ServerInv /\ Up /\ FollowerInv /\ ReadInv /\ LiveInv /\ WatchInv
  BY <1>1 DEF SessionsInv, LoopInv, Up
<1>3. was \in [wasRunning : BOOLEAN, at : [run : Nat, offset : Nat], of : Processor]
  BY <1>2 DEF Types
<1>4. connected = {} /\ connected' = {}
  BY <1>1, <1>2 DEF ServerInv, world
<1>5. /\ loop' \in [wasRunning : BOOLEAN, at : [run : Nat, offset : Nat], of : Processor]
      /\ loop'.wasRunning = FALSE /\ loop'.at = was.at
      /\ loop'.of = IF was.wasRunning THEN Fresh ELSE was.of
  BY <1>1, <1>3, FreshFacts
<1>6. Live(loop'.of) = {} /\ Sessions(loop'.of) = {}
  BY <1>2, <1>5, FreshFacts DEF FollowerInv, Sessions
<1>7. /\ Stores(events, H) /\ H.open \cup H.closed = playerHistory.open \cup playerHistory.closed
      /\ Clean({"gap", "replay"}) => H.open = {}
  <2>1. CASE was.wasRunning
    <3>1. events = Logouts(loop.of, Live(loop.of))
      BY <2>1 DEF ClosePlayerSessions
    <3>2. Sessions(loop.of) = {loop.of.live[p] : p \in Live(loop.of)}
      BY DEF Sessions
    <3>3. Live(loop.of) \in SUBSET Live(loop.of)
      OBVIOUS
    <3>4. /\ Stores(events, H) /\ H.open = playerHistory.open \ Sessions(loop.of)
          /\ H.open \cup H.closed = playerHistory.open \cup playerHistory.closed
      <4> SUFFICES ASSUME NEW all, all = Live(loop.of), NEW out, out = Sessions(loop.of)
                   PROVE  /\ Stores(events, H) /\ H.open = playerHistory.open \ out
                          /\ H.open \cup H.closed = playerHistory.open \cup playerHistory.closed
        OBVIOUS
      <4>1. /\ all \in SUBSET Live(loop.of) /\ out = {loop.of.live[p] : p \in all}
            /\ H = ApplyEvents(playerHistory, Logouts(loop.of, all))
        BY <3>1, <3>2, <3>3
      <4>2. \A p \in connected : \A i \in 1 .. Len(logs[Current]) :
               Present(p, i) => <<Current, i>> \notin out
        BY <1>4
      <4>3. Up
        BY <1>2
      <4>4. /\ Stores(Logouts(loop.of, all), H) /\ H.open = playerHistory.open \ out
            /\ H.open \cup H.closed = playerHistory.open \cup playerHistory.closed
        BY ONLY SessionsInv, <4>1, <4>2, <4>3, StoresLogouts
      <4> QED
        BY <4>4, <3>1
    <3> QED
      BY <3>4, <1>2 DEF LiveInv
  <2>2. CASE ~was.wasRunning
    <3>1. events = <<>> /\ Sessions(loop.of) = {}
      BY <2>2, <1>2 DEF FollowerInv, Sessions
    <3>2. H = playerHistory /\ Stores(events, H)
      BY <3>1, StoresNothing
    <3> QED
      BY <3>1, <3>2, <1>2 DEF LiveInv
  <2> QED
    BY <2>1, <2>2
<1>8. playerHistory' = H
  BY <1>1 DEF RecordEvents
<1>9. FollowerInv'
  <2>1. Follows(loop'.of, was.at.run, logs[was.at.run], was.at.offset)
    BY <1>2, <1>5, FollowsFresh DEF FollowerInv
  <2> QED
    BY <2>1, <1>1, <1>2, <1>5, <1>6, WorldSame DEF FollowerInv, world
<1>10. ReadInv'
  BY <1>1, <1>2, <1>5, <1>7, <1>8, WorldSame DEF ReadInv, world
<1>11. LiveInv'
  BY <1>1, <1>6, <1>7, <1>8 DEF LiveInv, Clean, Sessions, Live
<1>12. WatchInv'
  BY <1>4 DEF WatchInv
<1>13. Up' /\ spoiled \subseteq spoiled' /\ spoiled' \subseteq Spoils
  BY <1>1, <1>2 DEF Up, Types
<1>14. manager' \in {"down", "starting", "poll", "reconcile"}
  BY <1>1
<1> QED
  BY <1>1, <1>2, <1>5, <1>7, <1>9, <1>10, <1>11, <1>12, <1>13, <1>14, RecordKeeps

\* Who was compared with the bridge's list is live as before.
LEMMA ComparedFacts ==
    ASSUME Types
    PROVE  /\ Compared(loop.of) \in Processor
           /\ Compared(loop.of).live = loop.of.live
           /\ Live(Compared(loop.of)) = Live(loop.of)
           /\ Compared(loop.of).seen = loop.of.seen \cup (Live(loop.of) \cap listed)
<1>1. loop.of \in Processor
  BY DEF Types
<1>2. Absent \subseteq Players /\ Live(loop.of) \cap listed \subseteq Players
  BY DEF Absent, Live
<1>3. /\ Compared(loop.of) \in Processor
      /\ Compared(loop.of).live = loop.of.live
      /\ Compared(loop.of).seen = loop.of.seen \cup (Live(loop.of) \cap listed)
  BY <1>1, <1>2 DEF Compared, Processor
<1> QED
  BY <1>3 DEF Live

\* The comparison with the bridge's list that logs nobody out.
LEMMA NoListKeeps ==
    ASSUME SessionsInv, manager = "reconcile", manager' = "poll", UNCHANGED <<world, spoiled>>,
           RecordEvents(<<>>), loop' = [loop EXCEPT !.of.missing = {}]
    PROVE  SessionsInv'
<1> SUFFICES ASSUME NEW was, was = loop, NEW h, h = playerHistory
             PROVE  SessionsInv'
  OBVIOUS
<1>1. /\ Types /\ Up /\ FollowerInv /\ ReadInv /\ LiveInv /\ WatchInv
  BY DEF SessionsInv, LoopInv, Up
<1>2. was \in [wasRunning : BOOLEAN, at : [run : Nat, offset : Nat], of : Processor]
  BY <1>1 DEF Types
<1>3. /\ loop' \in [wasRunning : BOOLEAN, at : [run : Nat, offset : Nat], of : Processor]
      /\ loop'.wasRunning = was.wasRunning /\ loop'.at = was.at
      /\ loop'.of.live = was.of.live /\ loop'.of.seen = was.of.seen
  BY <1>2 DEF Processor
<1>4. Live(loop'.of) = Live(was.of) /\ Sessions(loop'.of) = Sessions(was.of)
  BY <1>3 DEF Live, Sessions
<1>5. playerHistory' = h
  BY StoresNothing DEF RecordEvents
<1>6. FollowerInv'
  BY <1>1, <1>3, <1>4, WorldSame DEF FollowerInv, Follows, world
<1>7. ReadInv'
  BY <1>1, <1>3, <1>5, WorldSame DEF ReadInv, world
<1>8. LiveInv'
  <2>1. Sessions(loop.of)' = Sessions(loop'.of)
    BY DEF Sessions, Live
  <2> QED
    BY <2>1, <1>1, <1>4, <1>5 DEF LiveInv, Clean
<1>9. WatchInv'
  <2>1. \A p \in connected : \A i \in 1 .. Len(logs[Current]) :
           Present(p, i) =>
               /\ Clean({"stale"}) /\ p \in loop'.of.seen /\ loop'.of.live[p] = <<Current, i>>
                     => p \in genuine
               /\ Clean({"gap", "rejoin", "stale", "replay"}) /\ loop'.at.run = Current
                  /\ i <= loop'.at.offset
                     => loop'.of.live[p] = <<Current, i>>
    BY <1>1, <1>3 DEF WatchInv
  <2> QED
    BY <2>1, WorldSame DEF WatchInv, Clean, world
<1>10. Up' /\ spoiled \subseteq spoiled' /\ spoiled' \subseteq Spoils
  BY <1>1 DEF Up, Types
<1>11. manager' \in {"down", "starting", "poll", "reconcile"}
  OBVIOUS
<1> QED
  BY <1>1, <1>3, <1>6, <1>7, <1>8, <1>9, <1>10, <1>11, StoresNothing, RecordKeeps

\* The comparison that logs out players: none of them is on the server, if no
\* list from before a session showed it.
LEMMA GoneKeeps ==
    ASSUME SessionsInv, manager = "reconcile", manager' = "poll", UNCHANGED world,
           spoiled' = spoiled \cup (IF SeenTooEarly = {} THEN {} ELSE {"stale"}),
           NEW gone \in SUBSET {p \in Absent \cap loop.of.missing : Old(p)},
           RecordEvents(Logouts(loop.of, gone)),
           loop' = [loop EXCEPT !.of = Forget(Compared(@), gone)]
    PROVE  SessionsInv'
<1> SUFFICES ASSUME NEW was, was = loop, NEW c, c = Forget(Compared(loop.of), gone),
                    NEW H, H = ApplyEvents(playerHistory, Logouts(loop.of, gone)),
                    NEW out, out = {loop.of.live[p] : p \in gone}
             PROVE  SessionsInv'
  OBVIOUS
<1>1. /\ Types /\ ServerInv /\ Up /\ FollowerInv /\ ReadInv /\ LiveInv /\ WatchInv
      /\ Current \in Nat
  BY LoggedFacts DEF SessionsInv, LoopInv, Up
<1>2. was \in [wasRunning : BOOLEAN, at : [run : Nat, offset : Nat], of : Processor]
  BY <1>1 DEF Types
<1>3. /\ gone \subseteq Live(was.of) /\ gone \subseteq Players /\ gone \cap listed = {}
      /\ \A p \in gone : p \in was.of.seen \/ p \notin connected
  BY DEF Absent, Old, Live
<1>4. /\ c \in Processor /\ Live(c) = Live(was.of) \ gone
      /\ \A p \in Players : c.live[p] = IF p \in gone THEN NoSession ELSE was.of.live[p]
      /\ c.seen = (was.of.seen \cup (Live(was.of) \cap listed)) \ gone
  BY <1>1, <1>3, ComparedFacts, ForgetFacts
<1>5. /\ loop' \in [wasRunning : BOOLEAN, at : [run : Nat, offset : Nat], of : Processor]
      /\ loop'.wasRunning = was.wasRunning /\ loop'.at = was.at /\ loop'.of = c
  BY <1>2, <1>4
<1>6. Follows(was.of, was.at.run, logs[was.at.run], was.at.offset)
  BY <1>1 DEF FollowerInv
<1>7. Live(c) \subseteq Players /\ \A p \in Live(c) : c.live[p] = was.of.live[p]
  BY <1>4 DEF Live
<1>8. Sessions(c) = Sessions(was.of) \ out
  <2>1. Forgotten(was.of, c, gone)
    BY <1>3, <1>4, <1>7 DEF Forgotten
  <2> QED
    BY <2>1, <1>6, SessionsForgotten
\* A player on the server is listed if the loop has seen its session listed.
<1>9. ASSUME NEW p \in connected, NEW i \in 1 .. Len(logs[Current]), Present(p, i),
             Clean({"stale"})
      PROVE  <<Current, i>> \notin out
  <2> SUFFICES ASSUME NEW q \in gone, was.of.live[q] = <<Current, i>>
               PROVE  FALSE
    OBVIOUS
  <2>1. PICK j \in 1 .. was.at.offset :
           was.of.live[q] = <<was.at.run, j>> /\ Auth(logs[was.at.run], j, q)
    BY <1>3, <1>6 DEF Follows
  <2>2. was.at.run = Current /\ j = i
    BY <2>1
  <2>3. q = p
    BY <2>1, <2>2, <1>9 DEF Present, Auth
  <2>4. p \in was.of.seen
    BY <2>3, <1>3, <1>9
  <2> QED
    BY <2>3, <2>4, <1>1, <1>3, <1>9 DEF WatchInv, Types
<1>10. /\ Stores(Logouts(loop.of, gone), H)
       /\ H.open = playerHistory.open \ out
       /\ H.open \cup H.closed = playerHistory.open \cup playerHistory.closed
       /\ H.closed = playerHistory.closed \cup (playerHistory.open \cap out)
  <2>1. gone \in SUBSET Live(loop.of)
    BY <1>3
  <2> QED
    BY <2>1, <1>1, <1>9, StoresLogouts
<1>11. playerHistory' = H
  BY DEF RecordEvents
<1>12. FollowerInv'
  <2>1. c.seen \subseteq Live(c)
    BY <1>4, <1>6 DEF Follows
  <2>2. Follows(c, was.at.run, logs[was.at.run], was.at.offset)
    BY <2>1, <1>4, <1>6, <1>7 DEF Follows
  <2> QED
    BY <2>2, <1>1, <1>4, <1>5, WorldSame DEF FollowerInv, world
<1>13. ReadInv'
  BY <1>1, <1>5, <1>10, <1>11, WorldSame DEF ReadInv, world
<1>14. LiveInv'
  <2>1. Sessions(loop.of)' = Sessions(c)
    BY <1>5 DEF Sessions, Live
  <2> QED
    BY <2>1, <1>1, <1>8, <1>10, <1>11 DEF LiveInv, Clean
<1>15. WatchInv'
  <2>0. \A kinds : Clean(kinds)' => Clean(kinds)
    BY DEF Clean
  <2>1. ASSUME NEW p \in connected, NEW i \in 1 .. Len(logs[Current]), Present(p, i)
        PROVE  /\ Clean({"stale"})' /\ p \in c.seen /\ c.live[p] = <<Current, i>> => p \in genuine
               /\ Clean({"gap", "rejoin", "stale", "replay"})' /\ was.at.run = Current
                  /\ i <= was.at.offset
                     => c.live[p] = <<Current, i>>
    <3>1. p \in Players
      BY <2>1, <1>1 DEF Types
    <3>2. p \in c.seen => /\ c.live[p] = was.of.live[p]
                          /\ p \in was.of.seen \/ p \in Live(was.of) \cap listed
      BY <3>1, <1>4
    <3>3. Clean({"stale"}) /\ was.of.live[p] = <<Current, i>> => p \notin gone
      BY <2>1, <1>9
    <3>4. Clean({"stale"})' /\ p \in Live(was.of) \cap listed => p \in genuine
      <4>1. SeenTooEarly = (Live(was.of) \cap listed \cap connected) \ genuine
        BY DEF SeenTooEarly
      <4>2. Clean({"stale"})' => SeenTooEarly = {}
        BY DEF Clean
      <4> QED
        BY <2>1, <4>1, <4>2
    <3>5. /\ Clean({"stale"})' /\ p \in was.of.seen /\ was.of.live[p] = <<Current, i>>
                => p \in genuine
          /\ Clean({"gap", "rejoin", "stale", "replay"})' /\ was.at.run = Current
             /\ i <= was.at.offset
                => was.of.live[p] = <<Current, i>>
      BY <2>0, <2>1, <1>1 DEF WatchInv
    <3>6. Clean({"gap", "rejoin", "stale", "replay"})' => Clean({"stale"})
      BY DEF Clean
    <3> QED
      BY <2>0, <3>1, <3>2, <3>3, <3>4, <3>5, <3>6, <1>4
  <2> QED
    BY <2>1, <1>5, WorldSame DEF WatchInv, world
<1>16. Up' /\ spoiled \subseteq spoiled' /\ spoiled' \subseteq Spoils
  BY <1>1 DEF Up, Types, Spoils
<1>17. manager' \in {"down", "starting", "poll", "reconcile"}
  OBVIOUS
<1> QED
  BY <1>1, <1>5, <1>10, <1>12, <1>13, <1>14, <1>15, <1>16, <1>17, RecordKeeps

\* The comparison with the bridge's list keeps the invariant.
LEMMA ReconcileKeeps ==
    ASSUME SessionsInv, Reconcile
    PROVE  SessionsInv'
BY NoListKeeps, GoneKeeps DEF Reconcile

\* The logouts among some events and others.
LEMMA LogoutsJoined ==
    ASSUME NEW first \in Seq(EventType), NEW second \in Seq(EventType)
    PROVE  LogoutsOf(first \o second) = LogoutsOf(first) \cup LogoutsOf(second)
<1> DEFINE both == first \o second
           m == Len(first)
           n == Len(second)
<1>1. /\ both \in Seq(EventType) /\ m \in Nat /\ n \in Nat
      /\ DOMAIN both = 1 .. m + n /\ DOMAIN first = 1 .. m /\ DOMAIN second = 1 .. n
      /\ \A k \in 1 .. m : both[k] = first[k]
      /\ \A k \in 1 .. n : both[m + k] = second[k]
  OBVIOUS
<1> HIDE DEF both, m, n
<1>2. ASSUME NEW s \in LogoutsOf(both)
      PROVE  s \in LogoutsOf(first) \cup LogoutsOf(second)
  <2>1. PICK k \in DOMAIN both : both[k].kind = "logout" /\ s = both[k].session
    BY <1>2 DEF LogoutsOf
  <2>2. CASE k \in 1 .. m
    BY <2>1, <2>2, <1>1 DEF LogoutsOf
  <2>3. CASE k \notin 1 .. m
    <3>1. k - m \in 1 .. n /\ m + (k - m) = k
      BY <2>1, <2>3, <1>1
    <3>2. both[k] = second[k - m]
      BY <3>1, <1>1
    <3> QED
      BY <3>1, <3>2, <2>1, <1>1 DEF LogoutsOf
  <2> QED
    BY <2>2, <2>3
<1>3. ASSUME NEW s \in LogoutsOf(first)
      PROVE  s \in LogoutsOf(both)
  <2>1. PICK k \in 1 .. m : first[k].kind = "logout" /\ s = first[k].session
    BY <1>1, <1>3 DEF LogoutsOf
  <2>2. k \in DOMAIN both /\ both[k] = first[k]
    BY <2>1, <1>1
  <2> QED
    BY <2>1, <2>2 DEF LogoutsOf
<1>4. ASSUME NEW s \in LogoutsOf(second)
      PROVE  s \in LogoutsOf(both)
  <2>1. PICK k \in 1 .. n : second[k].kind = "logout" /\ s = second[k].session
    BY <1>1, <1>4 DEF LogoutsOf
  <2>2. m + k \in DOMAIN both /\ both[m + k] = second[k]
    BY <2>1, <1>1
  <2> QED
    BY <2>1, <2>2 DEF LogoutsOf
<1> QED
  BY <1>2, <1>3, <1>4 DEF both

\* What the follower reads with: a fresh processor from the first line of a log
\* that replaced another, or the one it has from where it stopped.
ReadsOn(b, read) ==
    \/ Replaced /\ b = Fresh /\ read = 0
    \/ ~Replaced /\ b = loop.of /\ read = loop.at.offset

\* After the sessions of a log that was replaced were logged out.
Ready(h, b, read) ==
    /\ h \in HistoryType /\ HistoryOK(h) /\ b \in Processor
    /\ h.imported = playerHistory.imported /\ playerHistory.closed \subseteq h.closed
    /\ h.open \cup h.closed = playerHistory.open \cup playerHistory.closed
    /\ here => /\ read \in 0 .. Len(logs[Current]) /\ Follows(b, Current, logs[Current], read)
               /\ Unread(h, Current, logs[Current], read)
    /\ ~here => Live(b) = {}
    /\ Sessions(b) \cap h.closed = {}
    /\ Clean({"gap", "missed", "cut"}) => Sessions(b) \subseteq h.open
    /\ Clean({"gap", "replay"}) => h.open = Sessions(b)

\* After the sessions of a replaced log were closed the rest can be read.
LEMMA ClosingFacts ==
    ASSUME SessionsInv, Up, NEW b, NEW read, ReadsOn(b, read),
           NEW closing, closing = IF Replaced THEN ClosePlayerSessions(loop.of) ELSE <<>>,
           NEW h, h = ApplyEvents(playerHistory, closing)
    PROVE  Ready(h, b, read) /\ Stores(closing, h) /\ closing \in Seq(EventType)
<1>1. /\ Types /\ ServerInv /\ FollowerInv /\ ReadInv /\ LiveInv /\ Current \in Nat
      /\ HistoryOK(playerHistory) /\ playerHistory \in HistoryType /\ loop.of \in Processor
      /\ loop.at.run \in Nat /\ loop.at.offset \in Nat
  BY LoggedFacts DEF SessionsInv, LoopInv, Types, StoreInv
<1>2. /\ here => Current \in 1 .. Current /\ Len(logs[Current]) \in Nat
      /\ \A s \in playerHistory.open \cup playerHistory.closed : Known(s)
  BY <1>1, LoggedFacts DEF Types, HistoryOK
<1>3. CASE Replaced
  <2>1. b = Fresh /\ read = 0
    BY <1>3 DEF ReadsOn
  <2> SUFFICES ASSUME NEW all, all = Live(loop.of), NEW out, out = Sessions(loop.of)
               PROVE  Ready(h, b, read) /\ Stores(closing, h) /\ closing \in Seq(EventType)
    OBVIOUS
  <2>2. /\ all \in SUBSET Live(loop.of) /\ out = {loop.of.live[p] : p \in all}
        /\ closing = Logouts(loop.of, all) /\ h = ApplyEvents(playerHistory, Logouts(loop.of, all))
    BY <1>3 DEF ClosePlayerSessions, Sessions
  <2>3. \A p \in connected : \A i \in 1 .. Len(logs[Current]) :
           Present(p, i) => <<Current, i>> \notin out
    <3> SUFFICES ASSUME NEW p \in connected, NEW i \in 1 .. Len(logs[Current]),
                        NEW q \in Live(loop.of), loop.of.live[q] = <<Current, i>>
                 PROVE  FALSE
      BY <2>2
    <3>1. loop.at.run = Current
      BY <1>1 DEF FollowerInv, Follows
    <3>2. here
      BY <1>1 DEF ServerInv
    <3> QED
      BY <3>1, <3>2, <1>3 DEF Replaced
  <2>4. /\ Stores(closing, h)
        /\ h.open = playerHistory.open \ out
        /\ h.open \cup h.closed = playerHistory.open \cup playerHistory.closed
        /\ h.closed = playerHistory.closed \cup (playerHistory.open \cap out)
        /\ closing \in Seq(EventType)
    BY ONLY SessionsInv, Up, <2>2, <2>3, StoresLogouts
  <2>5. ASSUME here
        PROVE  /\ read \in 0 .. Len(logs[Current]) /\ Follows(b, Current, logs[Current], read)
               /\ Unread(h, Current, logs[Current], read)
    <3>1. loop.at.run # Current
      BY <2>5, <1>3 DEF Replaced
    <3>2. \A s \in h.open \cup h.closed : s[1] < Current
      BY <2>4, <2>5, <3>1, <1>1 DEF ReadInv
    <3>3. \A k : <<Current, k>>[1] = Current /\ ~ (Current < Current)
      BY <1>1
    <3> QED
      BY <3>2, <3>3, <2>1, <2>5, <1>2, FollowsFresh DEF Unread
  <2> QED
    BY <2>1, <2>4, <2>5, <1>1, FreshFacts DEF Ready, Stores, LiveInv
<1>4. CASE ~Replaced
  <2>1. b = loop.of /\ read = loop.at.offset /\ closing = <<>>
    BY <1>4 DEF ReadsOn
  <2>2. h = playerHistory /\ Stores(closing, h) /\ closing \in Seq(EventType)
    <3>1. h = playerHistory /\ Stores(closing, h)
      BY <2>1, StoresNothing
    <3>2. <<>> \in Seq(EventType)
      OBVIOUS
    <3> QED
      BY <3>1, <3>2, <2>1
  <2>3. ASSUME here
        PROVE  /\ read \in 0 .. Len(logs[Current]) /\ Follows(b, Current, logs[Current], read)
               /\ Unread(h, Current, logs[Current], read)
    <3>1. loop.at.run = Current
      BY <2>3, <1>4 DEF Replaced
    <3>2. read \in 0 .. Len(logs[Current]) /\ Follows(b, Current, logs[Current], read)
      BY <3>1, <2>1, <2>3, <1>1, <1>2 DEF FollowerInv
    <3>3. Unread(h, Current, logs[Current], read)
      <4> SUFFICES ASSUME NEW k \in read + 1 .. Len(logs[Current]),
                          <<Current, k>> \in h.open \cup h.closed
                   PROVE  FALSE
        BY DEF Unread
      <4>1. k <= read
        BY <2>1, <2>2, <2>3, <1>1 DEF ReadInv
      <4> QED
        BY <4>1, <3>2
    <3> QED
      BY <3>2, <3>3
  <2>4. ~here => Live(b) = {}
    BY <1>1, <1>4, <2>1 DEF Replaced, FollowerInv, Follows
  <2> QED
    BY <2>1, <2>2, <2>3, <2>4, <1>1 DEF Ready, LiveInv
<1> QED
  BY <1>3, <1>4

\* After the lines that are new: H is the history with their events.
Done(step, b, read, h, H) ==
    /\ step \in Step /\ H \in HistoryType /\ HistoryOK(H)
    /\ H.imported = h.imported /\ h.closed \subseteq H.closed
    /\ Clean({"gap", "missed", "cut"}) =>
          LogoutsOf(step.events) \subseteq H.closed /\ LogoutsOf(step.events) \cap h.closed = {}
    /\ Sessions(step.to) \cap H.closed = {}
    /\ Clean({"gap", "missed", "cut"}) => Sessions(step.to) \subseteq H.open
    /\ Clean({"gap", "replay"}) => H.open = Sessions(step.to)
    /\ here => Follows(step.to, Current, logs[Current], Len(logs[Current]))
    /\ ~here => Live(step.to) = {} /\ step.to.seen = {}
    /\ \A p \in step.to.seen : p \in b.seen /\ step.to.live[p] = b.live[p]
    /\ \A p \in connected : \A i \in 1 .. Len(logs[Current]) :
          Present(p, i) /\ ~step.absorbed =>
              step.to.live[p] = IF read < i THEN <<Current, i>> ELSE b.live[p]

\* The new lines are read, and their events stored.
LEMMA LinesDone ==
    ASSUME SessionsInv, Up, here, NEW b, NEW read, NEW h, Ready(h, b, read),
           NEW step, step = Process(b, Current, logs[Current], read),
           NEW H, H = ApplyEvents(h, step.events)
    PROVE  Done(step, b, read, h, H)
<1> SUFFICES ASSUME NEW log, log = logs[Current], NEW n, n = Len(log)
             PROVE  Done(step, b, read, h, H)
  OBVIOUS
<1>1. /\ Types /\ ServerInv /\ Current \in Nat /\ Current \in 1 .. Current
      /\ log \in Seq(Line) /\ n \in Nat
  BY LoggedFacts DEF SessionsInv, Types
<1>2. /\ h \in HistoryType /\ HistoryOK(h) /\ b \in Processor /\ h.open \cap h.closed = {}
      /\ read \in 0 .. n /\ read \in Nat /\ Follows(b, Current, log, read)
      /\ Unread(h, Current, log, read)
      /\ Sessions(b) \cap h.closed = {}
      /\ Clean({"gap", "missed", "cut"}) => Sessions(b) \subseteq h.open
      /\ Clean({"gap", "replay"}) => h.open = Sessions(b)
  BY DEF Ready, HistoryOK
<1>3. /\ StepInv(step, b, Current, log, read, n)
      /\ HistInv(h, H, step, b, Current, log, read, n)
  BY <1>1, <1>2, ProcessFacts
<1>4. /\ step \in Step /\ Follows(step.to, Current, log, n) /\ Keeps(step, b, log, read, n)
  BY <1>3 DEF StepInv
<1>5. /\ Grows(h, H) /\ FromLines(h, H, Current, log, read, n)
      /\ Together(h, H, step, b, Current, log, read)
      /\ Announced(h, H, step, b, Current, log, read, n)
  BY <1>3 DEF HistInv
<1>6. /\ H \in HistoryType /\ H.imported = h.imported /\ H.open \cap H.closed = {}
      /\ h.closed \subseteq H.closed /\ h.open \cup h.closed \subseteq H.open \cup H.closed
  BY <1>5 DEF Grows
<1>7. \A s \in (H.open \cup H.closed) \ (h.open \cup h.closed) : Known(s) /\ s[1] = Current
  <2> SUFFICES ASSUME NEW s \in (H.open \cup H.closed) \ (h.open \cup h.closed)
               PROVE  Known(s) /\ s[1] = Current
    OBVIOUS
  <2>1. PICK k \in read + 1 .. n : s = <<Current, k>> /\ log[k].kind = "auth"
    BY <1>5 DEF FromLines
  <2>2. k \in 1 .. n
    BY <2>1, <1>1, <1>2
  <2> QED
    BY <2>1, <2>2, <1>1 DEF Known
<1>8. HistoryOK(H)
  <2>1. \A s \in H.open \cup H.closed : Known(s)
    BY <1>2, <1>7 DEF HistoryOK
  <2>2. ASSUME Clean({"stale"}), NEW p \in connected, NEW i \in 1 .. Len(logs[Current]),
               Present(p, i), <<Current, i>> \in H.closed
        PROVE  FALSE
    <3>1. <<Current, i>> \notin h.closed
      BY <2>2, <1>2 DEF HistoryOK
    <3>2. PICK j \in 1 .. n : \E k \in j + 1 .. n :
             <<Current, i>> = <<Current, j>> /\ log[k].who = log[j].who
      BY <2>2, <3>1, <1>5 DEF FromLines
    <3>3. i = j
      BY <3>2
    <3> QED
      BY <2>2, <3>2, <3>3 DEF Present, LastLine
  <2>3. Current \notin Archives
    BY <1>1 DEF Archives
  <2>4. H.imported \subseteq Archives
    BY <1>2, <1>6 DEF HistoryOK
  <2>5. ASSUME Clean({"replay"}), NEW s \in H.open
        PROVE  s[1] \notin H.imported
    <3>1. CASE s \in h.open \cup h.closed
      <4>1. s \in h.open
        BY <3>1, <2>5, <1>6
      <4> QED
        BY <4>1, <2>5, <1>2, <1>6 DEF HistoryOK
    <3>2. CASE s \notin h.open \cup h.closed
      BY <3>2, <2>3, <2>4, <2>5, <1>7
    <3> QED
      BY <3>1, <3>2
  <2> QED
    BY <2>1, <2>2, <2>4, <2>5, <1>6 DEF HistoryOK
<1>9. Sessions(step.to) \cap H.closed = {}
  BY <1>2, <1>5 DEF Together
<1>10. Clean({"gap", "missed", "cut"}) => Sessions(step.to) \subseteq H.open
  BY <1>2, <1>5, <1>9 DEF Together
<1>11. Clean({"gap", "replay"}) => H.open = Sessions(step.to)
  BY <1>2, <1>5 DEF Together
<1>12. Clean({"gap", "missed", "cut"}) =>
          LogoutsOf(step.events) \subseteq H.closed /\ LogoutsOf(step.events) \cap h.closed = {}
  <2>1. LogoutsOf(step.events) \subseteq Sessions(b) \cup {<<Current, k>> : k \in read + 1 .. n}
    BY <1>5 DEF Announced
  <2>2. {<<Current, k>> : k \in read + 1 .. n} \cap h.closed = {}
    BY <1>2 DEF Unread
  <2>3. LogoutsOf(step.events) \cap h.closed = {}
    BY <2>1, <2>2, <1>2
  <2> QED
    BY <2>3, <1>2, <1>5 DEF Announced
<1>13. \A p \in step.to.seen : p \in b.seen /\ step.to.live[p] = b.live[p]
  BY <1>4 DEF Keeps
<1>14. ASSUME NEW p \in connected, NEW i \in 1 .. Len(logs[Current]), Present(p, i), ~step.absorbed
       PROVE  step.to.live[p] = IF read < i THEN <<Current, i>> ELSE b.live[p]
  <2>1. p \in Players
    BY <1>1, <1>14 DEF Types
  <2>2. CASE read < i
    BY <2>1, <2>2, <1>1, <1>2, <1>3, <1>14, PresentIsLive
  <2>3. CASE ~ (read < i)
    <3>1. \A k \in read + 1 .. n : k \in i + 1 .. n
      BY <2>3, <1>1, <1>2
    <3>2. \A k \in i + 1 .. n : log[k].who # p
      BY <1>14 DEF Present, LastLine, Auth
    <3> QED
      BY <2>1, <2>3, <3>1, <3>2, <1>4 DEF Keeps
  <2> QED
    BY <2>2, <2>3
<1> QED
  BY <1>4, <1>6, <1>8, <1>9, <1>10, <1>11, <1>12, <1>13, <1>14 DEF Done

\* With no log there is nothing to read, and nobody is live.
LEMMA NoLogDone ==
    ASSUME SessionsInv, Up, ~here, NEW b, NEW read, ReadsOn(b, read), NEW h, Ready(h, b, read),
           NEW step, step = Begins(b)
    PROVE  Done(step, b, read, h, ApplyEvents(h, step.events)) /\ step.events = <<>>
<1>1. step.to = b /\ step.events = <<>> /\ step.absorbed = FALSE
  BY DEF Begins
<1>2. LogoutsOf(<<>>) = {}
  BY DEF LogoutsOf
<1>3. ApplyEvents(h, step.events) = h
  BY <1>1, ApplyNone
<1>4. step \in Step
  <2>1. b \in Processor /\ <<>> \in Seq(EventType)
    BY DEF Ready
  <2> QED
    BY <2>1 DEF Step, Begins
<1>5. connected = {}
  BY DEF SessionsInv, ServerInv
<1>6. b.seen = {}
  <2>1. b.seen \subseteq Live(b)
    BY FreshFacts DEF ReadsOn, SessionsInv, LoopInv, FollowerInv, Follows
  <2> QED
    BY <2>1 DEF Ready
<1> QED
  BY <1>1, <1>2, <1>3, <1>4, <1>5, <1>6 DEF Done, Ready

\* The loop reads what is new, in the log it follows or in a new one.
LEMMA PollReadsKeeps ==
    ASSUME SessionsInv, PollReads
    PROVE  SessionsInv'
<1> SUFFICES ASSUME NEW closing, closing = IF Replaced THEN ClosePlayerSessions(loop.of) ELSE <<>>,
                    NEW b, b = IF Replaced THEN Fresh ELSE loop.of,
                    NEW read, read = IF Replaced THEN 0 ELSE loop.at.offset,
                    NEW step, step = IF here THEN Process(b, Current, logs[Current], read)
                                             ELSE Begins(b),
                    NEW h, h = ApplyEvents(playerHistory, closing),
                    NEW H, H = ApplyEvents(h, step.events),
                    NEW events, events = closing \o step.events
             PROVE  SessionsInv'
  OBVIOUS
<1>1. /\ manager = "poll" /\ online /\ manager' = "reconcile" /\ RecordEvents(events)
      /\ loop' = [wasRunning |-> TRUE, at |-> AtEnd, of |-> step.to]
      /\ spoiled' = IF step.absorbed THEN spoiled \cup {"rejoin"} ELSE spoiled
      /\ UNCHANGED world
  BY DEF PollReads
<1>2. Up /\ Up' /\ manager' \in {"down", "starting", "poll", "reconcile"}
  BY <1>1 DEF Up
<1>3. /\ Types /\ ServerInv /\ FollowerInv /\ WatchInv /\ Current \in Nat
      /\ loop.at.run \in Nat /\ loop.at.offset \in Nat
  BY <1>2, LoggedFacts DEF SessionsInv, LoopInv, Types
<1>4. ReadsOn(b, read)
  BY DEF ReadsOn
<1>5. Ready(h, b, read) /\ Stores(closing, h) /\ closing \in Seq(EventType)
  BY <1>2, <1>4, ClosingFacts
<1>6. Done(step, b, read, h, H)
  BY <1>2, <1>4, <1>5, LinesDone, NoLogDone
<1>7. /\ step \in Step /\ step.to \in Processor /\ step.events \in Seq(EventType)
      /\ HistoryOK(H) /\ H \in HistoryType
  BY <1>6 DEF Done, Step
<1>8. H = ApplyEvents(playerHistory, events)
  <2>1. closing \in Seq(EventType) /\ step.events \in Seq(EventType)
    BY <1>5, <1>7
  <2>2. ApplyEvents(playerHistory, closing \o step.events)
           = ApplyEvents(ApplyEvents(playerHistory, closing), step.events)
    BY ONLY <2>1, ApplyParts
  <2> QED
    BY <2>2
<1>9. Stores(events, H)
  <2>1. LogoutsOf(events) = LogoutsOf(closing) \cup LogoutsOf(step.events)
    BY <1>5, <1>7, LogoutsJoined
  <2>2. H.imported = playerHistory.imported /\ playerHistory.closed \subseteq H.closed
    BY <1>5, <1>6 DEF Ready, Done
  <2>3. ASSUME Clean({"gap", "missed", "cut"})
        PROVE  /\ LogoutsOf(events) \subseteq H.closed
               /\ LogoutsOf(events) \cap playerHistory.closed = {}
    <3>1. /\ LogoutsOf(closing) \subseteq h.closed /\ h.closed \subseteq H.closed
          /\ LogoutsOf(closing) \cap playerHistory.closed = {}
      BY <2>3, <1>5, <1>6 DEF Stores, Done
    <3>2. /\ LogoutsOf(step.events) \subseteq H.closed
          /\ LogoutsOf(step.events) \cap h.closed = {} /\ playerHistory.closed \subseteq h.closed
      BY <2>3, <1>5, <1>6 DEF Ready, Done
    <3> QED
      BY <2>1, <3>1, <3>2
  <2> QED
    BY <2>2, <2>3, <1>7 DEF Stores
<1>10. playerHistory' = H
  BY <1>1, <1>8 DEF RecordEvents
<1> SUFFICES ASSUME NEW n, n = IF here THEN Len(logs[Current]) ELSE 0
             PROVE  SessionsInv'
  OBVIOUS
<1>11. /\ n \in Nat /\ (here => Current \in 1 .. Current /\ n = Len(logs[Current]))
       /\ AtEnd = [run |-> IF here THEN Current ELSE 0, offset |-> n]
  BY <1>3, LoggedFacts DEF AtEnd, Follower, Types
<1>12. /\ loop'.wasRunning = TRUE /\ loop'.at = AtEnd /\ loop'.of = step.to
       /\ loop' \in [wasRunning : BOOLEAN, at : [run : Nat, offset : Nat], of : Processor]
  BY <1>1, <1>3, <1>7, <1>11
<1>13. FollowerInv'
  <2>1. Follows(step.to, IF here THEN Current ELSE 0, logs[IF here THEN Current ELSE 0], n)
    BY <1>6, <1>11 DEF Done, Follows
  <2> QED
    BY <2>1, <1>1, <1>3, <1>11, <1>12, WorldSame DEF FollowerInv, world
<1>14. ReadInv'
  <2>1. here => \A s \in H.open \cup H.closed : s[1] < Current \/ (s[1] = Current /\ s[2] <= n)
    BY <1>3, <1>7, <1>11 DEF HistoryOK, Known
  <2> QED
    BY <2>1, <1>1, <1>3, <1>10, <1>11, <1>12, WorldSame DEF ReadInv, world
<1>15. \A kinds : Clean(kinds)' => Clean(kinds)
  BY <1>1 DEF Clean
<1>16. LiveInv'
  <2>1. Sessions(loop.of)' = Sessions(step.to)
    BY <1>12 DEF Sessions, Live
  <2> QED
    BY <2>1, <1>6, <1>10, <1>15 DEF LiveInv, Done
<1>17. WatchInv'
  <2>1. ASSUME NEW p \in connected, NEW i \in 1 .. Len(logs[Current]), Present(p, i)
        PROVE  /\ Clean({"stale"})' /\ p \in step.to.seen /\ step.to.live[p] = <<Current, i>>
                     => p \in genuine
               /\ Clean({"gap", "rejoin", "stale", "replay"})' => step.to.live[p] = <<Current, i>>
    <3>1. ASSUME Clean({"stale"})', p \in step.to.seen, step.to.live[p] = <<Current, i>>
          PROVE  p \in genuine
      <4>1. p \in b.seen /\ b.live[p] = <<Current, i>>
        BY <3>1, <1>6 DEF Done
      <4>2. b = loop.of
        BY <4>1, FreshFacts
      <4> QED
        BY <3>1, <4>1, <4>2, <2>1, <1>3, <1>15 DEF WatchInv
    <3>2. ASSUME Clean({"gap", "rejoin", "stale", "replay"})'
          PROVE  step.to.live[p] = <<Current, i>>
      <4>1. ~step.absorbed /\ Clean({"gap", "rejoin", "stale", "replay"})
        BY <3>2, <1>1 DEF Clean
      <4>2. step.to.live[p] = IF read < i THEN <<Current, i>> ELSE b.live[p]
        BY <4>1, <2>1, <1>6 DEF Done
      <4>3. ASSUME ~ (read < i)
            PROVE  b.live[p] = <<Current, i>>
        <5>1. here
          BY <2>1, <1>3 DEF ServerInv
        <5>2. i \in Nat /\ i >= 1
          BY <2>1, <1>11, <5>1
        <5>3. ~Replaced /\ b = loop.of /\ read = loop.at.offset
          BY <4>3, <5>2
        <5>4. loop.at.run = Current /\ i <= loop.at.offset
          BY <4>3, <5>1, <5>2, <5>3, <1>3 DEF Replaced
        <5> QED
          BY <2>1, <4>1, <5>3, <5>4, <1>3 DEF WatchInv
      <4> QED
        BY <4>2, <4>3
    <3> QED
      BY <3>1, <3>2
  <2> QED
    BY <2>1, <1>1, <1>12, WorldSame DEF WatchInv, world
<1>18. spoiled \subseteq spoiled' /\ spoiled' \subseteq Spoils
  BY <1>1, <1>3 DEF Types, Spoils
<1> QED
  BY <1>1, <1>2, <1>8, <1>9, <1>12, <1>13, <1>14, <1>16, <1>17, <1>18, RecordKeeps

-----------------------------------------------------------------------------
(* The theorems *)

\* Every step keeps the invariant.
LEMMA SessionsInduction ==
    SessionsSpec => []SessionsInv
<1>1. SessionsInit => SessionsInv
  BY InitSessions
<1>2. SessionsInv /\ [SessionsNext]_sessionsVars => SessionsInv'
  <2> SUFFICES ASSUME SessionsInv, [SessionsNext]_sessionsVars
               PROVE  SessionsInv'
    OBVIOUS
  <2>1. CASE ServerStep
    BY <2>1, ServerKeeps
  <2>2. CASE FollowerStep
    BY <2>2, StartKeeps, LoopBeginsKeeps, PollStoppedKeeps, PollReadsKeeps, ReconcileKeeps,
       ManagerEndsKeeps DEF FollowerStep
  <2>3. CASE UNCHANGED sessionsVars
    <3>1. UNCHANGED <<online, logs, here, connected, listed, genuine, manager, playersFile,
                      playerHistory, loop, told, again, spoiled>>
      BY <2>3 DEF sessionsVars
    <3>2. (UNCHANGED world) /\ Current' = Current
      BY <3>1 DEF world, Current
    <3>3. /\ Types' = Types /\ ServerInv' = ServerInv /\ ToldInv' = ToldInv
      BY <3>1, <3>2, WorldSame DEF Types, ToldInv, Clean
    <3>4. StoreInv' = StoreInv
      BY <3>1, <3>2, WorldSame DEF StoreInv, HistoryOK, Clean, Up, Idle
    <3>5. StartingInv' = StartingInv
      BY <3>1, <3>2 DEF StartingInv, Found, ScanStep, Clean
    <3>6. LoopInv' = LoopInv
      <4>1. FollowerInv' = FollowerInv
        BY <3>1, <3>2 DEF FollowerInv
      <4>2. ReadInv' = ReadInv /\ LiveInv' = LiveInv
        BY <3>1, <3>2 DEF ReadInv, LiveInv, Clean
      <4>3. WatchInv' = WatchInv
        BY <3>1, <3>2, WorldSame DEF WatchInv, Clean
      <4> QED
        BY <4>1, <4>2, <4>3, <3>1 DEF LoopInv, Up
    <3> QED
      BY <3>3, <3>4, <3>5, <3>6 DEF SessionsInv
  <2> QED
    BY <2>1, <2>2, <2>3 DEF SessionsNext
<1> QED
  BY <1>1, <1>2, PTL DEF SessionsSpec

\* The live sessions are places in the logs.
LEMMA LiveSessions ==
    ASSUME SessionsInv
    PROVE  loop.of.live \in [Players -> Session \cup {NoSession}]
<1>1. Types /\ loop.of \in Processor /\ loop.of.live \in [Players -> Place] /\ Current \in Nat
  BY LoggedFacts DEF SessionsInv, Types, Processor
<1>2. CASE ~Up
  <2>1. loop.of = Fresh
    BY <1>2 DEF SessionsInv, StoreInv, Idle
  <2> QED
    BY <2>1 DEF Fresh
<1>3. CASE Up
  <2>1. FollowerInv
    BY <1>3 DEF SessionsInv, LoopInv
  <2>2. ASSUME NEW p \in Live(loop.of)
        PROVE  loop.of.live[p] \in Session
    <3>1. PICK j \in 1 .. loop.at.offset : loop.of.live[p] = <<loop.at.run, j>>
      BY <2>1 DEF FollowerInv, Follows
    <3>2. loop.at.run \in Nat /\ loop.at.offset \in Nat /\ MaxRuns \in Nat /\ MaxLines \in Nat
      BY <1>1, SessionsAssumption DEF Types
    <3>3. loop.at.run \in 1 .. Current /\ loop.at.offset <= Len(logs[loop.at.run])
      BY <2>1, <3>1, <3>2, <1>1 DEF FollowerInv
    <3>4. Len(logs[loop.at.run]) <= MaxLines /\ Len(logs[loop.at.run]) \in Nat /\ Current <= MaxRuns
      BY <3>3, <1>1, LoggedFacts DEF Types
    <3>5. loop.at.run \in 1 .. MaxRuns /\ j \in 1 .. MaxLines
      BY <3>1, <3>2, <3>3, <3>4, <1>1
    <3> QED
      BY <3>1, <3>5 DEF Session, Runs
  <2>3. \A p \in Players : loop.of.live[p] \in Session \cup {NoSession}
    BY <2>2 DEF Live
  <2> QED
    BY <2>3, <1>1
<1> QED
  BY <1>2, <1>3

\* The stored sessions are places in the logs.
LEMMA StoredSessions ==
    ASSUME Types, NEW h \in HistoryType, HistoryOK(h)
    PROVE  h \in History
<1>1. Current \in Nat /\ Current <= MaxRuns /\ MaxRuns \in Nat /\ MaxLines \in Nat
  BY LoggedFacts, SessionsAssumption DEF Types
<1>2. ASSUME NEW s \in Place, Known(s)
      PROVE  s \in Session
  <2>1. s[1] \in 1 .. Current /\ s[2] \in 1 .. Len(logs[s[1]]) /\ s = <<s[1], s[2]>>
    BY <1>2 DEF Known, Place
  <2>2. Len(logs[s[1]]) <= MaxLines /\ Len(logs[s[1]]) \in Nat
    BY <2>1, LoggedFacts DEF Types
  <2>3. s[1] \in 1 .. MaxRuns /\ s[2] \in 1 .. MaxLines
    BY <2>1, <2>2, <1>1
  <2> QED
    BY <2>1, <2>3 DEF Session, Runs
<1>3. h.imported \subseteq Runs
  <2>1. Archives \subseteq Runs
    BY <1>1 DEF Archives, Runs
  <2> QED
    BY <2>1 DEF HistoryOK
<1>4. \A s \in h.open \cup h.closed : s \in Place /\ Known(s)
  BY DEF HistoryOK, HistoryType
<1>5. h.open \subseteq Session /\ h.closed \subseteq Session
  BY <1>2, <1>4
<1> QED
  BY <1>3, <1>5 DEF History, HistoryType

\* Every variable has its type; the sessions of the stored history and of the
\* loop are lines of the logs, and none is both open and closed.
THEOREM SessionsTypeCorrect ==
    SessionsSpec => []SessionsTypeOK
<1>1. SessionsInv => SessionsTypeOK
  <2> SUFFICES ASSUME SessionsInv
               PROVE  SessionsTypeOK
    OBVIOUS
  <2>1. Types /\ HistoryOK(playersFile) /\ HistoryOK(playerHistory)
    BY DEF SessionsInv, StoreInv
  <2>2. \A run \in 1 .. Current : logs[run] \in Seq(Line)
    BY <2>1, LoggedFacts
  <2>3. playersFile \in History /\ playerHistory \in History
    BY <2>1, StoredSessions DEF Types
  <2>4. playerHistory.open \cap playerHistory.closed = {}
    BY <2>1 DEF HistoryOK
  <2>5. loop.of.missing \subseteq Players /\ loop.of.seen \subseteq Players
    BY <2>1 DEF Types, Processor
  <2>6. loop.of.live \in [Players -> Session \cup {NoSession}]
    BY LiveSessions
  <2> QED
    BY <2>1, <2>2, <2>3, <2>4, <2>5, <2>6 DEF SessionsTypeOK, Types
<1>2. SessionsSpec => []SessionsInv
  BY SessionsInduction
<1> QED
  BY <1>1, <1>2, PTL

\* A session's logout is announced once, whatever told it and however often
\* the manager restarts, unless it ended between an announcement and its save.
THEOREM OneLogout ==
    SessionsSpec => []LogoutOnce
<1>1. SessionsInv => LogoutOnce
  BY DEF SessionsInv, ToldInv, LogoutOnce, Clean
<1>2. SessionsSpec => []SessionsInv
  BY SessionsInduction
<1> QED
  BY <1>1, <1>2, PTL

\* The sessions stored as open are the live ones of the loop, all of the log
\* it follows, and those of the players on the server once it is read.
THEOREM OpenAreThoseOnline ==
    SessionsSpec => []SessionsMatch
<1>1. SessionsInv => SessionsMatch
  <2> SUFFICES ASSUME SessionsInv, Up
               PROVE  SessionsMatch
    BY DEF SessionsMatch, OpenIsLive, PresentIsOpen, Up
  <2>1. Types /\ ServerInv /\ FollowerInv /\ LiveInv /\ WatchInv
    BY DEF SessionsInv, LoopInv
  <2>2. OpenIsLive
    <3>1. \A s \in Sessions(loop.of) : s[1] = loop.at.run
      BY <2>1 DEF FollowerInv, Follows, Sessions
    <3> QED
      BY <3>1, <2>1 DEF OpenIsLive, LiveInv, Clean, Sessions
  <2>3. ASSUME loop.at = AtEnd, Clean({"gap", "rejoin", "stale", "replay"}), NEW p \in connected
        PROVE  p \in Live(loop.of)
    <3>1. PICK i \in 1 .. Len(logs[Current]) : Present(p, i)
      BY <2>1 DEF ServerInv
    <3>2. p \in Players /\ here
      BY <2>1, <2>3 DEF ServerInv, Types
    <3>3. Current # 0 /\ loop.at.run = Current /\ loop.at.offset = Len(logs[Current])
      BY <2>1, <2>3, <3>2 DEF AtEnd, Follower, Types
    <3>4. loop.of.live[p] = <<Current, i>>
      BY <2>1, <2>3, <3>1, <3>3 DEF WatchInv
    <3>5. <<Current, i>> # NoSession
      BY <3>3 DEF NoSession
    <3> QED
      BY <3>2, <3>4, <3>5 DEF Live
  <2>4. PresentIsOpen
    BY <2>3 DEF PresentIsOpen, Clean
  <2> QED
    BY <2>2, <2>4 DEF SessionsMatch
<1>2. SessionsSpec => []SessionsInv
  BY SessionsInduction
<1> QED
  BY <1>1, <1>2, PTL

-----------------------------------------------------------------------------
(* What is stored stays *)

\* H has the sessions of h, and those closed in h are closed in it.
Continues(h, H) ==
    h.closed \subseteq H.closed /\ h.open \cup h.closed \subseteq H.open \cup H.closed

\* To apply events, whatever they are, takes no session back and opens no
\* closed one again.
LEMMA ApplyContinues ==
    ASSUME NEW h \in HistoryType, NEW events \in Seq(EventType)
    PROVE  Continues(h, ApplyEvents(h, events))
<1> DEFINE m == Len(events)
<1>1. m \in Nat /\ DOMAIN events = 1 .. m
  OBVIOUS
<1>2. PICK g : /\ ApplyEvents(h, events) = g[m]
               /\ g[0] = h
               /\ \A k \in 1 .. m : g[k] = ApplyEvent(g[k - 1], events[k])
  BY <1>1, ApplySteps
<1> DEFINE S == {n \in 0 .. m : g[n] \in HistoryType /\ Continues(h, g[n])}
<1>3. 0 \in S
  BY <1>1, <1>2 DEF Continues
<1>4. ASSUME NEW n \in 0 .. m - 1, n \in S
      PROVE  n + 1 \in S
  <2>1. n + 1 \in 1 .. m /\ n + 1 \in 0 .. m /\ (n + 1) - 1 = n
    BY <1>1
  <2> DEFINE e == events[n + 1]
  <2>2. e \in EventType
    BY <1>1, <2>1
  <2>3. g[n + 1] = ApplyEvent(g[n], e)
    BY <1>2, <2>1
  <2> HIDE DEF e
  <2>4. EventTakes(g[n], e, g[n + 1])
    BY <1>4, <2>2, <2>3, EventEffect
  <2>5. g[n + 1] \in HistoryType /\ Continues(g[n], g[n + 1])
    BY <2>2, <2>4 DEF EventType, EventTakes, Continues
  <2> QED
    BY <1>4, <2>1, <2>5 DEF Continues
<1> HIDE DEF S
<1>5. m \in S
  <2>1. m \in 0 .. m /\ 0 \in Nat
    BY <1>1
  <2> QED
    BY <2>1, <1>1, <1>3, <1>4, CountUp
<1> QED
  BY <1>2, <1>5 DEF S

\* The manager's history is never behind its file: a step that saves it takes
\* nothing back, and a failed save leaves the file as it was.
FileBehind == Continues(playersFile, playerHistory)

\* A step that records events.
LEMMA RecordContinues ==
    ASSUME FileBehind, playerHistory \in HistoryType, NEW events \in Seq(EventType),
           RecordEvents(events)
    PROVE  FileBehind' /\ Continues(playersFile, playersFile')
<1> SUFFICES ASSUME NEW H, H = ApplyEvents(playerHistory, events)
             PROVE  FileBehind' /\ Continues(playersFile, playersFile')
  OBVIOUS
<1>1. playerHistory' = H /\ playersFile' \in {playersFile, H}
  BY DEF RecordEvents
<1>2. Continues(playerHistory, H)
  BY ApplyContinues
<1>3. Continues(playersFile, H)
  BY <1>2 DEF FileBehind, Continues
<1> QED
  BY <1>1, <1>3 DEF FileBehind, Continues

\* The events of a read of the log.
LEMMA ReadEvents ==
    ASSUME SessionsInv, PollReads
    PROVE  \E events \in Seq(EventType) : RecordEvents(events)
<1> SUFFICES ASSUME NEW closing, closing = IF Replaced THEN ClosePlayerSessions(loop.of) ELSE <<>>,
                    NEW b, b = IF Replaced THEN Fresh ELSE loop.of,
                    NEW read, read = IF Replaced THEN 0 ELSE loop.at.offset,
                    NEW step, step = IF here THEN Process(b, Current, logs[Current], read)
                                             ELSE Begins(b),
                    NEW h, h = ApplyEvents(playerHistory, closing)
             PROVE  \E events \in Seq(EventType) : RecordEvents(events)
  OBVIOUS
<1>1. manager = "poll" /\ RecordEvents(closing \o step.events)
  BY DEF PollReads
<1>2. Up /\ ReadsOn(b, read)
  BY <1>1 DEF Up, ReadsOn
<1>3. Ready(h, b, read) /\ closing \in Seq(EventType)
  BY <1>2, ClosingFacts
<1>4. Done(step, b, read, h, ApplyEvents(h, step.events))
  BY <1>2, <1>3, LinesDone, NoLogDone
<1>5. step.events \in Seq(EventType)
  BY <1>4 DEF Done, Step
<1>6. closing \o step.events \in Seq(EventType)
  BY <1>3, <1>5
<1> QED
  BY <1>1, <1>6

\* The events of the other steps of the loop: logouts, or none.
LEMMA LoopEvents ==
    ASSUME SessionsInv, PollStopped \/ Reconcile
    PROVE  \E events \in Seq(EventType) : RecordEvents(events)
<1>1. IsFiniteSet(Players) /\ loop.of \in Processor
  BY SessionsAssumption DEF SessionsInv, Types
<1>2. <<>> \in Seq(EventType)
  OBVIOUS
<1>3. CASE PollStopped
  <2>1. ClosePlayerSessions(loop.of) \in Seq(EventType)
    BY <1>1, LogoutsFacts DEF ClosePlayerSessions
  <2> QED
    BY <1>2, <1>3, <2>1 DEF PollStopped
<1>4. CASE Reconcile
  <2>1. ASSUME NEW gone \in SUBSET {p \in Absent \cap loop.of.missing : Old(p)},
               RecordEvents(Logouts(loop.of, gone))
        PROVE  \E events \in Seq(EventType) : RecordEvents(events)
    <3>1. gone \in SUBSET Live(loop.of)
      BY DEF Absent
    <3>2. Logouts(loop.of, gone) \in Seq(EventType)
      BY <1>1, <3>1, LogoutsFacts
    <3> QED
      BY <2>1, <3>2
  <2> QED
    BY <1>2, <1>4, <2>1 DEF Reconcile
<1> QED
  BY <1>3, <1>4

\* The start of a manager: the import adds to what was stored.
LEMMA StartContinues ==
    ASSUME SessionsInv, Start
    PROVE  FileBehind' /\ Continues(playersFile, playersFile')
<1> SUFFICES ASSUME NEW h, h = playersFile, NEW R, R = Import(h)
             PROVE  FileBehind' /\ Continues(h, playersFile')
  OBVIOUS
<1>1. playerHistory' = R /\ playersFile' = R
  BY DEF Start
<1>2. Types /\ HistoryOK(h)
  BY DEF SessionsInv, StoreInv
<1>3. /\ h \in HistoryType /\ h.open \cap h.closed = {} /\ h.imported \subseteq Archives
      /\ \A s \in h.open \cup h.closed : Known(s)
  BY <1>2 DEF Types, HistoryOK
<1>4. ImportInv(h, R, Current)
  BY <1>2, <1>3, LoggedFacts, ImportFacts
<1>5. Continues(h, R)
  BY <1>4 DEF ImportInv, Continues
<1> QED
  BY <1>1, <1>5 DEF FileBehind, Continues

\* Every step takes the file forward.
LEMMA StepContinues ==
    ASSUME SessionsInv, FileBehind, SessionsNext
    PROVE  FileBehind' /\ Continues(playersFile, playersFile')
<1>1. CASE ServerStep \/ LoopBegins
  <2>1. UNCHANGED <<playersFile, playerHistory>>
    BY <1>1 DEF ServerStep, Login, Leave, Sample, RunEnds, RunBegins, LogAppears, LoopBegins,
                histories
  <2> QED
    BY <2>1 DEF FileBehind, Continues
<1>2. CASE Start
  BY <1>2, StartContinues
<1>3. CASE PollStopped \/ PollReads \/ Reconcile
  <2>1. playerHistory \in HistoryType
    BY DEF SessionsInv, Types
  <2>2. PICK events \in Seq(EventType) : RecordEvents(events)
    BY <1>3, ReadEvents, LoopEvents
  <2> QED
    BY <2>1, <2>2, RecordContinues
<1>4. CASE ManagerEnds
  <2>1. playersFile' = playersFile /\ playerHistory' = playersFile
    BY <1>4 DEF ManagerEnds
  <2> QED
    BY <2>1 DEF FileBehind, Continues
<1> QED
  BY <1>1, <1>2, <1>3, <1>4 DEF SessionsNext, FollowerStep

\* Nothing stored in players.json is taken back: a session in it stays there,
\* and a closed one is not opened again, whatever is read or imported, and
\* wherever the manager ends.
THEOREM StoredStays ==
    SessionsSpec => FileGoesForward
<1>1. SessionsInit => FileBehind
  BY DEF SessionsInit, FileBehind, Continues
<1>2. SessionsInv /\ FileBehind /\ [SessionsNext]_sessionsVars
         => FileBehind' /\ Continues(playersFile, playersFile')
  <2> SUFFICES ASSUME SessionsInv, FileBehind, [SessionsNext]_sessionsVars
               PROVE  FileBehind' /\ Continues(playersFile, playersFile')
    OBVIOUS
  <2>1. CASE SessionsNext
    BY <2>1, StepContinues
  <2>2. CASE UNCHANGED sessionsVars
    BY <2>2 DEF sessionsVars, FileBehind, Continues
  <2> QED
    BY <2>1, <2>2
<1>3. SessionsInv /\ FileBehind /\ [SessionsNext]_sessionsVars
         => [/\ playersFile.closed \subseteq playersFile'.closed
             /\ playersFile.open \cup playersFile.closed
                   \subseteq playersFile'.open \cup playersFile'.closed]_sessionsVars
  BY <1>2 DEF Continues
<1>4. SessionsSpec => []SessionsInv
  BY SessionsInduction
<1>5. SessionsSpec => []FileBehind
  BY <1>1, <1>2, <1>4, PTL DEF SessionsSpec
<1> QED
  BY <1>3, <1>4, <1>5, PTL DEF SessionsSpec, FileGoesForward

=============================================================================
