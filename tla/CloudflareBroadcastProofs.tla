---------------------- MODULE CloudflareBroadcastProofs ----------------------
(***************************************************************************)
(* Proofs about a key on Cloudflare, for any isolate, owners, publishes    *)
(* and bounds: an isolate's state of the key, its owners' counts and their *)
(* presences agree (KeyInv); and a publish that was numbered reaches the   *)
(* subscribers in the order of the numbers (OrderInv).                     *)
(***************************************************************************)
EXTENDS CloudflareBroadcast, SumsProofs, FiniteSetTheorems

-----------------------------------------------------------------------------
\* The states of a key on an isolate.
Members == [exists : BOOLEAN, setups : Nat, owners : [Owners -> Nat], refreshes : BOOLEAN,
            queued : Seq(CfPublishes), flushing : BOOLEAN]
Writes == [op : {"put", "delete"}, owner : Owners, why : {"setup", "release", "setup's", "refresh"},
           n : Nat]
Stages == {"none", "queued", "called", "chained", "fanned", "acked", "rejected"}
Requests == [at : Stages, run : Int, direct : BOOLEAN, seq : Nat,
             number : {"none", "read", "raised", "stored"}, listed : BOOLEAN,
             wants : SUBSET Owners, quiet : BOOLEAN, had : SUBSET Owners]
BoundNames == {"joins", "leaves", "refusals", "breaks", "restarts"}

\* What each variable holds.
CloudflareTypes ==
    /\ cf \in Isolates
    /\ isolate \in [subs : SUBSET Subscribers, member : Members, run : Int, left : SUBSET Owners]
    /\ kv \subseteq Owners /\ writes \subseteq Writes
    /\ requests \in [CfPublishes -> Requests]
    /\ authority \in [chain : Seq(CfPublishes), cache : Nat, stored : Nat, seen : Nat]
    /\ count \in [BoundNames -> Nat]
    /\ IsFiniteSet(isolate.subs) /\ IsFiniteSet(writes)

\* The subscribers of an owner.
OwnedBy(owners, subs, o) == {s \in subs : owners[s] = o}
SetupsOf(ws) == {w \in ws : w.why = "setup"}

\* Each owner's subscribers are counted, and an owner with some has its presence on the way or was
\* left at some time.
OwnersCounted ==
    /\ \A o \in Owners : isolate.member.owners[o] = Cardinality(OwnedBy(cf.owners, isolate.subs, o))
    /\ isolate.subs # {} \/ isolate.member.setups > 0 \/ isolate.member.flushing =>
           isolate.member.exists

\* Setups are told apart by the joins before.
WritesAreOwned ==
    \A w \in writes :
        /\ w.why = "setup" => /\ w.op = "put" /\ w.n < count["joins"]
                              /\ isolate.member.owners[w.owner] > 0 \/ w.owner \in isolate.left
        /\ w.op = "delete" => w.owner \in isolate.left

\* Presence
PresenceIsKept ==
    count["refusals"] = 0 =>
        \A o \in Owners : isolate.member.owners[o] > 0 =>
            \/ o \in isolate.left \/ o \in kv
            \/ \E w \in writes : w.why = "setup" /\ w.owner = o

\* Publishes are made in order, what waits is queued in that order, and what the authority has in
\* its chain is there once: only the first has a number, or was listed.
PlacesHold ==
    /\ \A p, q \in CfPublishes : p < q /\ requests[q].at # "none" => requests[p].at # "none"
    /\ \A i, j \in DOMAIN isolate.member.queued :
          i < j => isolate.member.queued[i] < isolate.member.queued[j]
    /\ \A i \in DOMAIN isolate.member.queued : requests[isolate.member.queued[i]].at = "queued"
    /\ \A p \in CfPublishes : requests[p].at = "queued" =>
          \E i \in DOMAIN isolate.member.queued : isolate.member.queued[i] = p
    /\ \A i \in DOMAIN authority.chain : requests[authority.chain[i]].at = "chained"
    /\ \A i, j \in DOMAIN authority.chain : authority.chain[i] = authority.chain[j] => i = j
    /\ \A p \in CfPublishes : requests[p].at = "chained" =>
          /\ \E i \in DOMAIN authority.chain : authority.chain[i] = p
          /\ requests[p].number # "none" \/ requests[p].listed => p = authority.chain[1]
    /\ \A p \in CfPublishes : requests[p].at \in {"none", "queued", "called"} =>
          requests[p].number = "none" /\ ~requests[p].listed
    /\ \A p \in CfPublishes : requests[p].at = "none" => ~requests[p].quiet

\* On its way to be listed.
Unlisted(p) ==
    \/ requests[p].at \in {"called", "chained"}
    \/ requests[p].at = "queued" /\ isolate.member.flushing

WantedArePresent ==
    \A p \in CfPublishes :
        /\ \A o \in requests[p].wants : isolate.member.owners[o] > 0 \/ o \in isolate.left
        /\ count["refusals"] = 0 /\ requests[p].quiet =>
               /\ Unlisted(p) => requests[p].wants \ isolate.left \subseteq kv
               /\ requests[p].listed => requests[p].wants \ isolate.left \subseteq requests[p].had

KeyInv == CloudflareTypes /\ OwnersCounted /\ WritesAreOwned /\ PresenceIsKept /\ PlacesHold
          /\ WantedArePresent /\ StateIsUsed

-----------------------------------------------------------------------------
\* What the authority numbered: what it stored is the last.
NumbersHold ==
    /\ \A p \in CfPublishes : requests[p].number = "stored" =>
          requests[p].seq > 0 /\ requests[p].seq <= authority.stored
    /\ \A p, q \in CfPublishes :
          /\ requests[p].number = "stored" /\ requests[q].number = "stored"
          /\ requests[p].seq = requests[q].seq
          => p = q
    /\ \A p \in CfPublishes : requests[p].at = "chained" =>
          /\ requests[p].number = "read" =>
                requests[p].seq = authority.stored /\ authority.cache \in {0, authority.stored}
          /\ requests[p].number = "raised" =>
                requests[p].seq = authority.stored + 1 /\ authority.cache = requests[p].seq
          /\ requests[p].number = "stored" => requests[p].seq = authority.stored
    /\ \/ authority.cache \in {0, authority.stored}
       \/ \E p \in CfPublishes : requests[p].at = "chained" /\ requests[p].number = "raised"

\* A publish of the isolate that the next ones go behind: one that waited, or of the same run.
Ahead(p, q) ==
    /\ p < q /\ cf.publishes[p].own /\ cf.publishes[q].own
    /\ ~requests[p].direct \/ requests[p].run = requests[q].run
Uncalled(p) == requests[p].at \in {"none", "queued"}
WaitsOrGoes(p) == ~requests[p].direct /\ requests[p].at \in {"queued", "called", "chained", "fanned"}
Entered(p) == requests[p].at = "chained" \/ requests[p].number # "none"

\* While one waits or is on its way, later ones wait; and those of a run enter the chain in order.
TurnsHold ==
    /\ \A p \in CfPublishes :
          /\ Uncalled(p) => requests[p].run = 0 /\ ~requests[p].direct
          /\ ~Uncalled(p) /\ requests[p].direct => requests[p].run # 0
          /\ requests[p].at = "called" => requests[p].run # 0
          /\ ~requests[p].direct /\ requests[p].at \in {"called", "chained", "fanned"} =>
                isolate.member.flushing
    /\ isolate.run > 0
    /\ \A p, q \in CfPublishes :
          p < q /\ cf.publishes[p].own /\ cf.publishes[q].own /\ WaitsOrGoes(p) =>
              Uncalled(q) \/ (requests[q].at = "rejected" /\ requests[q].number = "none")
    /\ \A p, q \in CfPublishes : Ahead(p, q) /\ Entered(q) =>
          /\ ~Uncalled(p) /\ requests[p].at # "called"
          /\ requests[p].at = "chained" =>
                /\ requests[q].at = "chained" /\ requests[q].number = "none"
                /\ \A i, j \in DOMAIN authority.chain :
                      authority.chain[i] = p /\ authority.chain[j] = q => i < j
          /\ requests[p].number = "stored" /\ requests[q].number = "stored" =>
                requests[p].seq < requests[q].seq

\* Calls of one Durable Object to another, in lines that go one after the other.
LinesHold(o) ==
    /\ o.line \in {0, Len(o.stubs)}
    /\ \A i \in DOMAIN o.calls : o.calls[i].stub \in DOMAIN o.stubs
    /\ \A i, j \in DOMAIN o.calls : i < j => o.calls[i].stub <= o.calls[j].stub
    /\ \A n \in DOMAIN o.stubs :
          /\ o.stubs[n].after \in {0, n - 1}
          /\ \E i \in DOMAIN o.calls : o.calls[i].stub = n
          /\ o.stubs[n].after = 0 =>
                \A j \in DOMAIN o.calls : o.calls[j].stub < n => o.calls[j].at = "done"
    /\ \A i, j \in DOMAIN o.calls :
          o.calls[i].at # "waits" /\ o.calls[j].stub < o.calls[i].stub => o.calls[j].at = "done"
    /\ o.line = 0 => \A i \in DOMAIN o.calls : o.calls[i].at = "done"

\* What the calls hold.
StubRecords == [failed : BOOLEAN, broken : BOOLEAN, after : Nat]
CallRecords == [id : CfPublishes, stub : Nat, at : {"waits", "sent", "taken", "done"}]
LineStates == [line : Nat, stubs : Seq(StubRecords), calls : Seq(CallRecords)]

Pending(o, i) == o.calls[i].at \in {"waits", "sent"}
CallSeq(o, i) == requests[o.calls[i].id].seq
Out(p) == requests[p].at \in {"fanned", "acked", "rejected"} /\ requests[p].number = "stored"

\* Calls are made in the order of their seqs, and what one may still hand over has none of a publish
\* handed over before.
HopsHold ==
    /\ hops \in [Hops -> LineStates] /\ ears \in [Subscribers -> Seq(CfPublishes)]
    /\ \A h \in Hops :
          /\ LinesHold(hops[h])
          /\ \A i \in DOMAIN hops[h].calls : Out(hops[h].calls[i].id)
          /\ \A i, j \in DOMAIN hops[h].calls : i < j => CallSeq(hops[h], i) < CallSeq(hops[h], j)
    /\ \A i \in DOMAIN hops["coordinator"].calls : Pending(hops["coordinator"], i) =>
          /\ \A o \in Owners : \A k \in DOMAIN hops[o].calls :
                CallSeq(hops[o], k) < CallSeq(hops["coordinator"], i)
          /\ \A s \in Subscribers : \A k \in DOMAIN ears[s] :
                requests[ears[s][k]].seq < CallSeq(hops["coordinator"], i)
    /\ \A s \in Subscribers :
          /\ \A k \in DOMAIN ears[s] : Out(ears[s][k])
          /\ \A i \in DOMAIN hops[cf.owners[s]].calls : Pending(hops[cf.owners[s]], i) =>
                \A k \in DOMAIN ears[s] : requests[ears[s][k]].seq < CallSeq(hops[cf.owners[s]], i)
    /\ SubscribersHearBySeq

OrderInv == NumbersHold /\ TurnsHold /\ HopsHold

-----------------------------------------------------------------------------
\* The publishes planned are numbered from one.
LEMMA PlansAre ==
    ASSUME cf \in Isolates
    PROVE  /\ cf.publishes \in Seq([own : BOOLEAN, bytes : Nat]) /\ Len(cf.publishes) \in Nat
           /\ CfPublishes = 1 .. Len(cf.publishes) /\ CfPublishes \subseteq Nat \ {0}
<1>1. cf.publishes \in Seq([own : BOOLEAN, bytes : Nat])
  BY IsolatesAssumption
<1> QED BY <1>1, LenProperties DEF CfPublishes

\* A bound is used once more.
LEMMA CountedOne ==
    ASSUME count \in [BoundNames -> Nat], NEW what \in BoundNames, Counts(what)
    PROVE  /\ count' \in [BoundNames -> Nat] /\ count["joins"] <= count'["joins"]
           /\ what = "joins" => count'["joins"] = count["joins"] + 1
           /\ count'["refusals"] = 0 => count["refusals"] = 0 /\ what # "refusals"
BY DEF Counts, BoundNames

\* Which key it is stays.
LEMMA NamesStay ==
    ASSUME cf' = cf
    PROVE  /\ Owners' = Owners /\ Subscribers' = Subscribers /\ CfPublishes' = CfPublishes
           /\ Members' = Members /\ Writes' = Writes /\ Requests' = Requests /\ Hops' = Hops
BY DEF Owners, Subscribers, CfPublishes, Members, Writes, Requests, Hops

\* No state is a state.
LEMMA NoStateIs ==
    /\ NoState \in Members /\ NoState.setups = 0 /\ NoState.queued = <<>> /\ NoState.flushing = FALSE
    /\ NoState.exists = FALSE /\ NoState.owners = [o \in Owners |-> 0]
BY DEF NoState, Members

\* A state that goes had nothing left in it.
LEMMA TearDownDoes ==
    ASSUME NEW m \in Members, NEW subs,
           m.queued # <<>> => m.setups > 0 \/ m.flushing,
           subs = {} => \A o \in Owners : m.owners[o] = 0,
           subs # {} \/ m.setups > 0 \/ m.flushing => m.exists
    PROVE  /\ TearDown(m, subs) \in Members /\ TearDown(m, subs).owners = m.owners
           /\ TearDown(m, subs).queued = m.queued /\ TearDown(m, subs).setups = m.setups
           /\ TearDown(m, subs).flushing = m.flushing
           /\ TearDown(m, subs).exists => subs # {} \/ m.setups > 0 \/ m.flushing
           /\ subs # {} \/ m.setups > 0 \/ m.flushing => TearDown(m, subs).exists
<1>1. CASE subs # {} \/ m.setups > 0 \/ m.flushing
  <2>1. TearDown(m, subs) = m
    BY <1>1 DEF TearDown
  <2> QED BY <1>1, <2>1
<1>2. CASE ~(subs # {} \/ m.setups > 0 \/ m.flushing)
  <2>1. TearDown(m, subs) = NoState /\ m.setups = 0 /\ m.queued = <<>> /\ m.flushing = FALSE
    BY <1>2 DEF TearDown, Members
  <2>2. m.owners = [o \in Owners |-> 0]
    BY <1>2 DEF Members
  <2> QED BY <1>2, <2>1, <2>2, NoStateIs
<1> QED BY <1>1, <1>2

\* A subscriber joins those of its owner,
LEMMA OwnedJoins ==
    ASSUME NEW owners, NEW subs, IsFiniteSet(subs), NEW s, s \notin subs, NEW o
    PROVE  /\ owners[s] = o => Cardinality(OwnedBy(owners, subs \cup {s}, o))
                                = Cardinality(OwnedBy(owners, subs, o)) + 1
           /\ owners[s] # o => OwnedBy(owners, subs \cup {s}, o) = OwnedBy(owners, subs, o)
           /\ Cardinality(OwnedBy(owners, subs, o)) \in Nat
<1>1. IsFiniteSet(OwnedBy(owners, subs, o))
  BY FS_Subset DEF OwnedBy
<1>2. s \notin OwnedBy(owners, subs, o)
  BY DEF OwnedBy
<1>3. owners[s] = o => OwnedBy(owners, subs \cup {s}, o) = OwnedBy(owners, subs, o) \cup {s}
  BY DEF OwnedBy
<1>4. owners[s] # o => OwnedBy(owners, subs \cup {s}, o) = OwnedBy(owners, subs, o)
  BY DEF OwnedBy
<1> QED BY <1>1, <1>2, <1>3, <1>4, FS_AddElement, FS_CardinalityType

\* and leaves them.
LEMMA OwnedLeaves ==
    ASSUME NEW owners, NEW subs, IsFiniteSet(subs), NEW s \in subs, NEW o
    PROVE  /\ owners[s] = o => /\ Cardinality(OwnedBy(owners, subs \ {s}, o))
                                   = Cardinality(OwnedBy(owners, subs, o)) - 1
                               /\ Cardinality(OwnedBy(owners, subs, o)) > 0
           /\ owners[s] # o => OwnedBy(owners, subs \ {s}, o) = OwnedBy(owners, subs, o)
           /\ Cardinality(OwnedBy(owners, subs, o)) \in Nat
<1>1. IsFiniteSet(OwnedBy(owners, subs, o))
  BY FS_Subset DEF OwnedBy
<1>2. owners[s] = o => s \in OwnedBy(owners, subs, o)
  BY DEF OwnedBy
<1>3. owners[s] = o => OwnedBy(owners, subs \ {s}, o) = OwnedBy(owners, subs, o) \ {s}
  BY DEF OwnedBy
<1>4. owners[s] # o => OwnedBy(owners, subs \ {s}, o) = OwnedBy(owners, subs, o)
  BY DEF OwnedBy
<1>5. Cardinality(OwnedBy(owners, subs, o)) \in Nat
  BY <1>1, FS_CardinalityType
<1>6. ASSUME owners[s] = o
      PROVE  /\ Cardinality(OwnedBy(owners, subs, o) \ {s}) = Cardinality(OwnedBy(owners, subs, o)) - 1
             /\ Cardinality(OwnedBy(owners, subs, o)) # 0
  BY <1>1, <1>2, <1>6, FS_RemoveElement, FS_EmptySet
<1> QED BY <1>3, <1>4, <1>5, <1>6

\* With no subscriber, no owner has any.
LEMMA NoneOwned ==
    ASSUME NEW owners, NEW o
    PROVE  Cardinality(OwnedBy(owners, {}, o)) = 0
<1>1. OwnedBy(owners, {}, o) = {}
  BY DEF OwnedBy
<1> QED BY <1>1, FS_EmptySet

\* What publishes want stays wanted and present, while their owners have subscribers.
LEMMA WantedStay ==
    ASSUME CloudflareTypes, WantedArePresent, cf' = cf, requests' = requests,
           isolate.left \subseteq isolate'.left,
           \A o \in Owners : isolate.member.owners[o] > 0 =>
                               isolate'.member.owners[o] > 0 \/ o \in isolate'.left,
           count'["refusals"] = 0 =>
               /\ count["refusals"] = 0
               /\ \A o \in kv : isolate.member.owners[o] > 0 => o \in kv' \/ o \in isolate'.left
               /\ isolate'.member.flushing /\ ~isolate.member.flushing =>
                    \A o \in Owners : isolate.member.owners[o] > 0 => o \in isolate'.left \/ o \in kv'
    PROVE  WantedArePresent'
<1> SUFFICES ASSUME NEW p \in CfPublishes
             PROVE  /\ \A o \in requests[p].wants :
                          isolate'.member.owners[o] > 0 \/ o \in isolate'.left
                    /\ count'["refusals"] = 0 /\ requests[p].quiet =>
                         /\ Unlisted(p)' => requests[p].wants \ isolate'.left \subseteq kv'
                         /\ requests[p].listed =>
                              requests[p].wants \ isolate'.left \subseteq requests[p].had
  BY NamesStay DEF WantedArePresent
<1>1. requests[p].wants \subseteq Owners
  BY DEF CloudflareTypes, Requests
<1>2. \A o \in requests[p].wants : isolate.member.owners[o] > 0 \/ o \in isolate.left
  BY DEF WantedArePresent
<1>3. \A o \in requests[p].wants : isolate'.member.owners[o] > 0 \/ o \in isolate'.left
  BY <1>1, <1>2
<1>4. ASSUME count'["refusals"] = 0, requests[p].quiet
      PROVE  /\ Unlisted(p)' => requests[p].wants \ isolate'.left \subseteq kv'
             /\ requests[p].listed =>
                  requests[p].wants \ isolate'.left \subseteq requests[p].had
  <2>1. /\ Unlisted(p) => requests[p].wants \ isolate.left \subseteq kv
        /\ requests[p].listed => requests[p].wants \ isolate.left \subseteq requests[p].had
    BY <1>4 DEF WantedArePresent
  <2>2. ASSUME Unlisted(p)', NEW o \in requests[p].wants, o \notin isolate'.left
        PROVE  o \in kv'
    <3>1. isolate.member.owners[o] > 0 /\ o \in Owners /\ o \notin isolate.left
      BY <1>1, <1>2, <2>2
    <3>2. CASE Unlisted(p)
      BY <1>4, <2>1, <2>2, <3>1, <3>2
    <3>3. CASE ~Unlisted(p)
      <4>1. isolate'.member.flushing /\ ~isolate.member.flushing
        BY <2>2, <3>3 DEF Unlisted
      <4> QED BY <1>4, <2>2, <3>1, <4>1
    <3> QED BY <3>2, <3>3
  <2> QED BY <2>1, <2>2
<1> QED BY <1>3, <1>4

\* Those of publishes that go on stay so too, and one that is made wants what is present.
LEMMA WantedGoOn ==
    ASSUME CloudflareTypes, WantedArePresent, cf' = cf, kv' = kv, isolate'.left = isolate.left,
           isolate'.member.owners = isolate.member.owners,
           count'["refusals"] = 0 => count["refusals"] = 0,
           \A p \in CfPublishes :
               \/ /\ requests'[p].wants = requests[p].wants /\ requests'[p].quiet = requests[p].quiet
                  /\ Unlisted(p)' => Unlisted(p)
                  /\ requests'[p].listed =>
                       \/ requests[p].listed /\ requests'[p].had = requests[p].had
                       \/ Unlisted(p) /\ requests'[p].had = kv
               \/ /\ \A o \in requests'[p].wants : isolate.member.owners[o] > 0 \/ o \in isolate.left
                  /\ ~requests'[p].listed
                  /\ count["refusals"] = 0 /\ requests'[p].quiet /\ Unlisted(p)' =>
                       requests'[p].wants \ isolate.left \subseteq kv
    PROVE  WantedArePresent'
<1> SUFFICES ASSUME NEW p \in CfPublishes
             PROVE  /\ \A o \in requests'[p].wants :
                          isolate'.member.owners[o] > 0 \/ o \in isolate'.left
                    /\ count'["refusals"] = 0 /\ requests'[p].quiet =>
                         /\ Unlisted(p)' => requests'[p].wants \ isolate'.left \subseteq kv'
                         /\ requests'[p].listed =>
                              requests'[p].wants \ isolate'.left \subseteq requests'[p].had
  BY NamesStay DEF WantedArePresent
<1>1. \A o \in requests[p].wants : isolate.member.owners[o] > 0 \/ o \in isolate.left
  BY DEF WantedArePresent
<1>2. count["refusals"] = 0 /\ requests[p].quiet =>
         /\ Unlisted(p) => requests[p].wants \ isolate.left \subseteq kv
         /\ requests[p].listed => requests[p].wants \ isolate.left \subseteq requests[p].had
  BY DEF WantedArePresent
<1>3. CASE /\ requests'[p].wants = requests[p].wants /\ requests'[p].quiet = requests[p].quiet
           /\ Unlisted(p)' => Unlisted(p)
           /\ requests'[p].listed =>
                \/ requests[p].listed /\ requests'[p].had = requests[p].had
                \/ Unlisted(p) /\ requests'[p].had = kv
  BY <1>1, <1>2, <1>3
<1>4. CASE /\ \A o \in requests'[p].wants : isolate.member.owners[o] > 0 \/ o \in isolate.left
           /\ ~requests'[p].listed
           /\ count["refusals"] = 0 /\ requests'[p].quiet /\ Unlisted(p)' =>
                requests'[p].wants \ isolate.left \subseteq kv
  BY <1>4
<1> QED BY <1>3, <1>4

\* What else holds of the presences, while publishes go on.
LEMMA PresencesStay ==
    ASSUME KeyInv, cf' = cf, kv' = kv, writes' = writes,
           isolate'.subs = isolate.subs, isolate'.left = isolate.left,
           isolate'.member.owners = isolate.member.owners,
           isolate'.member.exists = isolate.member.exists,
           isolate'.member.setups = isolate.member.setups,
           isolate'.member.flushing = isolate.member.flushing,
           isolate'.member.queued # <<>> =>
               isolate.member.setups > 0 \/ isolate.member.flushing,
           count'["joins"] >= count["joins"], count' \in [BoundNames -> Nat],
           count'["refusals"] = 0 => count["refusals"] = 0
    PROVE  OwnersCounted' /\ WritesAreOwned' /\ PresenceIsKept' /\ StateIsUsed'
<1>1. OwnersCounted'
  BY NamesStay DEF KeyInv, OwnersCounted
<1>2. WritesAreOwned'
  <2>1. \A w \in writes : w.n \in Nat
    BY DEF KeyInv, CloudflareTypes, Writes
  <2>2. count["joins"] \in Nat /\ count'["joins"] \in Nat
    BY DEF KeyInv, CloudflareTypes, BoundNames
  <2> QED BY <2>1, <2>2 DEF KeyInv, WritesAreOwned
<1>3. PresenceIsKept'
  BY NamesStay DEF KeyInv, PresenceIsKept
<1>4. StateIsUsed'
  <2>1. {w \in writes' : w.why = "setup"} = {w \in writes : w.why = "setup"}
    OBVIOUS
  <2> QED BY <2>1 DEF KeyInv, StateIsUsed
<1> QED BY <1>1, <1>2, <1>3, <1>4


\* A subscriber that joins an owner.
LEMMA AddKeeps ==
    ASSUME KeyInv, NEW s \in Subscribers, AddSubscriber(s)
    PROVE  KeyInv'
<1> DEFINE owner == cf.owners[s]
           m     == isolate.member
           first == m.owners[owner] = 0
           w     == Write("put", owner, "setup", count["joins"])
<1>1. /\ cf' = cf /\ kv' = kv /\ requests' = requests /\ authority' = authority
      /\ s \notin isolate.subs /\ Counts("joins")
      /\ isolate' = [isolate EXCEPT !.subs = @ \cup {s}, !.member.exists = TRUE,
                                    !.member.owners[owner] = @ + 1,
                                    !.member.setups = IF first THEN @ + 1 ELSE @]
      /\ writes' = IF first THEN writes \cup {w} ELSE writes
  BY DEF AddSubscriber
<1>2. owner \in Owners
  BY DEF Owners
<1>3. /\ isolate \in [subs : SUBSET Subscribers, member : Members, run : Int, left : SUBSET Owners]
      /\ m \in Members /\ m.owners \in [Owners -> Nat] /\ m.owners[owner] \in Nat /\ m.setups \in Nat
      /\ m.exists \in BOOLEAN /\ m.flushing \in BOOLEAN /\ m.queued \in Seq(CfPublishes)
      /\ IsFiniteSet(isolate.subs) /\ IsFiniteSet(writes) /\ writes \subseteq Writes
      /\ count \in [BoundNames -> Nat] /\ count["joins"] \in Nat
  BY <1>2 DEF KeyInv, CloudflareTypes, Members, BoundNames
<1>4. /\ count' \in [BoundNames -> Nat] /\ count'["joins"] = count["joins"] + 1
      /\ count'["refusals"] = 0 => count["refusals"] = 0
  BY <1>1, <1>3, CountedOne DEF BoundNames
<1>a. s \notin isolate.subs /\ IsFiniteSet(isolate.subs)
  BY <1>1, <1>3
<1>5. /\ isolate'.subs = isolate.subs \cup {s} /\ isolate'.left = isolate.left
      /\ isolate'.member.exists = TRUE
      /\ isolate'.member.owners = [m.owners EXCEPT ![owner] = @ + 1]
      /\ isolate'.member.setups = IF first THEN m.setups + 1 ELSE m.setups
      /\ isolate'.member.queued = m.queued /\ isolate'.member.flushing = m.flushing
  BY <1>1, <1>2, <1>3, ZenonT(180) DEF Members
<1>b. isolate' \in [subs : SUBSET Subscribers, member : Members, run : Int, left : SUBSET Owners]
  <2> DEFINE n == [m EXCEPT !.exists = TRUE, !.owners[owner] = @ + 1,
                            !.setups = IF first THEN @ + 1 ELSE @]
  <2>1. n \in Members
    <3>1. [m.owners EXCEPT ![owner] = @ + 1] \in [Owners -> Nat]
      <4>1. m.owners[owner] + 1 \in Nat
        BY <1>3
      <4> QED BY <1>3, <4>1
    <3>2. (IF first THEN m.setups + 1 ELSE m.setups) \in Nat
      BY <1>3
    <3>3. n = [m EXCEPT !.exists = TRUE, !.owners = [m.owners EXCEPT ![owner] = @ + 1],
                        !.setups = IF first THEN m.setups + 1 ELSE m.setups]
      BY <1>3 DEF Members
    <3> QED BY <1>3, <3>1, <3>2, <3>3 DEF Members
  <2>2. isolate' = [isolate EXCEPT !.subs = @ \cup {s}, !.member = n]
    BY <1>1, <1>2, <1>3 DEF Members
  <2> HIDE DEF n
  <2> QED BY <1>3, <2>1, <2>2
<1>6. /\ w.why = "setup" /\ w.op = "put" /\ w.n = count["joins"] /\ w.owner = owner /\ w \in Writes
  BY <1>2, <1>3 DEF Write, Writes
<1>7. /\ isolate'.member.owners[owner] = m.owners[owner] + 1
      /\ \A o \in Owners : o # owner => isolate'.member.owners[o] = m.owners[o]
      /\ \A o \in Owners : m.owners[o] > 0 => isolate'.member.owners[o] > 0
  BY <1>2, <1>3, <1>5
<1> HIDE DEF w, owner, m
<1>8. CloudflareTypes'
  <2>1. writes' \subseteq Writes /\ IsFiniteSet(writes')
    BY <1>1, <1>3, <1>6, FS_AddElement
  <2>2. IsFiniteSet(isolate'.subs)
    <3>1. IsFiniteSet(isolate.subs \cup {s})
      BY <1>a, FS_AddElement
    <3> QED BY <1>5, <3>1
  <2> QED BY <1>1, <1>4, <1>b, <2>1, <2>2, NamesStay DEF KeyInv, CloudflareTypes
<1>9. OwnersCounted'
  <2>1. ASSUME NEW o \in Owners
        PROVE  isolate'.member.owners[o] = Cardinality(OwnedBy(cf.owners, isolate.subs \cup {s}, o))
    <3>1. m.owners[o] = Cardinality(OwnedBy(cf.owners, isolate.subs, o))
      BY DEF KeyInv, OwnersCounted, m
    <3>2. /\ owner = o => Cardinality(OwnedBy(cf.owners, isolate.subs \cup {s}, o))
                            = Cardinality(OwnedBy(cf.owners, isolate.subs, o)) + 1
          /\ owner # o => OwnedBy(cf.owners, isolate.subs \cup {s}, o)
                            = OwnedBy(cf.owners, isolate.subs, o)
      BY <1>a, OwnedJoins DEF owner
    <3> QED BY <1>7, <3>1, <3>2
  <2> QED BY <1>1, <1>5, <2>1, NamesStay, SMTT(180) DEF OwnersCounted
<1>10. WritesAreOwned'
  <2>1. \A v \in writes : v.n \in Nat /\ v.owner \in Owners
    BY <1>3 DEF Writes
  <2>2. \A v \in writes :
          /\ v.why = "setup" => /\ v.op = "put" /\ v.n < count["joins"]
                                /\ m.owners[v.owner] > 0 \/ v.owner \in isolate.left
          /\ v.op = "delete" => v.owner \in isolate.left
    BY DEF KeyInv, WritesAreOwned, m
  <2>3. ASSUME NEW v \in writes'
        PROVE  /\ v.why = "setup" => /\ v.op = "put" /\ v.n < count'["joins"]
                                     /\ isolate'.member.owners[v.owner] > 0 \/ v.owner \in isolate'.left
               /\ v.op = "delete" => v.owner \in isolate'.left
    <3>1. CASE v \in writes
      BY <1>3, <1>4, <1>5, <1>7, <2>1, <2>2, <3>1, SMTT(180)
    <3>2. CASE v \notin writes
      <4>1. v = w
        BY <1>1, <3>2
      <4> QED BY <1>3, <1>4, <1>6, <1>7, <4>1, SMTT(180)
    <3> QED BY <3>1, <3>2
  <2> QED BY <2>3 DEF WritesAreOwned
<1>11. PresenceIsKept'
  <2>1. ASSUME count'["refusals"] = 0, NEW o \in Owners, isolate'.member.owners[o] > 0
        PROVE  \/ o \in isolate'.left \/ o \in kv'
               \/ \E v \in writes' : v.why = "setup" /\ v.owner = o
    <3>1. CASE m.owners[o] > 0
      BY <1>1, <1>4, <1>5, <2>1, <3>1 DEF KeyInv, PresenceIsKept, m
    <3>2. CASE ~(m.owners[o] > 0)
      <4>1. o = owner /\ first
        BY <1>3, <1>7, <2>1, <3>2
      <4> QED BY <1>1, <1>6, <4>1
    <3> QED BY <3>1, <3>2
  <2> QED BY <1>1, <2>1, NamesStay DEF PresenceIsKept
<1>12. PlacesHold'
  <2>1. isolate'.member.queued = isolate.member.queued /\ CfPublishes' = CfPublishes
        /\ requests' = requests /\ authority' = authority
    BY <1>1, <1>5, NamesStay DEF m
  <2> QED BY <2>1 DEF KeyInv, PlacesHold
<1>13. WantedArePresent'
  <2>1. CloudflareTypes /\ WantedArePresent
    BY DEF KeyInv
  <2>2. \A o \in Owners : isolate.member.owners[o] > 0 => isolate'.member.owners[o] > 0
    BY <1>7 DEF m
  <2>3. isolate'.member.flushing = isolate.member.flushing
    BY <1>5 DEF m
  <2> QED BY <1>1, <1>4, <1>5, <2>1, <2>2, <2>3, WantedStay
<1>14. StateIsUsed'
  <2>1. /\ m.queued # <<>> => m.setups > 0 \/ m.flushing
        /\ m.setups = Cardinality({v \in writes : v.why = "setup"})
    BY DEF KeyInv, StateIsUsed, m
  <2>2. isolate'.member.setups = Cardinality({v \in writes' : v.why = "setup"})
    <3>1. CASE first
      <4>1. w \notin writes
        <5>1. \A v \in writes : v.why = "setup" => v.n < count["joins"]
          BY DEF KeyInv, WritesAreOwned
        <5> QED BY <1>3, <1>6, <5>1
      <4>2. {v \in writes' : v.why = "setup"} = {v \in writes : v.why = "setup"} \cup {w}
        BY <1>1, <1>6, <3>1
      <4>3. IsFiniteSet({v \in writes : v.why = "setup"})
        BY <1>3, FS_Subset
      <4>4. w \notin {v \in writes : v.why = "setup"}
        BY <4>1
      <4>5. Cardinality({v \in writes : v.why = "setup"} \cup {w})
              = Cardinality({v \in writes : v.why = "setup"}) + 1
        BY <4>3, <4>4, FS_AddElement
      <4> QED BY <1>5, <2>1, <3>1, <4>2, <4>5
    <3>2. CASE ~first
      BY <1>1, <1>5, <2>1, <3>2
    <3> QED BY <3>1, <3>2
  <2>3. isolate'.subs # {}
    BY <1>5
  <2>4. isolate'.member.setups \in Nat /\ isolate'.member.setups >= m.setups
    BY <1>3, <1>5
  <2>5. isolate'.member.queued # <<>> => isolate'.member.setups > 0 \/ isolate'.member.flushing
    BY <1>3, <1>5, <2>1, <2>4
  <2> QED BY <2>2, <2>3, <2>5 DEF StateIsUsed
<1> QED BY <1>8, <1>9, <1>10, <1>11, <1>12, <1>13, <1>14 DEF KeyInv

\* The last subscriber's release.
LEMMA RemoveKeeps ==
    ASSUME KeyInv, NEW s \in Subscribers, RemoveSubscriber(s)
    PROVE  KeyInv'
<1> DEFINE owner == cf.owners[s]
           m     == isolate.member
           less  == [m EXCEPT !.owners[owner] = @ - 1]
           subs  == isolate.subs \ {s}
           t     == TearDown(less, subs)
           w     == Write("delete", owner, "release", count["leaves"])
<1>1. /\ cf' = cf /\ kv' = kv /\ requests' = requests /\ authority' = authority
      /\ s \in isolate.subs /\ Counts("leaves")
      /\ isolate' = [isolate EXCEPT !.subs = subs, !.member = t,
                                    !.left = IF less.owners[owner] = 0 THEN @ \cup {owner} ELSE @]
      /\ writes' = IF less.owners[owner] = 0 THEN writes \cup {w} ELSE writes
  BY DEF RemoveSubscriber
<1>2. owner \in Owners
  BY DEF Owners
<1>3. /\ isolate \in [subs : SUBSET Subscribers, member : Members, run : Int, left : SUBSET Owners]
      /\ m \in Members /\ m.owners \in [Owners -> Nat] /\ m.owners[owner] \in Nat /\ m.setups \in Nat
      /\ m.exists \in BOOLEAN /\ m.flushing \in BOOLEAN /\ m.queued \in Seq(CfPublishes)
      /\ IsFiniteSet(isolate.subs) /\ IsFiniteSet(writes) /\ writes \subseteq Writes
      /\ count \in [BoundNames -> Nat] /\ count["joins"] \in Nat /\ count["leaves"] \in Nat
  BY <1>2 DEF KeyInv, CloudflareTypes, Members, BoundNames
<1>4. /\ count' \in [BoundNames -> Nat] /\ count'["joins"] \in Nat /\ count'["joins"] >= count["joins"]
      /\ count'["refusals"] = 0 => count["refusals"] = 0
  BY <1>1, <1>3, CountedOne DEF BoundNames
<1>a. s \in isolate.subs /\ IsFiniteSet(isolate.subs)
  BY <1>1, <1>3
<1>5. m.owners[owner] > 0
  <2>1. m.owners[owner] = Cardinality(OwnedBy(cf.owners, isolate.subs, owner))
    BY <1>2 DEF KeyInv, OwnersCounted
  <2>2. Cardinality(OwnedBy(cf.owners, isolate.subs, owner)) > 0
    BY <1>a, OwnedLeaves
  <2> QED BY <2>1, <2>2
<1>b. [m.owners EXCEPT ![owner] = @ - 1] \in [Owners -> Nat]
  <2>1. m.owners[owner] - 1 \in Nat
    BY <1>3, <1>5
  <2> QED BY <1>3, <2>1
<1>c. less = [m EXCEPT !.owners = [m.owners EXCEPT ![owner] = @ - 1]]
  BY <1>3 DEF Members
<1>d. less \in Members
  BY <1>3, <1>b, <1>c DEF Members
<1>6. /\ less \in Members /\ less.owners = [m.owners EXCEPT ![owner] = @ - 1]
      /\ less.owners[owner] = m.owners[owner] - 1 /\ less.exists = m.exists
      /\ \A o \in Owners : o # owner => less.owners[o] = m.owners[o]
      /\ less.setups = m.setups /\ less.queued = m.queued /\ less.flushing = m.flushing
  BY <1>2, <1>3, <1>5, <1>c, <1>d DEF Members
<1>7. w \in Writes /\ w.op = "delete" /\ w.why = "release" /\ w.owner = owner
  BY <1>2, <1>3 DEF Write, Writes
<1> HIDE DEF w, owner, m, less, t
<1>8. ASSUME NEW o \in Owners
      PROVE  less.owners[o] = Cardinality(OwnedBy(cf.owners, subs, o))
  <2>1. m.owners[o] = Cardinality(OwnedBy(cf.owners, isolate.subs, o))
    BY DEF KeyInv, OwnersCounted, m
  <2>2. /\ owner = o => Cardinality(OwnedBy(cf.owners, subs, o))
                          = Cardinality(OwnedBy(cf.owners, isolate.subs, o)) - 1
        /\ owner # o => OwnedBy(cf.owners, subs, o) = OwnedBy(cf.owners, isolate.subs, o)
    BY <1>a, OwnedLeaves DEF owner
  <2> QED BY <1>6, <2>1, <2>2
<1>9. /\ t \in Members /\ t.owners = less.owners /\ t.queued = m.queued
      /\ t.setups = m.setups /\ t.flushing = m.flushing
      /\ t.exists => subs # {} \/ t.setups > 0 \/ t.flushing
      /\ subs # {} \/ m.setups > 0 \/ m.flushing => t.exists
  <2>1. m.queued # <<>> => m.setups > 0 \/ m.flushing
    BY DEF KeyInv, StateIsUsed, m
  <2>2. subs = {} => \A o \in Owners : less.owners[o] = 0
    BY <1>8, NoneOwned
  <2>3. subs # {} \/ less.setups > 0 \/ less.flushing => less.exists
    BY <1>6 DEF KeyInv, OwnersCounted, m
  <2>4. less \in Members /\ (less.queued # <<>> => less.setups > 0 \/ less.flushing)
    BY <1>6, <2>1
  <2>5. /\ t \in Members /\ t.owners = less.owners /\ t.queued = less.queued
        /\ t.setups = less.setups /\ t.flushing = less.flushing
        /\ t.exists => subs # {} \/ less.setups > 0 \/ less.flushing
        /\ subs # {} \/ less.setups > 0 \/ less.flushing => t.exists
    <3> HIDE DEF subs
    <3> QED BY <2>2, <2>3, <2>4, TearDownDoes DEF t
  <2> QED BY <1>6, <2>5
<1>10. /\ isolate'.subs = subs /\ isolate'.member = t
       /\ isolate'.left = IF less.owners[owner] = 0 THEN isolate.left \cup {owner} ELSE isolate.left
       /\ isolate' \in [subs : SUBSET Subscribers, member : Members, run : Int, left : SUBSET Owners]
  BY <1>1, <1>2, <1>3, <1>9
<1>11. \A o \in Owners : m.owners[o] > 0 => t.owners[o] > 0 \/ o \in isolate'.left
  BY <1>3, <1>6, <1>9, <1>10
<1>12. \A v \in writes' : v \in writes \/ (v = w /\ owner \in isolate'.left)
  BY <1>1, <1>10
<1>13. CloudflareTypes'
  <2>1. writes' \subseteq Writes /\ IsFiniteSet(writes')
    BY <1>1, <1>3, <1>7, FS_AddElement
  <2>2. IsFiniteSet(isolate'.subs)
    BY <1>3, <1>10, FS_Subset
  <2> QED BY <1>1, <1>4, <1>10, <2>1, <2>2, NamesStay DEF KeyInv, CloudflareTypes
<1>14. OwnersCounted'
  BY <1>1, <1>8, <1>9, <1>10, NamesStay DEF OwnersCounted
<1>15. WritesAreOwned'
  <2>1. \A v \in writes : v.n \in Nat /\ v.owner \in Owners
    BY <1>3 DEF Writes
  <2>2. \A v \in writes :
          /\ v.why = "setup" => /\ v.op = "put" /\ v.n < count["joins"]
                                /\ m.owners[v.owner] > 0 \/ v.owner \in isolate.left
          /\ v.op = "delete" => v.owner \in isolate.left
    BY DEF KeyInv, WritesAreOwned, m
  <2>3. isolate.left \subseteq isolate'.left
    BY <1>10
  <2>4. ASSUME NEW v \in writes'
        PROVE  /\ v.why = "setup" => /\ v.op = "put" /\ v.n < count'["joins"]
                                     /\ t.owners[v.owner] > 0 \/ v.owner \in isolate'.left
               /\ v.op = "delete" => v.owner \in isolate'.left
    <3>1. CASE v \in writes
      BY <1>3, <1>4, <1>11, <2>1, <2>2, <2>3, <3>1, SMTT(180)
    <3>2. CASE v \notin writes
      BY <1>7, <1>12, <3>2
    <3> QED BY <3>1, <3>2
  <2> QED BY <1>10, <2>4 DEF WritesAreOwned
<1>16. PresenceIsKept'
  <2>1. ASSUME count'["refusals"] = 0, NEW o \in Owners, t.owners[o] > 0
        PROVE  \/ o \in isolate'.left \/ o \in kv'
               \/ \E v \in writes' : v.why = "setup" /\ v.owner = o
    <3>1. m.owners[o] > 0
      BY <1>3, <1>5, <1>6, <1>9, <2>1
    <3>2. \/ o \in isolate.left \/ o \in kv
          \/ \E v \in writes : v.why = "setup" /\ v.owner = o
      BY <1>4, <2>1, <3>1 DEF KeyInv, PresenceIsKept, m
    <3> QED BY <1>1, <1>10, <3>2
  <2> QED BY <1>1, <1>10, <2>1, NamesStay DEF PresenceIsKept
<1>17. PlacesHold'
  BY <1>1, <1>9, <1>10, NamesStay DEF KeyInv, PlacesHold, m
<1>18. WantedArePresent'
  <2>1. CloudflareTypes /\ WantedArePresent
    BY DEF KeyInv
  <2>2. \A o \in Owners : isolate.member.owners[o] > 0 =>
            isolate'.member.owners[o] > 0 \/ o \in isolate'.left
    BY <1>10, <1>11 DEF m
  <2>3. isolate'.member.flushing = isolate.member.flushing /\ isolate.left \subseteq isolate'.left
    BY <1>9, <1>10 DEF m
  <2> QED BY <1>1, <1>4, <2>1, <2>2, <2>3, WantedStay
<1>19. StateIsUsed'
  <2>1. {v \in writes' : v.why = "setup"} = {v \in writes : v.why = "setup"}
    BY <1>1, <1>7
  <2>2. /\ m.queued # <<>> => m.setups > 0 \/ m.flushing
        /\ m.setups = Cardinality({v \in writes : v.why = "setup"})
    BY DEF KeyInv, StateIsUsed, m
  <2> QED BY <1>9, <1>10, <2>1, <2>2 DEF StateIsUsed
<1> QED BY <1>13, <1>14, <1>15, <1>16, <1>17, <1>18, <1>19 DEF KeyInv


\* A setup that ends: the last one flushes, or the state goes.
LEMMA SetupDoneDoes ==
    ASSUME NEW m \in Members, NEW subs, m.setups > 0,
           subs = {} => \A o \in Owners : m.owners[o] = 0,
           m.exists
    PROVE  /\ SetupDone(m, subs) \in Members /\ SetupDone(m, subs).owners = m.owners
           /\ SetupDone(m, subs).queued = m.queued /\ SetupDone(m, subs).setups = m.setups - 1
           /\ m.flushing => SetupDone(m, subs).flushing
           /\ SetupDone(m, subs).flushing /\ ~m.flushing => m.setups = 1
           /\ m.queued # <<>> => m.setups > 1 \/ SetupDone(m, subs).flushing
           /\ SetupDone(m, subs).exists => \/ subs # {} \/ m.setups > 1
                                           \/ SetupDone(m, subs).flushing
           /\ subs # {} \/ m.setups > 1 \/ SetupDone(m, subs).flushing => SetupDone(m, subs).exists
<1> DEFINE done == [m EXCEPT !.setups = @ - 1]
           fresh == [done EXCEPT !.refreshes = TRUE]
           flush == [done EXCEPT !.refreshes = TRUE, !.flushing = TRUE]
<1>1. /\ m.setups \in Nat /\ m.owners \in [Owners -> Nat] /\ m.flushing \in BOOLEAN
      /\ m.exists \in BOOLEAN /\ m.queued \in Seq(CfPublishes)
  BY DEF Members
<1>2. /\ done \in Members /\ done.owners = m.owners /\ done.queued = m.queued
      /\ done.setups = m.setups - 1 /\ done.flushing = m.flushing /\ done.exists = m.exists
  <2>1. m.setups - 1 \in Nat
    BY <1>1
  <2>2. done = [m EXCEPT !.setups = m.setups - 1]
    OBVIOUS
  <2> QED BY <2>1, <2>2 DEF Members
<1>3. /\ fresh \in Members /\ fresh.owners = m.owners /\ fresh.queued = m.queued
      /\ fresh.setups = m.setups - 1 /\ fresh.flushing = m.flushing /\ fresh.exists = m.exists
  <2> HIDE DEF done
  <2> QED BY <1>2 DEF Members
<1>4. /\ flush \in Members /\ flush.owners = m.owners /\ flush.queued = m.queued
      /\ flush.setups = m.setups - 1 /\ flush.flushing = TRUE /\ flush.exists = m.exists
  <2> HIDE DEF done
  <2> QED BY <1>2 DEF Members
<1>5. SetupDone(m, subs) = IF done.setups > 0 THEN done
                           ELSE IF done.queued # <<>> \/ done.flushing THEN flush
                           ELSE TearDown(fresh, subs)
  BY DEF SetupDone
<1> HIDE DEF done, fresh, flush
<1>6. CASE done.setups > 0
  <2>1. SetupDone(m, subs) = done /\ m.setups > 1
    BY <1>1, <1>2, <1>5, <1>6
  <2> QED BY <1>1, <1>2, <2>1
<1>7. CASE ~(done.setups > 0) /\ (done.queued # <<>> \/ done.flushing)
  <2>1. SetupDone(m, subs) = flush /\ m.setups = 1
    BY <1>1, <1>2, <1>5, <1>7
  <2> QED BY <1>1, <1>4, <2>1
<1>8. CASE ~(done.setups > 0) /\ ~(done.queued # <<>> \/ done.flushing)
  <2>1. SetupDone(m, subs) = TearDown(fresh, subs) /\ m.setups = 1
    BY <1>1, <1>2, <1>5, <1>8
  <2>2. fresh.queued = <<>> /\ fresh.flushing = FALSE /\ m.flushing = FALSE /\ fresh.setups = 0
    BY <1>1, <1>2, <1>3, <1>8, <2>1
  <2>3. /\ TearDown(fresh, subs) \in Members /\ TearDown(fresh, subs).owners = fresh.owners
        /\ TearDown(fresh, subs).queued = fresh.queued
        /\ TearDown(fresh, subs).setups = fresh.setups
        /\ TearDown(fresh, subs).flushing = fresh.flushing
        /\ TearDown(fresh, subs).exists => subs # {} \/ fresh.setups > 0 \/ fresh.flushing
        /\ subs # {} \/ fresh.setups > 0 \/ fresh.flushing => TearDown(fresh, subs).exists
    <3>1. subs = {} => \A o \in Owners : fresh.owners[o] = 0
      BY <1>3
    <3>2. fresh.exists
      BY <1>3
    <3> QED BY <1>3, <2>2, <3>1, <3>2, TearDownDoes
  <2> QED BY <1>1, <1>3, <2>1, <2>2, <2>3
<1> QED BY <1>6, <1>7, <1>8

\* A write ends: a setup's may be the last.
LEMMA WriteEndsKeeps ==
    ASSUME KeyInv, NEW w \in writes, WriteEnds(w)
    PROVE  KeyInv'
<1> DEFINE m == isolate.member
           subs == isolate.subs
           done == SetupDone(m, subs)
           more == SetupRemoves(m, w)
           setup == w.why = "setup"
<1>1. /\ cf' = cf /\ requests' = requests /\ authority' = authority
      /\ ~setup => writes' = writes \ {w} /\ isolate' = isolate
      /\ setup => /\ writes' = (writes \ {w}) \cup more
                  /\ isolate' = [isolate EXCEPT !.member = done]
  BY DEF WriteEnds
<1>2. /\ isolate \in [subs : SUBSET Subscribers, member : Members, run : Int, left : SUBSET Owners]
      /\ m \in Members /\ m.owners \in [Owners -> Nat] /\ m.setups \in Nat
      /\ m.exists \in BOOLEAN /\ m.flushing \in BOOLEAN
      /\ IsFiniteSet(isolate.subs) /\ IsFiniteSet(writes) /\ writes \subseteq Writes
      /\ count \in [BoundNames -> Nat] /\ count["joins"] \in Nat
      /\ w.owner \in Owners /\ kv \subseteq Owners /\ w.op \in {"put", "delete"} /\ w.n \in Nat
  BY DEF KeyInv, CloudflareTypes, Members, BoundNames, Writes
<1>3. \/ count' = count /\ kv' = Applied(w, FALSE)
      \/ Counts("refusals") /\ kv' = Applied(w, TRUE)
  BY DEF WriteEnds
<1>4. /\ count' \in [BoundNames -> Nat] /\ count'["joins"] \in Nat /\ count'["joins"] >= count["joins"]
      /\ count'["refusals"] = 0 => /\ count["refusals"] = 0
                                   /\ kv' = IF w.op = "put" THEN kv \cup {w.owner} ELSE kv \ {w.owner}
      /\ kv' \subseteq Owners
  <2>1. CASE count' = count /\ kv' = Applied(w, FALSE)
    BY <1>2, <2>1 DEF Applied
  <2>2. CASE Counts("refusals") /\ kv' = Applied(w, TRUE)
    <3>1. /\ count' \in [BoundNames -> Nat] /\ count'["joins"] >= count["joins"]
          /\ count'["refusals"] # 0
      BY <1>2, <2>2, CountedOne DEF BoundNames
    <3>2. kv' = kv
      BY <2>2 DEF Applied
    <3> QED BY <1>2, <3>1, <3>2 DEF BoundNames
  <2> QED BY <1>3, <2>1, <2>2
<1>5. /\ subs = {} => \A o \in Owners : m.owners[o] = 0
      /\ subs # {} \/ m.setups > 0 \/ m.flushing => m.exists
      /\ m.queued # <<>> => m.setups > 0 \/ m.flushing
      /\ m.exists => subs # {} \/ m.setups > 0 \/ m.flushing
      /\ m.setups = Cardinality({v \in writes : v.why = "setup"})
  BY NoneOwned, ZenonT(180) DEF KeyInv, OwnersCounted, StateIsUsed
<1>6. \A v \in writes :
          /\ v.why = "setup" => /\ v.op = "put" /\ v.n < count["joins"]
                                /\ m.owners[v.owner] > 0 \/ v.owner \in isolate.left
          /\ v.op = "delete" => v.owner \in isolate.left
          /\ v.n \in Nat
  BY <1>2 DEF KeyInv, WritesAreOwned, Writes
<1>7. \A v \in more : /\ v \in Writes /\ v.op = "delete" /\ v.why = "setup's" /\ v.owner = w.owner
                      /\ m.owners[w.owner] = 0
  BY <1>2 DEF SetupRemoves, Write, Writes
<1>8. IsFiniteSet(more)
  BY FS_EmptySet, FS_Singleton DEF SetupRemoves
<1>9. IsFiniteSet({v \in writes : v.why = "setup"}) /\ IsFiniteSet(writes \ {w})
  BY <1>2, FS_Subset
<1>10. setup => m.setups > 0
  <2>1. SUFFICES ASSUME setup PROVE m.setups # 0
    BY <1>2
  <2>2. w \in {v \in writes : v.why = "setup"}
    BY <2>1
  <2>3. Cardinality({v \in writes : v.why = "setup"}) # 0
    BY <1>9, <2>2, FS_EmptySet
  <2> QED BY <1>5, <2>3
<1>11. setup => {v \in writes' : v.why = "setup"} = {v \in writes : v.why = "setup"} \ {w}
  <2> HIDE DEF more
  <2> QED BY <1>1, <1>7
<1>12. setup => Cardinality({v \in writes' : v.why = "setup"}) = m.setups - 1
  <2>1. SUFFICES ASSUME setup
                 PROVE  Cardinality({v \in writes : v.why = "setup"} \ {w}) = m.setups - 1
    BY <1>11
  <2>2. w \in {v \in writes : v.why = "setup"}
    BY <2>1
  <2> QED BY <1>5, <1>9, <2>2, FS_RemoveElement, ZenonT(180)
<1>13. ~setup => {v \in writes' : v.why = "setup"} = {v \in writes : v.why = "setup"}
  BY <1>1
<1>14. setup => /\ done \in Members /\ done.owners = m.owners
                /\ done.queued = m.queued /\ done.setups = m.setups - 1
                /\ m.flushing => done.flushing
                /\ done.flushing /\ ~m.flushing => m.setups = 1
                /\ m.queued # <<>> => m.setups > 1 \/ done.flushing
                /\ done.exists => subs # {} \/ m.setups > 1 \/ done.flushing
                /\ subs # {} \/ m.setups > 1 \/ done.flushing => done.exists
  <2> HIDE DEF m, subs
  <2> QED BY <1>2, <1>5, <1>10, SetupDoneDoes
<1> HIDE DEF done, more
<1>15. /\ isolate'.subs = subs /\ isolate'.left = isolate.left
       /\ isolate'.member = IF setup THEN done ELSE m
       /\ isolate'.member.owners = m.owners /\ isolate'.member.queued = m.queued
       /\ isolate' \in [subs : SUBSET Subscribers, member : Members, run : Int, left : SUBSET Owners]
  <2>1. CASE setup
    BY <1>1, <1>2, <1>14, <2>1
  <2>2. CASE ~setup
    BY <1>1, <1>2, <2>2
  <2> QED BY <2>1, <2>2
<1>16. writes' \subseteq Writes /\ IsFiniteSet(writes')
  <2>1. IsFiniteSet((writes \ {w}) \cup more)
    BY <1>8, <1>9, FS_Union
  <2> QED BY <1>1, <1>2, <1>7, <1>9, <2>1
<1>17. CloudflareTypes'
  <2>1. IsFiniteSet(isolate'.subs)
    BY <1>2, <1>15
  <2> QED BY <1>1, <1>4, <1>15, <1>16, <2>1, NamesStay DEF KeyInv, CloudflareTypes
<1>18. OwnersCounted'
  <2>1. \A o \in Owners : m.owners[o] = Cardinality(OwnedBy(cf.owners, subs, o))
    BY DEF KeyInv, OwnersCounted
  <2>2. isolate'.subs # {} \/ isolate'.member.setups > 0 \/ isolate'.member.flushing =>
            isolate'.member.exists
    <3>1. CASE setup
      BY <1>2, <1>14, <1>15, <3>1
    <3>2. CASE ~setup
      BY <1>5, <1>15, <3>2
    <3> QED BY <3>1, <3>2
  <2> QED BY <1>1, <1>15, <2>1, <2>2, NamesStay DEF OwnersCounted
<1>19. \A v \in writes' : v \in writes \/ (setup /\ v \in more)
  BY <1>1
<1>20. WritesAreOwned'
  <2>1. ASSUME NEW v \in writes'
        PROVE  /\ v.why = "setup" => /\ v.op = "put" /\ v.n < count'["joins"]
                                     /\ m.owners[v.owner] > 0 \/ v.owner \in isolate.left
               /\ v.op = "delete" => v.owner \in isolate.left
    <3>1. CASE v \in writes
      BY <1>2, <1>4, <1>6, <3>1
    <3>2. CASE setup /\ v \in more
      BY <1>2, <1>6, <1>7, <3>2
    <3> QED BY <1>19, <3>1, <3>2
  <2> QED BY <1>15, <2>1 DEF WritesAreOwned
<1>21. ASSUME count'["refusals"] = 0, NEW o \in Owners, m.owners[o] > 0, o \notin isolate.left
       PROVE  /\ \/ o \in kv'
                 \/ \E v \in writes' : v.why = "setup" /\ v.owner = o
              /\ o \in kv => o \in kv'
  <2>1. o \in kv => o \in kv'
    BY <1>2, <1>4, <1>6, <1>21
  <2>2. o \in kv \/ \E v \in writes : v.why = "setup" /\ v.owner = o
    BY <1>4, <1>21 DEF KeyInv, PresenceIsKept
  <2>3. ASSUME NEW v \in writes, v.why = "setup", v.owner = o
        PROVE  o \in kv' \/ v \in writes'
    <3>1. CASE v = w
      <4>1. w.op = "put" /\ o = w.owner
        BY <1>6, <2>3, <3>1
      <4> QED BY <1>4, <1>21, <4>1
    <3>2. CASE v # w
      BY <1>1, <3>2
    <3> QED BY <3>1, <3>2
  <2> QED BY <2>1, <2>2, <2>3
<1>22. PresenceIsKept'
  BY <1>1, <1>15, <1>21, NamesStay DEF PresenceIsKept
<1>23. PlacesHold'
  <2>1. isolate'.member.queued = isolate.member.queued /\ CfPublishes' = CfPublishes
        /\ requests' = requests /\ authority' = authority
    BY <1>1, <1>15, NamesStay
  <2> QED BY <2>1 DEF KeyInv, PlacesHold
<1>24. WantedArePresent'
  <2>1. CloudflareTypes /\ WantedArePresent
    BY DEF KeyInv
  <2>2. ASSUME isolate'.member.flushing, ~m.flushing
        PROVE  {v \in writes' : v.why = "setup"} = {}
    <3>1. setup /\ m.setups = 1
      BY <1>14, <1>15, <2>2
    <3>2. IsFiniteSet({v \in writes' : v.why = "setup"})
      BY <1>16, FS_Subset
    <3>3. Cardinality({v \in writes' : v.why = "setup"}) = 0
      BY <1>12, <3>1
    <3> QED BY <3>2, <3>3, FS_EmptySet
  <2>3. ASSUME count'["refusals"] = 0, isolate'.member.flushing, ~m.flushing, NEW o \in Owners,
               m.owners[o] > 0
        PROVE  o \in isolate'.left \/ o \in kv'
    BY <1>15, <1>21, <2>2, <2>3
  <2>4. count'["refusals"] = 0 =>
          /\ count["refusals"] = 0
          /\ \A o \in kv : isolate.member.owners[o] > 0 => o \in kv' \/ o \in isolate'.left
          /\ isolate'.member.flushing /\ ~isolate.member.flushing =>
               \A o \in Owners : isolate.member.owners[o] > 0 => o \in isolate'.left \/ o \in kv'
    BY <1>2, <1>4, <1>15, <1>21, <2>3
  <2>5. /\ isolate.left \subseteq isolate'.left
        /\ \A o \in Owners : isolate.member.owners[o] > 0 =>
                               isolate'.member.owners[o] > 0 \/ o \in isolate'.left
    BY <1>15
  <2> QED BY <1>1, <2>1, <2>4, <2>5, WantedStay
<1>25. StateIsUsed'
  <2>1. CASE setup
    BY <1>2, <1>12, <1>14, <1>15, <2>1 DEF StateIsUsed
  <2>2. CASE ~setup
    BY <1>5, <1>13, <1>15, <2>2 DEF StateIsUsed
  <2> QED BY <2>1, <2>2
<1> QED BY <1>17, <1>18, <1>20, <1>22, <1>23, <1>24, <1>25 DEF KeyInv

\* The interval writes every presence again.
LEMMA RefreshKeeps ==
    ASSUME KeyInv, Refresh
    PROVE  KeyInv'
<1>1. /\ cf' = cf /\ isolate' = isolate /\ kv' = kv /\ requests' = requests
      /\ authority' = authority /\ count' = count /\ writes = {}
      /\ writes' = {Write("put", o, "refresh", 0) : o \in Present(isolate.member)}
  BY DEF Refresh
<1>2. isolate.member.owners \in [Owners -> Nat] /\ IsFiniteSet(isolate.subs)
  BY DEF KeyInv, CloudflareTypes, Members
<1>3. \A w \in writes' : w \in Writes /\ w.op = "put" /\ w.why = "refresh"
  BY <1>1 DEF Write, Writes, Present
<1>4. ASSUME NEW o \in Present(isolate.member)
      PROVE  \E s \in isolate.subs : cf.owners[s] = o
  <2>1. o \in Owners /\ isolate.member.owners[o] > 0
    BY <1>4 DEF Present
  <2>2. Cardinality(OwnedBy(cf.owners, isolate.subs, o)) # 0
    BY <1>2, <2>1 DEF KeyInv, OwnersCounted
  <2>3. OwnedBy(cf.owners, isolate.subs, o) # {}
    BY <2>2, FS_EmptySet
  <2> QED BY <2>3 DEF OwnedBy
<1>5. IsFiniteSet(writes')
  <2> DEFINE T == {s \in isolate.subs : cf.owners[s] \in Present(isolate.member)}
             f == [s \in T |-> Write("put", cf.owners[s], "refresh", 0)]
  <2>1. IsFiniteSet(T)
    BY <1>2, FS_Subset
  <2>2. f \in Surjection(T, writes')
    <3>1. \A s \in T : f[s] \in writes'
      BY <1>1
    <3>2. \A w \in writes' : \E s \in T : f[s] = w
      BY <1>1, <1>4
    <3> HIDE DEF T
    <3> QED BY <3>1, <3>2 DEF Surjection
  <2> HIDE DEF T, f
  <2> QED BY <2>1, <2>2, FS_Surjection
<1>6. CloudflareTypes'
  BY <1>1, <1>3, <1>5, NamesStay DEF KeyInv, CloudflareTypes
<1>7. OwnersCounted' /\ PlacesHold'
  BY <1>1, NamesStay DEF KeyInv, OwnersCounted, PlacesHold
<1>8. WritesAreOwned'
  BY <1>3 DEF WritesAreOwned
<1>9. PresenceIsKept'
  BY <1>1, NamesStay DEF KeyInv, PresenceIsKept
<1>10. WantedArePresent'
  BY <1>1, WantedStay DEF KeyInv
<1>11. StateIsUsed'
  <2>1. {w \in writes' : w.why = "setup"} = {w \in writes : w.why = "setup"}
    BY <1>1, <1>3
  <2> QED BY <1>1, <2>1 DEF KeyInv, StateIsUsed
<1> QED BY <1>6, <1>7, <1>8, <1>9, <1>10, <1>11 DEF KeyInv

\* KV lets go of a presence.
LEMMA ExpiresKeeps ==
    ASSUME KeyInv, NEW p \in Owners, Expires(p)
    PROVE  KeyInv'
<1>1. /\ cf' = cf /\ isolate' = isolate /\ writes' = writes /\ requests' = requests
      /\ authority' = authority /\ count' = count /\ kv' = kv \ {p}
      /\ p \in kv \ Present(isolate.member)
  BY DEF Expires
<1>2. ~(isolate.member.owners[p] > 0)
  BY <1>1 DEF Present
<1>3. CloudflareTypes'
  BY <1>1, NamesStay DEF KeyInv, CloudflareTypes
<1>4. OwnersCounted' /\ PlacesHold' /\ WritesAreOwned'
  BY <1>1, NamesStay DEF KeyInv, OwnersCounted, PlacesHold, WritesAreOwned
<1>5. PresenceIsKept'
  BY <1>1, <1>2, NamesStay DEF KeyInv, PresenceIsKept
<1>6. WantedArePresent'
  BY <1>1, <1>2, WantedStay DEF KeyInv
<1>7. StateIsUsed'
  BY <1>1 DEF KeyInv, StateIsUsed
<1> QED BY <1>3, <1>4, <1>5, <1>6, <1>7 DEF KeyInv


-----------------------------------------------------------------------------
(* Publishes that go on *)

\* A publish goes on, and is listed once it is in the chain.
CallGoesOn(p) ==
    /\ requests'[p].wants = requests[p].wants /\ requests'[p].quiet = requests[p].quiet
    /\ requests[p].at = "none" <=> requests'[p].at = "none"
    /\ requests[p].at = "queued" <=> requests'[p].at = "queued"
    /\ requests'[p].at \in {"called", "chained"} => requests[p].at \in {"called", "chained"}
    /\ requests'[p].at \in {"none", "queued", "called"} =>
          requests'[p].number = requests[p].number /\ requests'[p].listed = requests[p].listed
                                                   /\ requests'[p].at = requests[p].at
    /\ requests'[p].listed =>
          \/ requests[p].listed /\ requests'[p].had = requests[p].had
          \/ requests[p].at = "chained" /\ requests'[p].had = kv

\* What the authority does keeps the rest, and its chain is in order.
LEMMA GoingOnKeeps ==
    ASSUME KeyInv, cf' = cf, isolate' = isolate, kv' = kv, writes' = writes,
           \/ count' = count
           \/ \E what \in BoundNames : Counts(what),
           requests' \in [CfPublishes -> Requests],
           authority' \in [chain : Seq(CfPublishes), cache : Nat, stored : Nat, seen : Nat],
           \A p \in CfPublishes : CallGoesOn(p),
           \A i \in DOMAIN authority'.chain : requests'[authority'.chain[i]].at = "chained",
           \A i, j \in DOMAIN authority'.chain : authority'.chain[i] = authority'.chain[j] => i = j,
           \A p \in CfPublishes : requests'[p].at = "chained" =>
               /\ \E i \in DOMAIN authority'.chain : authority'.chain[i] = p
               /\ requests'[p].number # "none" \/ requests'[p].listed => p = authority'.chain[1]
    PROVE  KeyInv'
<1>1. /\ count' \in [BoundNames -> Nat] /\ count'["joins"] >= count["joins"]
      /\ count'["refusals"] = 0 => count["refusals"] = 0
  <2>1. count \in [BoundNames -> Nat] /\ count["joins"] \in Nat
    BY DEF KeyInv, CloudflareTypes, BoundNames
  <2>2. CASE count' = count
    BY <2>1, <2>2
  <2>3. CASE \E what \in BoundNames : Counts(what)
    BY <2>1, <2>3, CountedOne DEF BoundNames
  <2> QED BY <2>2, <2>3
<1>2. CloudflareTypes'
  BY <1>1, NamesStay DEF KeyInv, CloudflareTypes
<1>3. OwnersCounted' /\ WritesAreOwned' /\ PresenceIsKept' /\ StateIsUsed'
  <2>1. isolate.member.queued # <<>> => isolate.member.setups > 0 \/ isolate.member.flushing
    BY DEF KeyInv, StateIsUsed
  <2> QED BY <1>1, <2>1, PresencesStay
<1>4. PlacesHold'
  <2>1. CfPublishes' = CfPublishes
    BY NamesStay
  <2>2. /\ \A p, q \in CfPublishes : p < q /\ requests[q].at # "none" => requests[p].at # "none"
        /\ \A i, j \in DOMAIN isolate.member.queued :
              i < j => isolate.member.queued[i] < isolate.member.queued[j]
        /\ \A i \in DOMAIN isolate.member.queued : requests[isolate.member.queued[i]].at = "queued"
        /\ \A p \in CfPublishes : requests[p].at = "queued" =>
              \E i \in DOMAIN isolate.member.queued : isolate.member.queued[i] = p
        /\ \A p \in CfPublishes : requests[p].at \in {"none", "queued", "called"} =>
              requests[p].number = "none" /\ ~requests[p].listed
        /\ \A p \in CfPublishes : requests[p].at = "none" => ~requests[p].quiet
    BY DEF KeyInv, PlacesHold
  <2>3. \A i \in DOMAIN isolate.member.queued : isolate.member.queued[i] \in CfPublishes
    BY ElementOfSeq DEF KeyInv, CloudflareTypes, Members
  <2>4. /\ \A p, q \in CfPublishes : p < q /\ requests'[q].at # "none" => requests'[p].at # "none"
        /\ \A i \in DOMAIN isolate.member.queued : requests'[isolate.member.queued[i]].at = "queued"
        /\ \A p \in CfPublishes : requests'[p].at = "queued" =>
              \E i \in DOMAIN isolate.member.queued : isolate.member.queued[i] = p
        /\ \A p \in CfPublishes : requests'[p].at \in {"none", "queued", "called"} =>
              requests'[p].number = "none" /\ ~requests'[p].listed
        /\ \A p \in CfPublishes : requests'[p].at = "none" => ~requests'[p].quiet
    BY <2>2, <2>3 DEF CallGoesOn
  <2> QED BY <2>1, <2>2, <2>4 DEF PlacesHold
<1>5. WantedArePresent'
  <2>1. ASSUME NEW p \in CfPublishes
        PROVE  /\ requests'[p].wants = requests[p].wants /\ requests'[p].quiet = requests[p].quiet
               /\ Unlisted(p)' => Unlisted(p)
               /\ requests'[p].listed =>
                    \/ requests[p].listed /\ requests'[p].had = requests[p].had
                    \/ Unlisted(p) /\ requests'[p].had = kv
    <3>1. CallGoesOn(p)
      OBVIOUS
    <3> QED BY <3>1 DEF CallGoesOn, Unlisted
  <2> QED BY <1>1, <2>1, WantedGoOn DEF KeyInv
<1> QED BY <1>2, <1>3, <1>4, <1>5 DEF KeyInv

\* One that did not change goes on.
LEMMA SameGoesOn ==
    ASSUME KeyInv, NEW p \in CfPublishes, requests'[p] = requests[p]
    PROVE  CallGoesOn(p)
BY DEF CallGoesOn

\* What the parts are.
LEMMA PartsAre ==
    ASSUME KeyInv
    PROVE  /\ authority \in [chain : Seq(CfPublishes), cache : Nat, stored : Nat, seen : Nat]
           /\ requests \in [CfPublishes -> Requests] /\ Len(authority.chain) \in Nat
           /\ DOMAIN authority.chain = 1 .. Len(authority.chain)
           /\ \A i \in DOMAIN authority.chain : authority.chain[i] \in CfPublishes
           /\ \A i \in DOMAIN authority.chain : requests[authority.chain[i]].at = "chained"
           /\ \A i, j \in DOMAIN authority.chain : authority.chain[i] = authority.chain[j] => i = j
           /\ \A p \in CfPublishes : requests[p].at = "chained" =>
               /\ \E i \in DOMAIN authority.chain : authority.chain[i] = p
               /\ requests[p].number # "none" \/ requests[p].listed => p = authority.chain[1]
           /\ \A p \in CfPublishes : requests[p].at \in {"none", "queued", "called"} =>
                  requests[p].number = "none" /\ ~requests[p].listed
<1>1. authority.chain \in Seq(CfPublishes)
  BY DEF KeyInv, CloudflareTypes
<1>2. /\ Len(authority.chain) \in Nat /\ DOMAIN authority.chain = 1 .. Len(authority.chain)
      /\ \A i \in DOMAIN authority.chain : authority.chain[i] \in CfPublishes
  BY <1>1, LenProperties, ElementOfSeq
<1> QED BY <1>2 DEF KeyInv, CloudflareTypes, PlacesHold

\* The one whose turn it is.
LEMMA HeadIs ==
    ASSUME KeyInv, NEW p \in CfPublishes, Chained(p)
    PROVE  /\ requests[p].at = "chained" /\ p = authority.chain[1] /\ 1 \in DOMAIN authority.chain
           /\ authority.chain # <<>>
<1>1. authority.chain # <<>> /\ p = Head(authority.chain)
  BY DEF Chained
<1>2. authority.chain \in Seq(CfPublishes)
  BY DEF KeyInv, CloudflareTypes
<1>3. p = authority.chain[1] /\ 1 \in DOMAIN authority.chain
  BY <1>1, <1>2
<1> QED BY <1>1, <1>3, PartsAre

\* The chain without its first.
LEMMA UnchainedIs ==
    ASSUME KeyInv, authority.chain # <<>>
    PROVE  /\ Unchained \in Seq(CfPublishes)
           /\ Len(Unchained) \in Nat /\ Len(Unchained) = Len(authority.chain) - 1
           /\ DOMAIN Unchained = 1 .. Len(Unchained)
           /\ \A i \in DOMAIN Unchained : /\ Unchained[i] = authority.chain[i + 1]
                                          /\ i \in Nat \ {0} /\ i + 1 \in DOMAIN authority.chain
           /\ \A i \in DOMAIN authority.chain : i # 1 => i - 1 \in DOMAIN Unchained
<1>1. authority.chain \in Seq(CfPublishes)
  BY DEF KeyInv, CloudflareTypes
<1>2. PICK l \in Nat : l = Len(authority.chain)
  BY PartsAre
<1>3. l # 0
  BY <1>1, <1>2
<1>4. /\ Unchained \in Seq(CfPublishes) /\ Len(Unchained) = l - 1
      /\ \A i \in 1 .. l - 1 : Unchained[i] = authority.chain[i + 1]
  BY <1>1, <1>2, HeadTailProperties DEF Unchained
<1>5. DOMAIN Unchained = 1 .. l - 1 /\ DOMAIN authority.chain = 1 .. l
  BY <1>2, <1>4, LenProperties, PartsAre
<1>6. l - 1 \in Nat /\ \A i \in 1 .. l - 1 : i + 1 \in 1 .. l
  BY <1>2, <1>3
<1>7. \A i \in 1 .. l : i # 1 => i - 1 \in 1 .. l - 1
  BY <1>2
<1> HIDE DEF Unchained
<1> QED BY <1>2, <1>4, <1>5, <1>6, <1>7

\* A call enters the chain.
LEMMA ArrivesKeeps ==
    ASSUME KeyInv, NEW p \in CfPublishes, Arrives(p)
    PROVE  KeyInv'
<1>1. /\ cf' = cf /\ isolate' = isolate /\ kv' = kv /\ writes' = writes /\ count' = count
      /\ requests[p].at = "called"
      /\ authority' = [authority EXCEPT !.chain = Append(@, p)]
      /\ requests' = [requests EXCEPT ![p].at = "chained"]
  BY DEF Arrives
<1>2. PICK l \in Nat : l = Len(authority.chain)
  BY PartsAre
<1>3. requests[p] \in Requests
  BY PartsAre
<1>4. requests' \in [CfPublishes -> Requests] /\ requests'[p].at = "chained"
  BY <1>1, <1>3, PartsAre, ZenonT(180) DEF Requests, Stages
<1>5. /\ authority'.chain = Append(authority.chain, p) /\ authority'.chain \in Seq(CfPublishes)
      /\ authority' \in [chain : Seq(CfPublishes), cache : Nat, stored : Nat, seen : Nat]
  <2>1. Append(authority.chain, p) \in Seq(CfPublishes)
    BY PartsAre, AppendProperties
  <2> QED BY <1>1, <2>1, PartsAre
<1>6. /\ DOMAIN authority'.chain = 1 .. l + 1 /\ DOMAIN authority.chain = 1 .. l
      /\ \A i \in 1 .. l : authority'.chain[i] = authority.chain[i]
      /\ authority'.chain[l + 1] = p
  BY <1>2, <1>5, PartsAre, AppendProperties, LenProperties
<1>7. \A i \in 1 .. l + 1 : i \in 1 .. l \/ i = l + 1
  BY <1>2
<1>8. \A i \in 1 .. l : /\ authority.chain[i] # p /\ authority.chain[i] \in CfPublishes
                        /\ requests'[authority.chain[i]] = requests[authority.chain[i]]
  BY <1>1, <1>6, PartsAre
<1>9. \A q \in CfPublishes : CallGoesOn(q)
  <2>1. CallGoesOn(p)
    BY <1>1, <1>3, <1>4, PartsAre DEF CallGoesOn, Requests
  <2>2. \A q \in CfPublishes : q # p => requests'[q] = requests[q]
    BY <1>1, PartsAre
  <2> QED BY <2>1, <2>2, SameGoesOn
<1>10. \A i \in DOMAIN authority'.chain : requests'[authority'.chain[i]].at = "chained"
  BY <1>4, <1>6, <1>7, <1>8, PartsAre, SMTT(180)
<1>11. \A i, j \in DOMAIN authority'.chain : authority'.chain[i] = authority'.chain[j] => i = j
  BY <1>6, <1>7, <1>8, PartsAre, SMTT(180)
<1>12. ASSUME NEW q \in CfPublishes, requests'[q].at = "chained"
       PROVE  /\ \E i \in DOMAIN authority'.chain : authority'.chain[i] = q
              /\ requests'[q].number # "none" \/ requests'[q].listed => q = authority'.chain[1]
  <2>1. CASE q = p
    <3>1. requests'[p].number = "none" /\ ~requests'[p].listed
      BY <1>1, <1>3, PartsAre, ZenonT(180) DEF Requests
    <3>2. l + 1 \in 1 .. l + 1
      BY <1>2
    <3> QED BY <1>6, <2>1, <3>1, <3>2
  <2>2. CASE q # p
    <3>1. requests'[q] = requests[q]
      BY <1>1, <2>2, PartsAre
    <3>2. PICK i \in 1 .. l : authority.chain[i] = q
      BY <1>6, <1>12, <3>1, PartsAre
    <3>3. 1 \in 1 .. l /\ i \in 1 .. l + 1
      BY <1>2, <3>2
    <3> QED BY <1>6, <1>12, <3>1, <3>2, <3>3, PartsAre, ZenonT(180)
  <2> QED BY <2>1, <2>2
<1> QED BY <1>1, <1>4, <1>5, <1>9, <1>10, <1>11, <1>12, GoingOnKeeps


\* What leaves the chain alone, and changes only the numbers and the listing of its first.
LEMMA ChainStays ==
    ASSUME KeyInv, cf' = cf, isolate' = isolate, kv' = kv, writes' = writes,
           \/ count' = count
           \/ \E what \in BoundNames : Counts(what),
           requests' \in [CfPublishes -> Requests],
           authority' \in [chain : Seq(CfPublishes), cache : Nat, stored : Nat, seen : Nat],
           authority'.chain = authority.chain,
           \A p \in CfPublishes :
               /\ CallGoesOn(p)
               /\ requests[p].at = "chained" <=> requests'[p].at = "chained"
               /\ requests[p].at = "chained" =>
                    \/ requests'[p].number = requests[p].number /\ requests'[p].listed = requests[p].listed
                    \/ p = authority.chain[1]
    PROVE  KeyInv'
<1>1. \A i \in DOMAIN authority'.chain : requests'[authority'.chain[i]].at = "chained"
  BY PartsAre
<1>2. \A i, j \in DOMAIN authority'.chain : authority'.chain[i] = authority'.chain[j] => i = j
  BY PartsAre
<1>3. \A p \in CfPublishes : requests'[p].at = "chained" =>
               /\ \E i \in DOMAIN authority'.chain : authority'.chain[i] = p
               /\ requests'[p].number # "none" \/ requests'[p].listed => p = authority'.chain[1]
  BY PartsAre
<1>4. \A p \in CfPublishes : CallGoesOn(p)
  OBVIOUS
<1> QED BY <1>1, <1>2, <1>3, <1>4, GoingOnKeeps

\* The first in the chain gets its number and its owners.
LEMMA HeadGoesOn ==
    ASSUME KeyInv, NEW p \in CfPublishes, requests[p].at = "chained", p = authority.chain[1],
           NEW r \in Requests, r.at = "chained", r.wants = requests[p].wants, r.quiet = requests[p].quiet,
           r.listed => \/ requests[p].listed /\ r.had = requests[p].had
                       \/ r.had = kv,
           requests' = [requests EXCEPT ![p] = r],
           cf' = cf, isolate' = isolate, kv' = kv, writes' = writes, count' = count,
           authority' \in [chain : Seq(CfPublishes), cache : Nat, stored : Nat, seen : Nat],
           authority'.chain = authority.chain
    PROVE  KeyInv'
<1>1. requests' \in [CfPublishes -> Requests] /\ requests'[p] = r
  BY PartsAre
<1>2. \A q \in CfPublishes : q # p => requests'[q] = requests[q]
  BY PartsAre
<1>3. CallGoesOn(p)
  BY <1>1 DEF CallGoesOn
<1>4. \A q \in CfPublishes : q # p => CallGoesOn(q)
  BY <1>2, SameGoesOn
<1>5. \A q \in CfPublishes :
               /\ CallGoesOn(q)
               /\ requests[q].at = "chained" <=> requests'[q].at = "chained"
               /\ requests[q].at = "chained" =>
                    \/ requests'[q].number = requests[q].number /\ requests'[q].listed = requests[q].listed
                    \/ q = authority.chain[1]
  BY <1>1, <1>2, <1>3, <1>4
<1> QED BY <1>1, <1>5, ChainStays

\* Its seq is read, raised and stored, and its owners are listed.
LEMMA HeadKeeps ==
    ASSUME KeyInv, NEW p \in CfPublishes,
           ReadsSeq(p) \/ RaisesSeq(p) \/ StoresSeq(p) \/ Lists(p)
    PROVE  KeyInv'
<1>1. requests[p] \in Requests /\ kv \subseteq Owners /\ authority.cache \in Nat /\ authority.stored \in Nat
  BY PartsAre DEF KeyInv, CloudflareTypes
<1>2. requests[p].seq \in Nat
  BY <1>1 DEF Requests
<1>3. CASE ReadsSeq(p)
  <2> DEFINE r == [requests[p] EXCEPT !.number = "read",
                        !.seq = IF authority.cache > 0 THEN authority.cache ELSE authority.stored]
  <2>1. requests' = [requests EXCEPT ![p] = r] /\ Chained(p)
    BY <1>3 DEF ReadsSeq
  <2>2. requests[p].at = "chained" /\ p = authority.chain[1]
    BY <2>1, HeadIs
  <2>3. /\ r \in Requests /\ r.at = "chained" /\ r.wants = requests[p].wants
        /\ r.quiet = requests[p].quiet /\ r.listed = requests[p].listed /\ r.had = requests[p].had
    BY <1>1, <2>2, ZenonT(180) DEF Requests
  <2> HIDE DEF r
  <2>4. cf' = cf /\ isolate' = isolate /\ kv' = kv /\ writes' = writes /\ count' = count
        /\ authority' = authority
    BY <1>3 DEF ReadsSeq
  <2> QED BY <2>1, <2>2, <2>3, <2>4, HeadGoesOn, PartsAre, ZenonT(180)
<1>4. CASE RaisesSeq(p)
  <2> DEFINE r == [requests[p] EXCEPT !.number = "raised", !.seq = @ + 1]
  <2>1. /\ requests' = [requests EXCEPT ![p] = r] /\ requests[p].at = "chained"
        /\ requests[p].number = "read" /\ authority' = [authority EXCEPT !.cache = requests[p].seq + 1]
        /\ cf' = cf /\ isolate' = isolate /\ kv' = kv /\ writes' = writes /\ count' = count
    BY <1>4 DEF RaisesSeq
  <2>2. p = authority.chain[1]
    BY <2>1, PartsAre
  <2>3. /\ r \in Requests /\ r.at = "chained" /\ r.wants = requests[p].wants
        /\ r.quiet = requests[p].quiet /\ r.listed = requests[p].listed /\ r.had = requests[p].had
    <3>1. requests[p].seq + 1 \in Nat
      BY <1>2
    <3>2. r = [requests[p] EXCEPT !.number = "raised", !.seq = requests[p].seq + 1]
      OBVIOUS
    <3> HIDE DEF r
    <3> QED BY <1>1, <2>1, <3>1, <3>2 DEF Requests
  <2> HIDE DEF r
  <2>4. authority' \in [chain : Seq(CfPublishes), cache : Nat, stored : Nat, seen : Nat]
        /\ authority'.chain = authority.chain
    BY <1>2, <2>1, PartsAre
  <2> QED BY <2>1, <2>2, <2>3, <2>4, HeadGoesOn
<1>5. CASE StoresSeq(p)
  <2> DEFINE r == [requests[p] EXCEPT !.number = "stored"]
  <2>1. /\ requests' = [requests EXCEPT ![p] = r] /\ requests[p].at = "chained"
        /\ requests[p].number = "raised" /\ authority' = [authority EXCEPT !.stored = requests[p].seq]
        /\ cf' = cf /\ isolate' = isolate /\ kv' = kv /\ writes' = writes /\ count' = count
    BY <1>5 DEF StoresSeq
  <2>2. p = authority.chain[1]
    BY <2>1, PartsAre
  <2>3. /\ r \in Requests /\ r.at = "chained" /\ r.wants = requests[p].wants
        /\ r.quiet = requests[p].quiet /\ r.listed = requests[p].listed /\ r.had = requests[p].had
    BY <1>1, <1>2, <2>1 DEF Requests
  <2> HIDE DEF r
  <2>4. authority' \in [chain : Seq(CfPublishes), cache : Nat, stored : Nat, seen : Nat]
        /\ authority'.chain = authority.chain
    BY <1>2, <2>1, PartsAre
  <2> QED BY <2>1, <2>2, <2>3, <2>4, HeadGoesOn
<1>6. CASE Lists(p)
  <2> DEFINE r == [requests[p] EXCEPT !.listed = TRUE, !.had = kv]
  <2>1. requests' = [requests EXCEPT ![p] = r] /\ Chained(p)
    BY <1>6 DEF Lists
  <2>2. requests[p].at = "chained" /\ p = authority.chain[1]
    BY <2>1, HeadIs
  <2>3. /\ r \in Requests /\ r.at = "chained" /\ r.wants = requests[p].wants
        /\ r.quiet = requests[p].quiet /\ r.had = kv
    BY <1>1, <2>2 DEF Requests
  <2> HIDE DEF r
  <2>4. cf' = cf /\ isolate' = isolate /\ kv' = kv /\ writes' = writes /\ count' = count
        /\ authority' = authority
    BY <1>6 DEF Lists
  <2> QED BY <2>1, <2>2, <2>3, <2>4, HeadGoesOn, PartsAre
<1> QED BY <1>3, <1>4, <1>5, <1>6

\* The first leaves the chain.
LEMMA HeadLeaves ==
    ASSUME KeyInv, NEW p \in CfPublishes, requests[p].at = "chained", p = authority.chain[1],
           NEW at \in {"rejected", "acked", "fanned"},
           requests' = [requests EXCEPT ![p].at = at],
           cf' = cf, isolate' = isolate, kv' = kv, writes' = writes,
           \/ count' = count
           \/ \E what \in BoundNames : Counts(what),
           authority' = [authority EXCEPT !.chain = Unchained]
    PROVE  KeyInv'
<1>1. PICK i0 \in DOMAIN authority.chain : authority.chain[i0] = p
  BY PartsAre
<1>2. authority.chain # <<>>
  BY <1>1
<1>3. 1 \in DOMAIN authority.chain
  BY <1>1, PartsAre
<1>4. /\ Unchained \in Seq(CfPublishes)
      /\ \A i \in DOMAIN Unchained : /\ Unchained[i] = authority.chain[i + 1]
                                     /\ i \in Nat \ {0} /\ i + 1 \in DOMAIN authority.chain
      /\ \A i \in DOMAIN authority.chain : i # 1 => i - 1 \in DOMAIN Unchained
  BY <1>2, UnchainedIs
<1>5. /\ authority'.chain = Unchained
      /\ authority' \in [chain : Seq(CfPublishes), cache : Nat, stored : Nat, seen : Nat]
  BY <1>4, PartsAre
<1>6. requests[p] \in Requests /\ requests[p].listed \in BOOLEAN
  BY PartsAre DEF Requests
<1>7. /\ requests' \in [CfPublishes -> Requests] /\ requests'[p].at = at
      /\ requests'[p] = [requests[p] EXCEPT !.at = at]
      /\ \A q \in CfPublishes : q # p => requests'[q] = requests[q]
  BY <1>6, PartsAre, ZenonT(180) DEF Requests, Stages
<1>8. \A q \in CfPublishes : CallGoesOn(q)
  <2>1. CallGoesOn(p)
    BY <1>6, <1>7 DEF CallGoesOn, Requests
  <2> QED BY <1>7, <2>1, SameGoesOn
<1>9. \A i \in DOMAIN Unchained : /\ Unchained[i] # p /\ Unchained[i] \in CfPublishes
                                  /\ requests[Unchained[i]].at = "chained"
  <2>1. SUFFICES ASSUME NEW i \in DOMAIN Unchained
                 PROVE  /\ authority.chain[i + 1] # p /\ authority.chain[i + 1] \in CfPublishes
                        /\ requests[authority.chain[i + 1]].at = "chained"
    BY <1>4
  <2>2. i + 1 # 1 /\ i + 1 \in DOMAIN authority.chain
    BY <1>4
  <2> QED BY <1>3, <2>2, PartsAre
<1>10. \A i \in DOMAIN Unchained : requests'[Unchained[i]].at = "chained"
  BY <1>7, <1>9
<1>11. \A i, j \in DOMAIN Unchained : Unchained[i] = Unchained[j] => i = j
  <2>1. SUFFICES ASSUME NEW i \in DOMAIN Unchained, NEW j \in DOMAIN Unchained,
                        Unchained[i] = Unchained[j]
                 PROVE  i = j
    OBVIOUS
  <2>2. i + 1 = j + 1
    BY <1>4, <2>1, PartsAre
  <2>3. i \in Nat /\ j \in Nat
    BY <1>4
  <2> QED BY <2>2, <2>3
<1>12. ASSUME NEW q \in CfPublishes, requests'[q].at = "chained"
       PROVE  /\ \E i \in DOMAIN Unchained : Unchained[i] = q
              /\ requests'[q].number # "none" \/ requests'[q].listed => q = Unchained[1]
  <2>1. q # p /\ requests'[q] = requests[q]
    BY <1>7, <1>12
  <2>2. PICK i \in DOMAIN authority.chain : authority.chain[i] = q
    BY <1>12, <2>1, PartsAre
  <2>3. i # 1 /\ i \in Nat
    BY <2>1, <2>2, PartsAre
  <2>4. i - 1 \in DOMAIN Unchained /\ (i - 1) + 1 = i
    BY <1>4, <2>2, <2>3
  <2>5. Unchained[i - 1] = q
    BY <1>4, <2>2, <2>4
  <2>6. ~(requests[q].number # "none" \/ requests[q].listed)
    BY <1>12, <2>1, PartsAre
  <2> QED BY <2>1, <2>4, <2>5, <2>6
<1> QED BY <1>5, <1>7, <1>8, <1>10, <1>11, <1>12, GoingOnKeeps

\* A publish that fans out, or that couldn't be listed.
LEMMA LeavesKeeps ==
    ASSUME KeyInv, NEW p \in CfPublishes, FansOut(p) \/ ListFails(p)
    PROVE  KeyInv'
<1>1. CASE FansOut(p)
  <2>1. /\ cf' = cf /\ isolate' = isolate /\ kv' = kv /\ writes' = writes /\ count' = count
        /\ authority' = [authority EXCEPT !.chain = Unchained]
        /\ requests' = [requests EXCEPT ![p].at = IF requests[p].had = {} THEN "acked" ELSE "fanned"]
        /\ requests[p].at = "chained" /\ requests[p].number = "stored"
    BY <1>1 DEF FansOut
  <2>2. p = authority.chain[1]
    BY <2>1, PartsAre
  <2>3. (IF requests[p].had = {} THEN "acked" ELSE "fanned") \in {"rejected", "acked", "fanned"}
    OBVIOUS
  <2> QED BY <2>1, <2>2, <2>3, HeadLeaves
<1>2. CASE ListFails(p)
  <2>1. /\ cf' = cf /\ isolate' = isolate /\ kv' = kv /\ writes' = writes /\ Counts("refusals")
        /\ authority' = [authority EXCEPT !.chain = Unchained]
        /\ requests' = Rejected(requests, {p}) /\ Chained(p)
    BY <1>2 DEF ListFails
  <2>2. requests' = [requests EXCEPT ![p].at = "rejected"]
    BY <2>1, PartsAre DEF Rejected
  <2>3. requests[p].at = "chained" /\ p = authority.chain[1]
    BY <2>1, HeadIs
  <2>4. \E what \in BoundNames : Counts(what)
    BY <2>1 DEF BoundNames
  <2> QED BY <2>1, <2>2, <2>3, <2>4, HeadLeaves
<1> QED BY <1>1, <1>2

\* The authority restarts.
LEMMA RestartsKeep ==
    ASSUME KeyInv, AuthorityRestarts
    PROVE  KeyInv'
<1>1. /\ cf' = cf /\ isolate' = isolate /\ kv' = kv /\ writes' = writes /\ Counts("restarts")
      /\ authority' = [authority EXCEPT !.chain = <<>>, !.cache = 0]
      /\ requests' = Rejected(requests, Lost)
  BY DEF AuthorityRestarts
<1>2. \E what \in BoundNames : Counts(what)
  BY <1>1 DEF BoundNames
<1>3. /\ authority'.chain = <<>> /\ DOMAIN authority'.chain = {}
      /\ authority' \in [chain : Seq(CfPublishes), cache : Nat, stored : Nat, seen : Nat]
  <2>1. <<>> \in Seq(CfPublishes) /\ DOMAIN <<>> = {} /\ 0 \in Nat
    OBVIOUS
  <2> QED BY <1>1, <2>1, PartsAre
<1>4. ASSUME NEW p \in CfPublishes
      PROVE  /\ requests'[p] \in Requests /\ CallGoesOn(p) /\ requests'[p].at # "chained"
  <2>1. requests[p] \in Requests
    BY PartsAre
  <2>2. CASE p \in Lost
    <3>1. requests'[p] = [requests[p] EXCEPT !.at = "rejected"]
      BY <1>1, <2>2 DEF Rejected
    <3>2. requests[p].at \in {"chained", "fanned"}
      BY <2>2 DEF Lost
    <3> QED BY <2>1, <3>1, <3>2 DEF CallGoesOn, Requests, Stages
  <2>3. CASE p \notin Lost
    <3>1. requests'[p] = requests[p] /\ requests[p].at # "chained"
      BY <1>1, <2>3 DEF Rejected, Lost
    <3> QED BY <2>1, <3>1, SameGoesOn
  <2> QED BY <2>2, <2>3
<1>5. requests' \in [CfPublishes -> Requests]
  <2>1. requests' = [p \in CfPublishes |-> requests'[p]]
    BY <1>1 DEF Rejected
  <2> QED BY <1>4, <2>1
<1> QED BY <1>1, <1>2, <1>3, <1>4, <1>5, GoingOnKeeps


\* A call is answered.
LEMMA AnswersKeep ==
    ASSUME KeyInv, NEW p, NEW ok \in BOOLEAN, requests' = Answered(requests, p, ok),
           cf' = cf, isolate' = isolate, kv' = kv, writes' = writes, count' = count,
           authority' = authority
    PROVE  KeyInv'
<1> DEFINE at == IF ok THEN "acked" ELSE "rejected"
<1>1. ASSUME NEW q \in CfPublishes
      PROVE  /\ requests'[q] \in Requests /\ CallGoesOn(q)
             /\ requests[q].at = "chained" <=> requests'[q].at = "chained"
             /\ requests'[q].number = requests[q].number /\ requests'[q].listed = requests[q].listed
  <2>1. requests[q] \in Requests
    BY PartsAre
  <2>2. CASE q = p /\ requests[p].at = "fanned"
    <3>1. requests'[q] = [requests[q] EXCEPT !.at = at]
      BY <2>2, PartsAre DEF Answered
    <3>2. at \in {"acked", "rejected"}
      OBVIOUS
    <3> HIDE DEF at
    <3> QED BY <2>1, <2>2, <3>1, <3>2 DEF CallGoesOn, Requests, Stages
  <2>3. CASE ~(q = p /\ requests[p].at = "fanned")
    <3>1. requests'[q] = requests[q]
      BY <2>3, PartsAre DEF Answered
    <3> QED BY <2>1, <3>1, SameGoesOn
  <2> QED BY <2>2, <2>3
<1>2. requests' \in [CfPublishes -> Requests]
  <2>1. requests' = [q \in CfPublishes |-> requests'[q]]
    BY PartsAre DEF Answered
  <2> QED BY <1>1, <2>1
<1>3. authority' \in [chain : Seq(CfPublishes), cache : Nat, stored : Nat, seen : Nat]
      /\ authority'.chain = authority.chain
  BY PartsAre
<1> QED BY <1>1, <1>2, <1>3, ChainStays

\* The calls between Durable Objects change no more than that.
LEMMA HopsKeep ==
    ASSUME KeyInv,
           \/ CoordinatorTakes \/ CoordinatorAnswers
           \/ \E h \in Hops : HopStep(h) \/ StubBreaks(h)
    PROVE  KeyInv'
<1>1. ASSUME HopUnchanged, requests' = requests,
             \/ count' = count
             \/ \E what \in BoundNames : Counts(what)
      PROVE  KeyInv'
  <2>1. cf' = cf /\ isolate' = isolate /\ kv' = kv /\ writes' = writes /\ authority' = authority
    BY <1>1 DEF HopUnchanged
  <2>2. \A p \in CfPublishes :
               /\ CallGoesOn(p)
               /\ requests[p].at = "chained" <=> requests'[p].at = "chained"
               /\ requests[p].at = "chained" =>
                    \/ requests'[p].number = requests[p].number /\ requests'[p].listed = requests[p].listed
                    \/ p = authority.chain[1]
    BY <1>1, SameGoesOn
  <2> QED BY <1>1, <2>1, <2>2, ChainStays, PartsAre
<1>2. CASE CoordinatorTakes
  BY <1>1, <1>2 DEF CoordinatorTakes
<1>3. CASE CoordinatorAnswers
  <2>1. \E p : requests' = Answered(requests, p, TRUE)
    BY <1>3 DEF CoordinatorAnswers
  <2>2. HopUnchanged /\ count' = count
    BY <1>3 DEF CoordinatorAnswers
  <2> QED BY <2>1, <2>2, AnswersKeep DEF HopUnchanged
<1>4. ASSUME NEW h \in Hops, CallRejects(h) PROVE KeyInv'
  <2>1. \E p : requests' = Answered(requests, p, FALSE)
    BY <1>4 DEF CallRejects
  <2>2. HopUnchanged /\ count' = count
    BY <1>4 DEF CallRejects
  <2> QED BY <2>1, <2>2, AnswersKeep DEF HopUnchanged
<1>5. ASSUME NEW h \in Hops, Resumes(h) PROVE KeyInv'
  BY <1>1, <1>5 DEF Resumes
<1>6. ASSUME NEW h \in Hops, OwnerTakes(h) PROVE KeyInv'
  BY <1>1, <1>6 DEF OwnerTakes
<1>7. ASSUME NEW h \in Hops, StubBreaks(h) PROVE KeyInv'
  <2>1. HopUnchanged /\ requests' = requests /\ Counts("breaks")
    BY <1>7 DEF StubBreaks
  <2>2. \E what \in BoundNames : Counts(what)
    BY <2>1 DEF BoundNames
  <2> QED BY <1>1, <2>1, <2>2
<1> QED BY <1>2, <1>3, <1>4, <1>5, <1>6, <1>7 DEF HopStep

-----------------------------------------------------------------------------
(* Publishes that are made *)

\* A publish that calls the authority as it is made.
LEMMA CalledKeeps ==
    ASSUME KeyInv, NEW p \in CfPublishes, requests[p].at = "none",
           \A q \in CfPublishes : q < p => requests[q].at # "none",
           NEW r \in Requests, r.at = "called", r.number = requests[p].number,
           r.listed = requests[p].listed,
           \A o \in r.wants : isolate.member.owners[o] > 0 \/ o \in isolate.left,
           count["refusals"] = 0 /\ r.quiet => r.wants \ isolate.left \subseteq kv,
           requests' = [requests EXCEPT ![p] = r],
           cf' = cf, kv' = kv, writes' = writes, count' = count, authority' = authority,
           isolate' \in [subs : SUBSET Subscribers, member : Members, run : Int, left : SUBSET Owners],
           isolate'.subs = isolate.subs, isolate'.member = isolate.member, isolate'.left = isolate.left
    PROVE  KeyInv'
<1>1. /\ requests' \in [CfPublishes -> Requests] /\ requests'[p] = r
      /\ \A q \in CfPublishes : q # p => requests'[q] = requests[q]
  BY PartsAre
<1>2. count \in [BoundNames -> Nat] /\ count["joins"] \in Nat /\ IsFiniteSet(isolate.subs)
  BY DEF KeyInv, CloudflareTypes, BoundNames
<1>3. CloudflareTypes'
  BY <1>1, <1>2, NamesStay DEF KeyInv, CloudflareTypes
<1>4. OwnersCounted' /\ WritesAreOwned' /\ PresenceIsKept' /\ StateIsUsed'
  <2>1. isolate.member.queued # <<>> => isolate.member.setups > 0 \/ isolate.member.flushing
    BY DEF KeyInv, StateIsUsed
  <2> QED BY <1>2, <2>1, PresencesStay
<1>5. ~requests[p].listed /\ requests[p].number = "none"
  BY PartsAre
<1>6. WantedArePresent'
  <2>1. ASSUME NEW q \in CfPublishes
        PROVE  \/ /\ requests'[q].wants = requests[q].wants /\ requests'[q].quiet = requests[q].quiet
                  /\ Unlisted(q)' => Unlisted(q)
                  /\ requests'[q].listed =>
                       \/ requests[q].listed /\ requests'[q].had = requests[q].had
                       \/ Unlisted(q) /\ requests'[q].had = kv
               \/ /\ \A o \in requests'[q].wants : isolate.member.owners[o] > 0 \/ o \in isolate.left
                  /\ ~requests'[q].listed
                  /\ count["refusals"] = 0 /\ requests'[q].quiet /\ Unlisted(q)' =>
                       requests'[q].wants \ isolate.left \subseteq kv
    <3>1. CASE q = p
      BY <1>1, <1>5, <3>1
    <3>2. CASE q # p
      BY <1>1, <3>2 DEF Unlisted
    <3> QED BY <3>1, <3>2
  <2>2. isolate'.member.owners = isolate.member.owners
    OBVIOUS
  <2> QED BY <2>1, <2>2, WantedGoOn DEF KeyInv
<1>7. PlacesHold'
  <2>1. CfPublishes' = CfPublishes
    BY NamesStay
  <2>2. /\ \A u, q \in CfPublishes : u < q /\ requests[q].at # "none" => requests[u].at # "none"
        /\ \A i, j \in DOMAIN isolate.member.queued :
              i < j => isolate.member.queued[i] < isolate.member.queued[j]
        /\ \A i \in DOMAIN isolate.member.queued : requests[isolate.member.queued[i]].at = "queued"
        /\ \A q \in CfPublishes : requests[q].at = "queued" =>
              \E i \in DOMAIN isolate.member.queued : isolate.member.queued[i] = q
        /\ \A q \in CfPublishes : requests[q].at \in {"none", "queued", "called"} =>
              requests[q].number = "none" /\ ~requests[q].listed
        /\ \A q \in CfPublishes : requests[q].at = "none" => ~requests[q].quiet
    BY DEF KeyInv, PlacesHold
  <2>3. \A i \in DOMAIN isolate.member.queued : isolate.member.queued[i] \in CfPublishes
    BY ElementOfSeq DEF KeyInv, CloudflareTypes, Members
  <2>4. \A u, q \in CfPublishes : u < q /\ requests'[q].at # "none" => requests'[u].at # "none"
    BY <1>1, <2>2
  <2>5. \A i \in DOMAIN isolate.member.queued : requests'[isolate.member.queued[i]].at = "queued"
    BY <1>1, <2>2, <2>3
  <2>6. /\ \A q \in CfPublishes : requests'[q].at = "queued" =>
              \E i \in DOMAIN isolate.member.queued : isolate.member.queued[i] = q
        /\ \A q \in CfPublishes : requests'[q].at \in {"none", "queued", "called"} =>
              requests'[q].number = "none" /\ ~requests'[q].listed
        /\ \A q \in CfPublishes : requests'[q].at = "none" => ~requests'[q].quiet
    BY <1>1, <1>5, <2>2
  <2>7. /\ \A i \in DOMAIN authority.chain : requests'[authority.chain[i]].at = "chained"
        /\ \A q \in CfPublishes : requests'[q].at = "chained" =>
              /\ \E i \in DOMAIN authority.chain : authority.chain[i] = q
              /\ requests'[q].number # "none" \/ requests'[q].listed => q = authority.chain[1]
    BY <1>1, PartsAre
  <2> QED BY <2>1, <2>2, <2>4, <2>5, <2>6, <2>7, PartsAre DEF PlacesHold
<1> QED BY <1>3, <1>4, <1>6, <1>7 DEF KeyInv

\* Another isolate's publish.
LEMMA ElsewhereKeeps ==
    ASSUME KeyInv, NEW p \in CfPublishes, PublishElsewhere(p)
    PROVE  KeyInv'
<1> DEFINE r == Called(requests[p], 0 - p, TRUE)
<1>1. /\ requests[p].at = "none"
      /\ \A q \in CfPublishes : q < p => requests[q].at # "none"
      /\ requests' = [requests EXCEPT ![p] = r]
      /\ cf' = cf /\ isolate' = isolate /\ kv' = kv /\ writes' = writes /\ count' = count
      /\ authority' = authority
  BY PartsAre DEF PublishElsewhere
<1>2. requests[p] \in Requests /\ 0 - p \in Int
  BY PartsAre, PlansAre DEF KeyInv, CloudflareTypes
<1>3. /\ r \in Requests /\ r.at = "called" /\ r.number = requests[p].number
      /\ r.listed = requests[p].listed /\ r.wants = requests[p].wants /\ r.quiet = requests[p].quiet
  BY <1>2 DEF Called, Requests, Stages
<1>4. ~requests[p].quiet
  BY <1>1 DEF KeyInv, PlacesHold
<1>5. \A o \in requests[p].wants : isolate.member.owners[o] > 0 \/ o \in isolate.left
  BY DEF KeyInv, WantedArePresent
<1>6. isolate \in [subs : SUBSET Subscribers, member : Members, run : Int, left : SUBSET Owners]
  BY DEF KeyInv, CloudflareTypes
<1> HIDE DEF r
<1> QED BY <1>1, <1>3, <1>4, <1>5, <1>6, CalledKeeps

\* What is present is listed, or left, once no setup is on its way.
LEMMA PresentAreListed ==
    ASSUME KeyInv, ~MustBuffer(isolate.member), count["refusals"] = 0
    PROVE  Present(isolate.member) \ isolate.left \subseteq kv
<1> SUFFICES ASSUME NEW o \in Owners, isolate.member.owners[o] > 0, o \notin isolate.left
             PROVE  o \in kv
  BY DEF Present
<1>1. isolate.subs # {}
  <2>1. Cardinality(OwnedBy(cf.owners, isolate.subs, o)) > 0
    BY DEF KeyInv, OwnersCounted
  <2> QED BY <2>1, NoneOwned
<1>2. ~(isolate.member.setups > 0)
  BY <1>1 DEF MustBuffer, KeyInv, OwnersCounted
<1>3. isolate.member.setups = 0 /\ IsFiniteSet(writes)
  BY <1>2 DEF KeyInv, CloudflareTypes, Members
<1>4. {w \in writes : w.why = "setup"} = {}
  <2>1. IsFiniteSet({w \in writes : w.why = "setup"})
    BY <1>3, FS_Subset
  <2>2. Cardinality({w \in writes : w.why = "setup"}) = 0
    BY <1>3 DEF KeyInv, StateIsUsed
  <2> QED BY <2>1, <2>2, FS_EmptySet
<1>5. o \in kv \/ \E w \in writes : w.why = "setup" /\ w.owner = o
  BY DEF KeyInv, PresenceIsKept
<1> QED BY <1>4, <1>5


\* The buffer keeps an end of what waited.
LEMMA BufferedDoes ==
    ASSUME cf \in Isolates, NEW q \in Seq(CfPublishes), NEW p \in CfPublishes
    PROVE  \E n \in 0 .. Len(q) + 1 : Buffered(q, p) = SubSeq(Append(q, p), n + 1, Len(q) + 1)
<1> DEFINE grown == Append(q, p)
           Rest(n) == SubSeq(grown, n + 1, Len(grown))
           T == {n \in 0 .. Len(grown) : BufferedBytes(Rest(n)) <= cf.budget}
<1>1. PICK l \in Nat : l = Len(q)
  BY LenProperties
<1>2. Len(grown) = l + 1 /\ grown \in Seq(CfPublishes)
  BY <1>1, AppendProperties
<1>3. BufferedBytes(<<>>) = 0
  <2> DEFINE D == DOMAIN <<>>
             F(f) == f = [s \in SUBSET D |-> IF s = {} THEN 0
                            ELSE LET x == CHOOSE x \in s : TRUE
                                 IN  cf.publishes[<<>>[x]].bytes + f[s \ {x}]]
  <2>1. D = {}
    OBVIOUS
  <2>2. BufferedBytes(<<>>) = (CHOOSE f : F(f))[D]
    BY Zenon DEF BufferedBytes, FoldSet, MapThenFoldSet
  <2>3. F([s \in SUBSET D |-> 0])
    BY <2>1
  <2>4. F(CHOOSE f : F(f))
    <3> HIDE DEF F
    <3> QED BY <2>3, Zenon
  <2>5. \A f : F(f) => f[D] = 0
    BY <2>1
  <2> HIDE DEF F
  <2> QED BY <2>2, <2>4, <2>5
<1>4. cf.budget \in Nat
  BY IsolatesAssumption
<1>5. Rest(l + 1) = <<>>
  BY <1>1, <1>2
<1>6. l + 1 \in T
  <2>1. l + 1 \in 0 .. Len(grown) /\ 0 <= cf.budget
    BY <1>1, <1>2, <1>4
  <2> HIDE DEF Rest, grown
  <2> QED BY <1>3, <1>5, <2>1
<1>7. T \in SUBSET Nat /\ T # {}
  BY <1>1, <1>2, <1>6
<1>8. PICK x \in T : \A y \in T : x <= y
  BY <1>7, LeastNatural
<1>9. Min(T) \in T
  <2> HIDE DEF T
  <2> QED BY <1>8, Zenon DEF Min
<1>10. Buffered(q, p) = Rest(Min(T))
  BY DEF Buffered
<1> HIDE DEF T
<1>11. Min(T) \in 0 .. l + 1
  BY <1>2, <1>9 DEF T
<1> QED BY <1>1, <1>2, <1>10, <1>11

\* What a queue in order keeps is in order, and of what was there.
LEMMA BufferedIs ==
    ASSUME cf \in Isolates, NEW q \in Seq(CfPublishes), NEW p \in CfPublishes,
           \A i, j \in DOMAIN q : i < j => q[i] < q[j],
           \A i \in DOMAIN q : q[i] < p
    PROVE  /\ Buffered(q, p) \in Seq(CfPublishes)
           /\ \A i, j \in DOMAIN Buffered(q, p) : i < j => Buffered(q, p)[i] < Buffered(q, p)[j]
           /\ \A i \in DOMAIN Buffered(q, p) :
                 Buffered(q, p)[i] = p \/ \E j \in DOMAIN q : q[j] = Buffered(q, p)[i]
<1>1. PICK l \in Nat : l = Len(q)
  BY LenProperties
<1>2. PICK n \in 0 .. l + 1 : Buffered(q, p) = SubSeq(Append(q, p), n + 1, l + 1)
  BY <1>1, BufferedDoes
<1> DEFINE grown == Append(q, p)
           b == SubSeq(grown, n + 1, l + 1)
<1>3. /\ grown \in Seq(CfPublishes) /\ Len(grown) = l + 1 /\ DOMAIN q = 1 .. l
      /\ \A i \in 1 .. l : grown[i] = q[i]
      /\ grown[l + 1] = p
  BY <1>1, AppendProperties, LenProperties
<1>4. \A i, j \in 1 .. l + 1 : i < j => grown[i] < grown[j]
  <2>1. SUFFICES ASSUME NEW i \in 1 .. l + 1, NEW j \in 1 .. l + 1, i < j
                 PROVE  grown[i] < grown[j]
    OBVIOUS
  <2>2. i \in 1 .. l
    BY <1>1, <2>1
  <2>3. j \in 1 .. l \/ j = l + 1
    BY <1>1
  <2> HIDE DEF grown
  <2> QED BY <1>3, <2>1, <2>2, <2>3
<1>5. \A i \in 1 .. l + 1 : grown[i] = p \/ \E j \in DOMAIN q : q[j] = grown[i]
  <2>1. \A i \in 1 .. l + 1 : i \in 1 .. l \/ i = l + 1
    BY <1>1
  <2> HIDE DEF grown
  <2> QED BY <1>3, <2>1
<1> HIDE DEF grown
<1>6. /\ b \in Seq(CfPublishes) /\ DOMAIN b = 1 .. l + 1 - n
      /\ \A i \in 1 .. l + 1 - n : b[i] = grown[n + i]
  <2>1. n + 1 \in Int /\ l + 1 \in Int /\ n \in Nat /\ n <= l + 1
    BY <1>1
  <2>2. b \in Seq(CfPublishes) /\ Len(b) = l + 1 - n /\ \A i \in 1 .. l + 1 - n : b[i] = grown[n + i]
    BY <1>3, <2>1
  <2> HIDE DEF b
  <2> QED BY <2>2, LenProperties
<1>7. \A i \in 1 .. l + 1 - n : n + i \in 1 .. l + 1
  BY <1>1
<1>8. \A i, j \in 1 .. l + 1 - n : i < j => n + i < n + j
  BY <1>1
<1>9. Buffered(q, p) = b
  BY <1>2 DEF grown
<1> HIDE DEF b
<1>10. \A i, j \in 1 .. l + 1 - n : i < j => b[i] < b[j]
  BY <1>4, <1>6, <1>7, <1>8
<1>11. \A i \in 1 .. l + 1 - n : b[i] = p \/ \E j \in DOMAIN q : q[j] = b[i]
  BY <1>5, <1>6, <1>7
<1> QED BY <1>6, <1>9, <1>10, <1>11

\* A publish of the isolate: it calls, or waits, and may push out some that waited.
LEMMA PublishesKeep ==
    ASSUME KeyInv, NEW p \in CfPublishes, IsolatePublishes(p)
    PROVE  KeyInv'
<1> DEFINE m    == isolate.member
           kept == Buffered(m.queued, p)
           gone == (ToSet(m.queued) \cup {p}) \ ToSet(kept)
           made == [requests[p] EXCEPT !.at = "queued", !.wants = Present(m), !.quiet = ~m.flushing]
<1>1. /\ requests[p].at = "none"
      /\ \A q \in CfPublishes : q < p => requests[q].at # "none"
      /\ cf' = cf /\ kv' = kv /\ writes' = writes /\ count' = count /\ authority' = authority
      /\ MustBuffer(m) => /\ requests' = Rejected(Published(p), gone)
                          /\ isolate' = [isolate EXCEPT !.member.queued = kept]
      /\ ~MustBuffer(m) =>
           \E run \in {isolate.run, isolate.run + 1} :
              /\ isolate' = [isolate EXCEPT !.run = run]
              /\ requests' = [Published(p) EXCEPT ![p] = Called(@, run, TRUE)]
  BY DEF IsolatePublishes
<1>2. /\ requests[p] \in Requests /\ requests \in [CfPublishes -> Requests]
      /\ isolate \in [subs : SUBSET Subscribers, member : Members, run : Int, left : SUBSET Owners]
      /\ m \in Members /\ m.queued \in Seq(CfPublishes) /\ m.flushing \in BOOLEAN
      /\ IsFiniteSet(isolate.subs) /\ count \in [BoundNames -> Nat] /\ cf \in Isolates
      /\ count["joins"] \in Nat
  BY PartsAre DEF KeyInv, CloudflareTypes, Members, BoundNames
<1>3. Present(m) \subseteq Owners
  BY DEF Present
<1>4. /\ Published(p) \in [CfPublishes -> Requests] /\ Published(p)[p] = made
      /\ \A q \in CfPublishes : q # p => Published(p)[q] = requests[q]
      /\ made \in Requests /\ made.at = "queued" /\ made.wants = Present(m) /\ made.quiet = ~m.flushing
      /\ made.number = requests[p].number /\ made.listed = requests[p].listed
      /\ Published(p) = [requests EXCEPT ![p] = made]
  <2>1. /\ made \in Requests /\ made.at = "queued" /\ made.wants = Present(m)
        /\ made.quiet = ~m.flushing /\ made.number = requests[p].number
        /\ made.listed = requests[p].listed
    BY <1>2, <1>3 DEF Requests, Stages
  <2>2. Published(p) = [requests EXCEPT ![p] = made]
    BY <1>2 DEF Published
  <2> HIDE DEF made
  <2> QED BY <1>2, <2>1, <2>2
<1>5. requests[p].number = "none" /\ ~requests[p].listed
  BY <1>1, PartsAre
<1> HIDE DEF made, m
<1>6. CASE ~MustBuffer(m)
  <2>1. PICK run \in {isolate.run, isolate.run + 1} :
              /\ isolate' = [isolate EXCEPT !.run = run]
              /\ requests' = [Published(p) EXCEPT ![p] = Called(@, run, TRUE)]
    BY <1>1, <1>6
  <2> DEFINE r == Called(made, run, TRUE)
  <2>2. run \in Int
    BY <1>2
  <2>3. /\ r \in Requests /\ r.at = "called" /\ r.number = requests[p].number
        /\ r.listed = requests[p].listed /\ r.wants = Present(m) /\ r.quiet = ~m.flushing
    BY <1>4, <2>2 DEF Called, Requests, Stages
  <2>4. requests' = [requests EXCEPT ![p] = r]
    <3>1. requests' = [Published(p) EXCEPT ![p] = r]
      BY <1>4, <2>1
    <3> HIDE DEF r
    <3> QED BY <1>2, <1>4, <3>1
  <2> HIDE DEF r
  <2>5. \A o \in r.wants : isolate.member.owners[o] > 0 \/ o \in isolate.left
    BY <2>3 DEF Present, m
  <2>6. count["refusals"] = 0 => r.wants \ isolate.left \subseteq kv
    BY <1>6, <2>3, PresentAreListed DEF m
  <2>7. /\ isolate' \in [subs : SUBSET Subscribers, member : Members, run : Int, left : SUBSET Owners]
        /\ isolate'.subs = isolate.subs /\ isolate'.member = isolate.member
        /\ isolate'.left = isolate.left
    BY <1>2, <2>1, <2>2
  <2> QED BY <1>1, <2>3, <2>4, <2>5, <2>6, <2>7, CalledKeeps
<1>7. CASE MustBuffer(m)
  <2>1. /\ requests' = Rejected(Published(p), gone)
        /\ isolate' = [isolate EXCEPT !.member.queued = kept]
    BY <1>1, <1>7
  <2>2. /\ \A u, q \in CfPublishes : u < q /\ requests[q].at # "none" => requests[u].at # "none"
        /\ \A i, j \in DOMAIN m.queued : i < j => m.queued[i] < m.queued[j]
        /\ \A i \in DOMAIN m.queued : requests[m.queued[i]].at = "queued"
        /\ \A q \in CfPublishes : requests[q].at = "queued" =>
              \E i \in DOMAIN m.queued : m.queued[i] = q
        /\ \A q \in CfPublishes : requests[q].at \in {"none", "queued", "called"} =>
              requests[q].number = "none" /\ ~requests[q].listed
        /\ \A q \in CfPublishes : requests[q].at = "none" => ~requests[q].quiet
    BY DEF KeyInv, PlacesHold, m
  <2>3. \A i \in DOMAIN m.queued : m.queued[i] \in CfPublishes
    BY <1>2, ElementOfSeq
  <2>4. \A i \in DOMAIN m.queued : m.queued[i] < p
    <3>1. SUFFICES ASSUME NEW i \in DOMAIN m.queued PROVE m.queued[i] < p
      OBVIOUS
    <3>2. m.queued[i] \in Nat /\ p \in Nat
      BY <1>2, <2>3, PlansAre
    <3>3. ~(p < m.queued[i]) /\ m.queued[i] # p
      BY <1>1, <2>2, <2>3
    <3> QED BY <3>2, <3>3
  <2>5. /\ kept \in Seq(CfPublishes)
        /\ \A i, j \in DOMAIN kept : i < j => kept[i] < kept[j]
        /\ \A i \in DOMAIN kept : kept[i] = p \/ \E j \in DOMAIN m.queued : m.queued[j] = kept[i]
    BY <1>2, <2>2, <2>4, BufferedIs
  <2>6. /\ ToSet(kept) = {kept[i] : i \in DOMAIN kept}
        /\ ToSet(m.queued) = {m.queued[i] : i \in DOMAIN m.queued}
    BY Zenon DEF ToSet
  <2> HIDE DEF kept
  <2>7. \A i \in DOMAIN kept : kept[i] \in CfPublishes /\ kept[i] \notin gone
    BY <2>5, <2>6, ElementOfSeq
  <2>8. \A q \in gone : q = p \/ requests[q].at = "queued"
    BY <2>2, <2>6
  <2>9. \A q \in CfPublishes : q = p \/ requests[q].at = "queued" =>
            q \in gone \/ \E i \in DOMAIN kept : kept[i] = q
    BY <2>2, <2>6
  <2> HIDE DEF gone
  <2>10. \A q \in CfPublishes :
            /\ q \in gone => requests'[q] = [Published(p)[q] EXCEPT !.at = "rejected"]
            /\ q \notin gone => requests'[q] = Published(p)[q]
    BY <2>1 DEF Rejected
  <2>11. \A q \in CfPublishes :
            /\ q \in gone => /\ requests'[q].at = "rejected"
                             /\ requests'[q].wants = Published(p)[q].wants
                             /\ requests'[q].quiet = Published(p)[q].quiet
                             /\ requests'[q].listed = Published(p)[q].listed
                             /\ requests'[q].had = Published(p)[q].had
                             /\ requests'[q].number = Published(p)[q].number
            /\ requests'[q] \in Requests
    <3>1. SUFFICES ASSUME NEW q \in CfPublishes
                   PROVE  /\ q \in gone => /\ requests'[q].at = "rejected"
                                           /\ requests'[q].wants = Published(p)[q].wants
                                           /\ requests'[q].quiet = Published(p)[q].quiet
                                           /\ requests'[q].listed = Published(p)[q].listed
                                           /\ requests'[q].had = Published(p)[q].had
                                           /\ requests'[q].number = Published(p)[q].number
                          /\ requests'[q] \in Requests
      OBVIOUS
    <3>2. Published(p)[q] \in Requests
      BY <1>4
    <3> QED BY <2>10, <3>2, ZenonT(180) DEF Requests, Stages
  <2>12. requests' \in [CfPublishes -> Requests]
    <3>1. requests' = [q \in CfPublishes |-> requests'[q]]
      BY <2>1 DEF Rejected
    <3> QED BY <2>11, <3>1
  <2>13. /\ isolate'.subs = isolate.subs /\ isolate'.left = isolate.left
         /\ isolate'.member.owners = m.owners /\ isolate'.member.exists = m.exists
         /\ isolate'.member.setups = m.setups /\ isolate'.member.flushing = m.flushing
         /\ isolate'.member.queued = kept
         /\ isolate' \in [subs : SUBSET Subscribers, member : Members, run : Int, left : SUBSET Owners]
    <3> DEFINE n == [m EXCEPT !.queued = kept]
    <3>1. /\ n \in Members /\ n.owners = m.owners /\ n.exists = m.exists /\ n.setups = m.setups
          /\ n.flushing = m.flushing /\ n.queued = kept
      BY <1>2, <2>5 DEF Members
    <3>2. isolate' = [isolate EXCEPT !.member = n]
      BY <1>2, <2>1 DEF m
    <3> HIDE DEF n
    <3> QED BY <1>2, <3>1, <3>2
  <2>14. CloudflareTypes'
    BY <1>1, <1>2, <2>12, <2>13, NamesStay DEF KeyInv, CloudflareTypes
  <2>15. OwnersCounted' /\ WritesAreOwned' /\ PresenceIsKept' /\ StateIsUsed'
    <3>1. m.setups > 0 \/ m.flushing
      BY <1>7 DEF MustBuffer
    <3> QED BY <1>1, <1>2, <2>13, <3>1, PresencesStay DEF m
  <2>16. WantedArePresent'
    <3>1. ASSUME NEW q \in CfPublishes
          PROVE  \/ /\ requests'[q].wants = requests[q].wants /\ requests'[q].quiet = requests[q].quiet
                    /\ Unlisted(q)' => Unlisted(q)
                    /\ requests'[q].listed =>
                         \/ requests[q].listed /\ requests'[q].had = requests[q].had
                         \/ Unlisted(q) /\ requests'[q].had = kv
                 \/ /\ \A o \in requests'[q].wants : isolate.member.owners[o] > 0 \/ o \in isolate.left
                    /\ ~requests'[q].listed
                    /\ count["refusals"] = 0 /\ requests'[q].quiet /\ Unlisted(q)' =>
                         requests'[q].wants \ isolate.left \subseteq kv
      <4>1. CASE q = p
        <5>1. requests'[q].wants = Present(m) /\ requests'[q].quiet = ~m.flushing
              /\ ~requests'[q].listed /\ requests'[q].at \in {"queued", "rejected"}
          BY <1>4, <1>5, <2>10, <2>11, <4>1
        <5>2. ~(requests'[q].quiet /\ Unlisted(q)')
          BY <2>13, <5>1 DEF Unlisted
        <5> QED BY <5>1, <5>2 DEF Present, m
      <4>2. CASE q # p
        <5>1. Published(p)[q] = requests[q]
          BY <1>4, <4>2
        <5> DEFINE s == requests'[q]
        <5>2. CASE q \in gone
          <6>1. /\ s.at = "rejected" /\ s.wants = requests[q].wants /\ s.quiet = requests[q].quiet
                /\ s.listed = requests[q].listed /\ s.had = requests[q].had
            BY <2>11, <5>1, <5>2
          <6>2. ~Unlisted(q)'
            BY <6>1 DEF Unlisted
          <6> HIDE DEF s
          <6> QED BY <6>1, <6>2 DEF s
        <5>3. CASE q \notin gone
          <6>1. s = requests[q]
            BY <2>10, <5>1, <5>3
          <6>2. isolate'.member.flushing = isolate.member.flushing
            BY <2>13 DEF m
          <6>3. Unlisted(q)' <=> Unlisted(q)
            BY <6>1, <6>2 DEF Unlisted
          <6> QED BY <6>1, <6>3
        <5> QED BY <5>2, <5>3
      <4> QED BY <4>1, <4>2
    <3> QED BY <1>1, <2>13, <3>1, WantedGoOn DEF KeyInv, m
  <2>17. PlacesHold'
    <3>1. CfPublishes' = CfPublishes
      BY <1>1, NamesStay
    <3>2. \A q \in CfPublishes : q # p =>
              /\ q \notin gone => requests'[q] = requests[q]
              /\ q \in gone => /\ requests'[q].at = "rejected" /\ requests[q].at = "queued"
                               /\ requests'[q].number = requests[q].number
                               /\ requests'[q].listed = requests[q].listed
      <4>1. SUFFICES ASSUME NEW q \in CfPublishes, q # p
                     PROVE  /\ q \notin gone => requests'[q] = requests[q]
                            /\ q \in gone => /\ requests'[q].at = "rejected" /\ requests[q].at = "queued"
                                             /\ requests'[q].number = requests[q].number
                                             /\ requests'[q].listed = requests[q].listed
        OBVIOUS
      <4>2. Published(p)[q] = requests[q]
        BY <1>4, <4>1
      <4>3. q \in gone => requests[q].at = "queued"
        BY <2>8, <4>1
      <4> QED BY <2>10, <2>11, <4>2, <4>3
    <3>3. /\ requests'[p].number = "none" /\ ~requests'[p].listed
          /\ IF p \in gone THEN requests'[p].at = "rejected" ELSE requests'[p].at = "queued"
      BY <1>4, <1>5, <2>10, <2>11
    <3>4. \A u, q \in CfPublishes : u < q /\ requests'[q].at # "none" => requests'[u].at # "none"
      BY <1>1, <2>2, <3>2, <3>3
    <3>5. \A i \in DOMAIN kept : requests'[kept[i]].at = "queued"
      BY <2>2, <2>5, <2>7, <3>2, <3>3
    <3>6. /\ \A q \in CfPublishes : requests'[q].at = "queued" =>
                \E i \in DOMAIN kept : kept[i] = q
          /\ \A q \in CfPublishes : requests'[q].at \in {"none", "queued", "called"} =>
                requests'[q].number = "none" /\ ~requests'[q].listed
          /\ \A q \in CfPublishes : requests'[q].at = "none" => ~requests'[q].quiet
      BY <2>2, <2>9, <3>2, <3>3
    <3>7. /\ \A i \in DOMAIN authority.chain : requests'[authority.chain[i]].at = "chained"
          /\ \A q \in CfPublishes : requests'[q].at = "chained" =>
                /\ \E i \in DOMAIN authority.chain : authority.chain[i] = q
                /\ requests'[q].number # "none" \/ requests'[q].listed => q = authority.chain[1]
      BY <1>1, <3>2, <3>3, PartsAre, SMTT(180)
    <3> QED BY <1>1, <2>5, <2>13, <3>1, <3>4, <3>5, <3>6, <3>7, PartsAre DEF PlacesHold
  <2> QED BY <2>14, <2>15, <2>16, <2>17 DEF KeyInv
<1> QED BY <1>6, <1>7

\* The next that waited goes, or the flush ends.
LEMMA FlushesKeep ==
    ASSUME KeyInv, Flushes
    PROVE  KeyInv'
<1> DEFINE m == isolate.member
<1>1. /\ cf' = cf /\ kv' = kv /\ writes' = writes /\ count' = count /\ authority' = authority
      /\ m.flushing
  BY DEF Flushes
<1>2. /\ requests \in [CfPublishes -> Requests]
      /\ isolate \in [subs : SUBSET Subscribers, member : Members, run : Int, left : SUBSET Owners]
      /\ m \in Members /\ m.queued \in Seq(CfPublishes) /\ m.flushing \in BOOLEAN
      /\ m.setups \in Nat /\ m.exists \in BOOLEAN
      /\ IsFiniteSet(isolate.subs) /\ count \in [BoundNames -> Nat] /\ cf \in Isolates
      /\ count["joins"] \in Nat
  BY PartsAre DEF KeyInv, CloudflareTypes, Members, BoundNames
<1>3. CASE m.queued = <<>>
  <2> DEFINE ended == [m EXCEPT !.flushing = FALSE]
             t     == TearDown(ended, isolate.subs)
  <2>1. requests' = requests /\ isolate' = [isolate EXCEPT !.member = t]
    BY <1>3 DEF Flushes
  <2>2. /\ ended \in Members /\ ended.owners = m.owners /\ ended.queued = <<>>
        /\ ended.setups = m.setups /\ ended.flushing = FALSE /\ ended.exists = m.exists
    BY <1>2, <1>3 DEF Members
  <2>3. /\ isolate.subs = {} => \A o \in Owners : m.owners[o] = 0
        /\ m.exists
        /\ m.setups = Cardinality({v \in writes : v.why = "setup"})
    <3>1. /\ \A o \in Owners : m.owners[o] = Cardinality(OwnedBy(cf.owners, isolate.subs, o))
          /\ m.exists /\ m.setups = Cardinality({v \in writes : v.why = "setup"})
      BY <1>1 DEF KeyInv, OwnersCounted, StateIsUsed
    <3>2. ASSUME isolate.subs = {}, NEW o \in Owners PROVE m.owners[o] = 0
      <4>1. Cardinality(OwnedBy(cf.owners, {}, o)) = 0
        BY NoneOwned
      <4>2. m.owners[o] = Cardinality(OwnedBy(cf.owners, isolate.subs, o))
        BY <3>1
      <4> QED BY <3>2, <4>1, <4>2
    <3> QED BY <3>1, <3>2
  <2> HIDE DEF ended
  <2>4. /\ t \in Members /\ t.owners = m.owners /\ t.queued = <<>>
        /\ t.setups = m.setups /\ t.flushing = FALSE
        /\ t.exists => isolate.subs # {} \/ m.setups > 0
        /\ isolate.subs # {} \/ m.setups > 0 => t.exists
    <3>1. isolate.subs = {} => \A o \in Owners : ended.owners[o] = 0
      BY <2>2, <2>3
    <3> HIDE DEF m
    <3> QED BY <2>2, <2>3, <3>1, TearDownDoes, ZenonT(180)
  <2> HIDE DEF t
  <2>5. /\ isolate'.subs = isolate.subs /\ isolate'.left = isolate.left /\ isolate'.member = t
        /\ isolate' \in [subs : SUBSET Subscribers, member : Members, run : Int, left : SUBSET Owners]
    BY <1>2, <2>1, <2>4
  <2>6. CloudflareTypes'
    BY <1>1, <1>2, <2>1, <2>5, NamesStay DEF KeyInv, CloudflareTypes
  <2>7. OwnersCounted'
    <3>1. isolate'.subs # {} \/ isolate'.member.setups > 0 \/ isolate'.member.flushing =>
              isolate'.member.exists
      BY <2>4, <2>5
    <3> QED BY <1>1, <2>4, <2>5, <3>1, NamesStay DEF KeyInv, OwnersCounted
  <2>8. WritesAreOwned' /\ PresenceIsKept'
    BY <1>1, <2>4, <2>5, NamesStay DEF KeyInv, WritesAreOwned, PresenceIsKept
  <2>9. PlacesHold'
    <3>1. isolate'.member.queued = isolate.member.queued /\ CfPublishes' = CfPublishes
          /\ requests' = requests /\ authority' = authority
      BY <1>1, <1>3, <2>1, <2>4, <2>5, NamesStay
    <3> QED BY <3>1 DEF KeyInv, PlacesHold
  <2>10. WantedArePresent'
    BY <1>1, <2>1, <2>4, <2>5, WantedStay DEF KeyInv
  <2>11. StateIsUsed'
    BY <1>1, <2>3, <2>4, <2>5 DEF StateIsUsed
  <2> QED BY <2>6, <2>7, <2>8, <2>9, <2>10, <2>11 DEF KeyInv
<1>4. CASE m.queued # <<>>
  <2> DEFINE p == Head(m.queued)
             r == Called(requests[p], 0 - p, FALSE)
             left == Tail(m.queued)
  <2>1. /\ requests' = [requests EXCEPT ![p] = r]
        /\ isolate' = [isolate EXCEPT !.member.queued = left]
    <3>1. requests' = [requests EXCEPT ![p] = Called(@, 0 - p, FALSE)]
          /\ isolate' = [isolate EXCEPT !.member.queued = Tail(@)]
      BY <1>4 DEF Flushes
    <3> QED BY <1>2, <3>1
  <2>2. PICK l \in Nat : l = Len(m.queued)
    BY <1>2, LenProperties
  <2>3. /\ p = m.queued[1] /\ 1 \in DOMAIN m.queued /\ p \in CfPublishes
        /\ left \in Seq(CfPublishes) /\ DOMAIN left = 1 .. l - 1 /\ DOMAIN m.queued = 1 .. l
        /\ \A i \in 1 .. l - 1 : left[i] = m.queued[i + 1]
    <3>1. l # 0 /\ DOMAIN m.queued = 1 .. l
      BY <1>2, <1>4, <2>2
    <3>2. p = m.queued[1] /\ 1 \in 1 .. l
      BY <1>2, <1>4, <2>2, <3>1
    <3>3. left \in Seq(CfPublishes) /\ Len(left) = l - 1 /\ \A i \in 1 .. l - 1 : left[i] = m.queued[i + 1]
      BY <1>2, <1>4, <2>2, HeadTailProperties
    <3>4. p \in CfPublishes
      BY <1>2, <3>1, <3>2, ElementOfSeq
    <3> HIDE DEF p, left
    <3> QED BY <2>2, <3>1, <3>2, <3>3, <3>4, LenProperties
  <2>4. \A i \in 1 .. l - 1 : i + 1 \in 1 .. l /\ 1 < i + 1 /\ i \in Nat
    BY <2>2
  <2>5. \A i \in 1 .. l : i # 1 => i - 1 \in 1 .. l - 1 /\ (i - 1) + 1 = i
    BY <2>2
  <2>6. /\ \A u, q \in CfPublishes : u < q /\ requests[q].at # "none" => requests[u].at # "none"
        /\ \A i, j \in DOMAIN m.queued : i < j => m.queued[i] < m.queued[j]
        /\ \A i \in DOMAIN m.queued : requests[m.queued[i]].at = "queued"
        /\ \A q \in CfPublishes : requests[q].at = "queued" =>
              \E i \in DOMAIN m.queued : m.queued[i] = q
        /\ \A q \in CfPublishes : requests[q].at \in {"none", "queued", "called"} =>
              requests[q].number = "none" /\ ~requests[q].listed
        /\ \A q \in CfPublishes : requests[q].at = "none" => ~requests[q].quiet
    BY DEF KeyInv, PlacesHold
  <2> HIDE DEF p, left
  <2>7. requests[p].at = "queued" /\ p \in Nat
    BY <1>2, <2>3, <2>6, PlansAre
  <2>8. /\ r \in Requests /\ r.at = "called" /\ r.number = requests[p].number
        /\ r.listed = requests[p].listed /\ r.wants = requests[p].wants /\ r.quiet = requests[p].quiet
    <3>1. requests[p] \in Requests /\ 0 - p \in Int
      BY <1>2, <2>3, <2>7
    <3> QED BY <3>1 DEF Called, Requests, Stages
  <2> HIDE DEF r
  <2>9. /\ requests' \in [CfPublishes -> Requests] /\ requests'[p] = r
        /\ \A q \in CfPublishes : q # p => requests'[q] = requests[q]
    BY <1>2, <2>1, <2>3, <2>8
  <2>10. /\ isolate'.subs = isolate.subs /\ isolate'.left = isolate.left
         /\ isolate'.member.owners = m.owners /\ isolate'.member.exists = m.exists
         /\ isolate'.member.setups = m.setups /\ isolate'.member.flushing = m.flushing
         /\ isolate'.member.queued = left
         /\ isolate' \in [subs : SUBSET Subscribers, member : Members, run : Int, left : SUBSET Owners]
    <3> DEFINE n == [m EXCEPT !.queued = left]
    <3>1. /\ n \in Members /\ n.owners = m.owners /\ n.exists = m.exists /\ n.setups = m.setups
          /\ n.flushing = m.flushing /\ n.queued = left
      BY <1>2, <2>3 DEF Members
    <3>2. isolate' = [isolate EXCEPT !.member = n]
      BY <1>2, <2>1
    <3> HIDE DEF n, m
    <3> QED BY <1>2, <3>1, <3>2
  <2>11. CloudflareTypes'
    BY <1>1, <1>2, <2>9, <2>10, NamesStay DEF KeyInv, CloudflareTypes
  <2>12. OwnersCounted' /\ WritesAreOwned' /\ PresenceIsKept' /\ StateIsUsed'
    BY <1>1, <1>2, <2>10, PresencesStay
  <2>13. WantedArePresent'
    <3>1. ASSUME NEW q \in CfPublishes
          PROVE  /\ requests'[q].wants = requests[q].wants /\ requests'[q].quiet = requests[q].quiet
                 /\ Unlisted(q)' => Unlisted(q)
                 /\ requests'[q].listed => requests[q].listed /\ requests'[q].had = requests[q].had
      <4>1. CASE q = p
        <5>1. ~requests[p].listed
          BY <2>3, <2>6, <2>7
        <5> QED BY <1>1, <2>7, <2>8, <2>9, <4>1, <5>1 DEF Unlisted
      <4>2. CASE q # p
        BY <2>9, <2>10, <4>2 DEF Unlisted
      <4> QED BY <4>1, <4>2
    <3> QED BY <1>1, <2>10, <3>1, WantedGoOn DEF KeyInv
  <2>14. PlacesHold'
    <3>1. CfPublishes' = CfPublishes
      BY <1>1, NamesStay
    <3>2. \A u, q \in CfPublishes : u < q /\ requests'[q].at # "none" => requests'[u].at # "none"
      <4>1. \A q \in CfPublishes : requests'[q].at = "none" <=> requests[q].at = "none"
        <5>1. SUFFICES ASSUME NEW q \in CfPublishes
                       PROVE requests'[q].at = "none" <=> requests[q].at = "none"
          OBVIOUS
        <5>2. CASE q = p
          BY <2>7, <2>8, <2>9, <5>2
        <5>3. CASE q # p
          BY <2>9, <5>3
        <5> QED BY <5>2, <5>3
      <4> QED BY <2>6, <4>1
    <3>3. \A i \in DOMAIN left : left[i] # p /\ left[i] \in CfPublishes /\ requests[left[i]].at = "queued"
      <4>1. SUFFICES ASSUME NEW i \in 1 .. l - 1
                     PROVE  /\ m.queued[i + 1] # p /\ m.queued[i + 1] \in CfPublishes
                            /\ requests[m.queued[i + 1]].at = "queued"
        BY <2>3
      <4> DEFINE j == i + 1
      <4>2. 1 < j /\ j \in 1 .. l
        BY <2>4
      <4> HIDE DEF j
      <4>3. j \in DOMAIN m.queued /\ 1 \in DOMAIN m.queued
        BY <2>3, <4>2
      <4>4. m.queued[1] < m.queued[j] /\ requests[m.queued[j]].at = "queued"
        BY <2>6, <4>2, <4>3
      <4>5. m.queued[j] \in CfPublishes
        BY <1>2, <4>3, ElementOfSeq
      <4>6. m.queued[j] # p
        BY <2>3, <2>7, <4>4
      <4> QED BY <4>4, <4>5, <4>6 DEF j
    <3>4. \A i \in DOMAIN left : requests'[left[i]].at = "queued"
      BY <2>9, <3>3
    <3>5. \A i, j \in DOMAIN left : i < j => left[i] < left[j]
      <4>1. SUFFICES ASSUME NEW i \in 1 .. l - 1, NEW j \in 1 .. l - 1, i < j
                     PROVE  m.queued[i + 1] < m.queued[j + 1]
        BY <2>3
      <4>2. i + 1 \in DOMAIN m.queued /\ j + 1 \in DOMAIN m.queued /\ i + 1 < j + 1
        BY <2>2, <2>3, <2>4, <4>1
      <4> QED BY <2>6, <4>2
    <3>6. /\ \A q \in CfPublishes : requests'[q].at = "queued" =>
                \E i \in DOMAIN left : left[i] = q
          /\ \A q \in CfPublishes : requests'[q].at \in {"none", "queued", "called"} =>
                requests'[q].number = "none" /\ ~requests'[q].listed
          /\ \A q \in CfPublishes : requests'[q].at = "none" => ~requests'[q].quiet
      <4>1. ASSUME NEW q \in CfPublishes, requests'[q].at = "queued"
            PROVE  \E i \in DOMAIN left : left[i] = q
        <5>1. q # p /\ requests[q].at = "queued"
          BY <2>8, <2>9, <4>1
        <5>2. PICK i \in 1 .. l : m.queued[i] = q
          BY <2>3, <2>6, <5>1
        <5>3. i # 1
          BY <2>3, <5>1, <5>2
        <5> QED BY <2>3, <2>5, <5>2, <5>3, ZenonT(180)
      <4>2. ASSUME NEW q \in CfPublishes
            PROVE  /\ requests'[q].at \in {"none", "queued", "called"} =>
                         requests'[q].number = "none" /\ ~requests'[q].listed
                   /\ requests'[q].at = "none" => ~requests'[q].quiet
        <5>1. CASE q = p
          BY <2>3, <2>6, <2>7, <2>8, <2>9, <5>1
        <5>2. CASE q # p
          <6>1. requests'[q] = requests[q]
            BY <2>9, <5>2
          <6> QED BY <2>6, <6>1
        <5> QED BY <5>1, <5>2
      <4> QED BY <4>1, <4>2
    <3>7. /\ \A i \in DOMAIN authority.chain : requests'[authority.chain[i]].at = "chained"
          /\ \A q \in CfPublishes : requests'[q].at = "chained" =>
                /\ \E i \in DOMAIN authority.chain : authority.chain[i] = q
                /\ requests'[q].number # "none" \/ requests'[q].listed => q = authority.chain[1]
      BY <2>7, <2>8, <2>9, PartsAre
    <3> QED BY <1>1, <2>10, <3>1, <3>2, <3>4, <3>5, <3>6, <3>7, PartsAre DEF PlacesHold
  <2> QED BY <2>11, <2>12, <2>13, <2>14 DEF KeyInv
<1> QED BY <1>3, <1>4

-----------------------------------------------------------------------------
\* A key begins with nothing.
LEMMA KeyStarts == CloudflareInit => KeyInv
<1> SUFFICES ASSUME CloudflareInit PROVE KeyInv
  OBVIOUS
<1>1. /\ cf \in Isolates /\ kv = {} /\ writes = {}
      /\ isolate = [subs |-> {}, member |-> NoState, run |-> 1, left |-> {}]
      /\ requests = [p \in CfPublishes |-> [at |-> "none", run |-> 0, direct |-> FALSE, seq |-> 0,
                                        number |-> "none", listed |-> FALSE,
                                        wants |-> {}, quiet |-> FALSE, had |-> {}]]
      /\ authority = [chain |-> <<>>, cache |-> 0, stored |-> 0, seen |-> 0]
      /\ count = [joins |-> 0, leaves |-> 0, refusals |-> 0, breaks |-> 0, restarts |-> 0]
  BY DEF CloudflareInit
<1>2. /\ isolate.subs = {} /\ isolate.member = NoState /\ isolate.left = {}
      /\ authority.chain = <<>>
  BY <1>1
<1>3. count \in [BoundNames -> Nat]
  BY <1>1 DEF BoundNames
<1>4. CloudflareTypes
  <2>1. isolate \in [subs : SUBSET Subscribers, member : Members, run : Int, left : SUBSET Owners]
    BY <1>1, NoStateIs
  <2>2. requests \in [CfPublishes -> Requests]
    BY <1>1 DEF Requests, Stages
  <2>3. authority \in [chain : Seq(CfPublishes), cache : Nat, stored : Nat, seen : Nat]
    <3>1. <<>> \in Seq(CfPublishes)
      OBVIOUS
    <3> QED BY <1>1, <3>1
  <2>4. IsFiniteSet(isolate.subs) /\ IsFiniteSet(writes)
    BY <1>1, <1>2, FS_EmptySet
  <2> QED BY <1>1, <1>3, <2>1, <2>2, <2>3, <2>4 DEF CloudflareTypes
<1>5. OwnersCounted
  BY <1>2, NoStateIs, NoneOwned DEF OwnersCounted
<1>6. WritesAreOwned /\ PresenceIsKept
  BY <1>1, <1>2, NoStateIs DEF WritesAreOwned, PresenceIsKept
<1>7. PlacesHold
  <2>1. DOMAIN isolate.member.queued = {} /\ DOMAIN authority.chain = {}
    BY <1>2, NoStateIs
  <2>2. \A p \in CfPublishes : /\ requests[p].at = "none" /\ requests[p].number = "none"
                               /\ ~requests[p].listed /\ ~requests[p].quiet
    BY <1>1
  <2> QED BY <2>1, <2>2 DEF PlacesHold
<1>8. WantedArePresent
  <2>1. \A p \in CfPublishes : requests[p].wants = {}
    BY <1>1
  <2> QED BY <2>1 DEF WantedArePresent
<1>9. StateIsUsed
  <2>1. {w \in writes : w.why = "setup"} = {}
    BY <1>1
  <2> QED BY <1>2, <2>1, NoStateIs, FS_EmptySet DEF StateIsUsed
<1> QED BY <1>4, <1>5, <1>6, <1>7, <1>8, <1>9 DEF KeyInv

\* Each step keeps it.
LEMMA KeySteps == KeyInv /\ [CloudflareNext]_cloudflareVars => KeyInv'
<1> SUFFICES ASSUME KeyInv, [CloudflareNext]_cloudflareVars PROVE KeyInv'
  OBVIOUS
<1>1. CASE UNCHANGED cloudflareVars
  <2>1. /\ cf' = cf /\ isolate' = isolate /\ kv' = kv /\ writes' = writes /\ requests' = requests
        /\ authority' = authority /\ count' = count
    BY <1>1 DEF cloudflareVars
  <2>2. \A p \in CfPublishes :
               /\ CallGoesOn(p)
               /\ requests[p].at = "chained" <=> requests'[p].at = "chained"
               /\ requests[p].at = "chained" =>
                    \/ requests'[p].number = requests[p].number /\ requests'[p].listed = requests[p].listed
                    \/ p = authority.chain[1]
    BY <2>1, SameGoesOn
  <2> QED BY <2>1, <2>2, ChainStays, PartsAre
<1>2. CASE \E s \in Subscribers : AddSubscriber(s) \/ RemoveSubscriber(s)
  BY <1>2, AddKeeps, RemoveKeeps
<1>3. CASE \E w \in writes : WriteEnds(w)
  BY <1>3, WriteEndsKeeps
<1>4. CASE Refresh \/ AuthorityRestarts
  BY <1>4, RefreshKeeps, RestartsKeep
<1>5. CASE \E o \in Owners : Expires(o)
  BY <1>5, ExpiresKeeps
<1>6. CASE \E p \in CfPublishes : IsolatePublishes(p) \/ PublishElsewhere(p) \/ ListFails(p)
  BY <1>6, PublishesKeep, ElsewhereKeeps, LeavesKeeps
<1>7. CASE \E h \in Hops : StubBreaks(h)
  BY <1>7, HopsKeep
<1>8. CASE PublishStep
  <2>1. CASE \E p \in CfPublishes : AuthorityStep(p)
    BY <2>1, ArrivesKeeps, HeadKeeps, LeavesKeeps DEF AuthorityStep
  <2>2. CASE Flushes
    BY <2>2, FlushesKeep
  <2>3. CASE CoordinatorTakes \/ CoordinatorAnswers \/ \E h \in Hops : HopStep(h)
    BY <2>3, HopsKeep
  <2> QED BY <1>8, <2>1, <2>2, <2>3 DEF PublishStep
<1> QED BY <1>1, <1>2, <1>3, <1>4, <1>5, <1>6, <1>7, <1>8 DEF CloudflareNext

\* For any subscribers, publishes and bounds: the state of a key goes with its last subscriber,
\* setup and flush, and a publish made with no flush under way reaches the owners present.
THEOREM KeyHolds == CloudflareSpec => []KeyStateHolds
<1>1. KeyInv => KeyStateHolds
  <2> SUFFICES ASSUME KeyInv PROVE KeyStateHolds
    OBVIOUS
  <2>1. OwnSubscribersHearQuietly
    BY DEF KeyInv, WantedArePresent, OwnSubscribersHearQuietly, Reaches
  <2> QED BY <2>1 DEF KeyStateHolds, KeyInv
<1> QED BY <1>1, KeyStarts, KeySteps, PTL DEF CloudflareSpec


-----------------------------------------------------------------------------
(* Calls in lines *)

\* What a state of calls is made of.
LEMMA LineParts ==
    ASSUME NEW o \in LineStates
    PROVE  /\ o.line \in Nat /\ o.stubs \in Seq(StubRecords) /\ o.calls \in Seq(CallRecords)
           /\ Len(o.stubs) \in Nat /\ DOMAIN o.stubs = 1 .. Len(o.stubs)
           /\ Len(o.calls) \in Nat /\ DOMAIN o.calls = 1 .. Len(o.calls)
           /\ \A i \in DOMAIN o.calls :
                 /\ i \in Nat /\ o.calls[i] \in CallRecords /\ o.calls[i].id \in CfPublishes
                 /\ o.calls[i].stub \in Nat /\ o.calls[i].at \in {"waits", "sent", "taken", "done"}
           /\ \A n \in DOMAIN o.stubs :
                 /\ n \in Nat \ {0} /\ o.stubs[n] \in StubRecords /\ o.stubs[n].after \in Nat
<1>1. o.line \in Nat /\ o.stubs \in Seq(StubRecords) /\ o.calls \in Seq(CallRecords)
  BY DEF LineStates
<1>2. /\ Len(o.stubs) \in Nat /\ DOMAIN o.stubs = 1 .. Len(o.stubs)
      /\ Len(o.calls) \in Nat /\ DOMAIN o.calls = 1 .. Len(o.calls)
  BY <1>1, LenProperties
<1>3. ASSUME NEW i \in DOMAIN o.calls
      PROVE  /\ i \in Nat /\ o.calls[i] \in CallRecords /\ o.calls[i].id \in CfPublishes
             /\ o.calls[i].stub \in Nat /\ o.calls[i].at \in {"waits", "sent", "taken", "done"}
  <2>1. o.calls[i] \in CallRecords
    BY <1>1, <1>2, ElementOfSeq
  <2> QED BY <1>2, <2>1 DEF CallRecords
<1>4. ASSUME NEW n \in DOMAIN o.stubs
      PROVE  /\ n \in Nat \ {0} /\ o.stubs[n] \in StubRecords /\ o.stubs[n].after \in Nat
  <2>1. o.stubs[n] \in StubRecords
    BY <1>1, <1>2, ElementOfSeq
  <2> QED BY <1>2, <2>1 DEF StubRecords
<1> QED BY <1>1, <1>2, <1>3, <1>4

\* The calls of c are those of o, of which none is pending that was not.
SameCalls(o, c) ==
    /\ c \in LineStates /\ LinesHold(c) /\ DOMAIN c.calls \subseteq DOMAIN o.calls
    /\ \A i \in DOMAIN c.calls : c.calls[i].id = o.calls[i].id /\ (Pending(c, i) => Pending(o, i))

\* With no calls, nothing is broken.
LEMMA NoCallsHold == NoCalls \in LineStates /\ LinesHold(NoCalls) /\ DOMAIN NoCalls.calls = {}
<1>1. /\ NoCalls \in LineStates /\ NoCalls.line = 0 /\ NoCalls.stubs = <<>> /\ NoCalls.calls = <<>>
  BY DEF NoCalls, LineStates
<1>2. DOMAIN NoCalls.calls = {} /\ DOMAIN NoCalls.stubs = {}
  BY <1>1
<1> QED BY <1>1, <1>2 DEF LinesHold

\* A call goes behind the others.
LEMMA CallDoes ==
    ASSUME NEW o \in LineStates, LinesHold(o), NEW p \in CfPublishes
    PROVE  /\ Call(o, p) \in LineStates /\ LinesHold(Call(o, p))
           /\ DOMAIN Call(o, p).calls = 1 .. Len(o.calls) + 1
           /\ \A i \in 1 .. Len(o.calls) : Call(o, p).calls[i] = o.calls[i]
           /\ Call(o, p).calls[Len(o.calls) + 1].id = p
<1> DEFINE opens == o.line = 0 \/ (o.line > 0 /\ o.stubs[o.line].failed)
           n     == IF opens THEN Len(o.stubs) + 1 ELSE o.line
           after == IF opens THEN o.line ELSE o.stubs[n].after
           stub  == [failed |-> FALSE, broken |-> FALSE, after |-> after]
           stubs == IF opens THEN Append(o.stubs, stub) ELSE o.stubs
           call  == [id |-> p, stub |-> n, at |-> IF after = 0 THEN "sent" ELSE "waits"]
           made == Append(o.calls, call)
           c     == [line |-> n, stubs |-> stubs, calls |-> made]
<1>1. Call(o, p) = c
  BY DEF Call
<1>2. PICK l \in Nat : l = Len(o.calls)
  BY LineParts
<1>3. PICK k \in Nat : k = Len(o.stubs)
  BY LineParts
<1>4. /\ o.line \in {0, k} /\ o.line \in Nat /\ DOMAIN o.stubs = 1 .. k /\ DOMAIN o.calls = 1 .. l
  BY <1>2, <1>3, LineParts DEF LinesHold
<1>5. ~opens => o.line = k /\ k \in 1 .. k /\ n = k
  BY <1>3, <1>4
<1>6. /\ n \in Nat /\ n \in k .. k + 1 /\ n > 0
      /\ after \in Nat /\ after \in {0, n - 1}
      /\ opens => n = k + 1 /\ after = o.line
  <2>1. CASE opens
    BY <1>3, <1>4, <2>1
  <2>2. CASE ~opens
    <3>1. o.stubs[k].after \in Nat /\ o.stubs[k].after \in {0, k - 1}
      BY <1>4, <1>5, <2>2, LineParts DEF LinesHold
    <3> QED BY <1>3, <1>5, <2>2, <3>1
  <2> QED BY <2>1, <2>2
<1> HIDE DEF n, after
<1>7. stub \in StubRecords /\ call \in CallRecords
  BY <1>6 DEF StubRecords, CallRecords
<1>8. /\ stubs \in Seq(StubRecords)
      /\ DOMAIN stubs = 1 .. n /\ Len(stubs) = n
      /\ \A j \in 1 .. k : stubs[j] = o.stubs[j]
      /\ opens => stubs[n] = stub
      /\ 1 .. k \subseteq 1 .. n
      /\ \A j \in 1 .. n : j \in 1 .. k \/ (j = n /\ opens)
  <2>1. CASE opens
    <3> HIDE DEF stub, opens
    <3>1. stubs = Append(o.stubs, stub)
      BY <2>1
    <3> HIDE DEF stubs
    <3>2. /\ stubs \in Seq(StubRecords) /\ Len(stubs) = k + 1
          /\ \A j \in 1 .. k : stubs[j] = o.stubs[j]
          /\ stubs[k + 1] = stub
      BY <1>3, <1>7, <3>1, LineParts, AppendProperties
    <3>3. n = k + 1
      BY <1>6, <2>1
    <3>4. \A j \in 1 .. k + 1 : j \in 1 .. k \/ j = k + 1
      BY <1>3
    <3>5. 1 .. k \subseteq 1 .. k + 1
      BY <1>3
    <3> QED BY <2>1, <3>2, <3>3, <3>4, <3>5, LenProperties
  <2>2. CASE ~opens
    <3>1. stubs = o.stubs /\ n = k
      BY <1>5, <2>2
    <3> QED BY <1>3, <1>4, <2>2, <3>1, LineParts
  <2> QED BY <2>1, <2>2
<1>9. /\ made \in Seq(CallRecords) /\ DOMAIN made = 1 .. l + 1 /\ Len(made) = l + 1
      /\ \A j \in 1 .. l : made[j] = o.calls[j]
      /\ made[l + 1] = call
  <2> HIDE DEF call
  <2> QED BY <1>2, <1>7, LineParts, AppendProperties, LenProperties
<1>10. /\ call.id = p /\ call.stub = n /\ call.at \in {"sent", "waits"}
       /\ call.at = "sent" => after = 0
  OBVIOUS
<1>11. stub.after = after
  OBVIOUS
<1>12. /\ c.line = n /\ c.stubs = stubs /\ c.calls = made
       /\ c \in LineStates
  BY <1>6, <1>8, <1>9 DEF LineStates
<1>13. opens => /\ after = o.line
                /\ after = 0 => \A j \in 1 .. l : o.calls[j].at = "done"
  BY <1>4, <1>6 DEF LinesHold
<1>14. ~opens => after = o.stubs[k].after
  BY <1>5 DEF after
<1> HIDE DEF opens, call, stub, made, stubs, c
<1>15. \A j \in 1 .. l + 1 : j \in 1 .. l \/ j = l + 1
  BY <1>2
<1>16. \A j \in 1 .. l : /\ j \in Nat /\ j < l + 1 /\ o.calls[j].stub \in 1 .. k /\ o.calls[j].stub \in Nat
                         /\ o.calls[j].stub <= n
  BY <1>2, <1>3, <1>4, <1>6, LineParts, SMTT(180) DEF LinesHold
<1>17. after = 0 => \A j \in 1 .. l : o.calls[j].stub < n => o.calls[j].at = "done"
  <2>1. CASE opens
    BY <1>13, <2>1
  <2>2. CASE ~opens
    BY <1>4, <1>5, <1>14, <2>2 DEF LinesHold
  <2> QED BY <2>1, <2>2
<1>18. LinesHold(c)
  <2>1. c.line \in {0, Len(c.stubs)}
    BY <1>8, <1>12
  <2>2. \A i \in 1 .. l + 1 : made[i].stub \in 1 .. n
    BY <1>3, <1>6, <1>8, <1>9, <1>10, <1>15, <1>16, SMTT(180)
  <2>3. \A i, j \in 1 .. l + 1 : i < j => made[i].stub <= made[j].stub
    <3>1. SUFFICES ASSUME NEW i \in 1 .. l + 1, NEW j \in 1 .. l + 1, i < j
                   PROVE  made[i].stub <= made[j].stub
      OBVIOUS
    <3>2. i \in 1 .. l
      BY <1>2, <3>1
    <3>3. CASE j \in 1 .. l
      BY <1>4, <1>9, <3>1, <3>2, <3>3 DEF LinesHold
    <3>4. CASE j = l + 1
      BY <1>9, <1>10, <1>16, <3>2, <3>4
    <3> QED BY <1>15, <3>3, <3>4
  <2>4. ASSUME NEW j \in 1 .. n
        PROVE  /\ stubs[j].after \in {0, j - 1}
               /\ \E i \in 1 .. l + 1 : made[i].stub = j
               /\ stubs[j].after = 0 =>
                     \A i \in 1 .. l + 1 : made[i].stub < j => made[i].at = "done"
    <3>1. CASE j \in 1 .. k
      <4>1. /\ o.stubs[j].after \in {0, j - 1}
            /\ \E i \in 1 .. l : o.calls[i].stub = j
            /\ o.stubs[j].after = 0 =>
                  \A i \in 1 .. l : o.calls[i].stub < j => o.calls[i].at = "done"
        BY <1>4, <3>1 DEF LinesHold
      <4>2. ~(n < j)
        BY <1>3, <1>6, <3>1
      <4>3. \A i \in 1 .. l : i \in 1 .. l + 1
        BY <1>2
      <4> QED BY <1>8, <1>9, <1>10, <1>15, <3>1, <4>1, <4>2, <4>3, SMTT(180)
    <3>2. CASE j = n /\ opens
      <4>1. stubs[j].after = after
        BY <1>8, <1>11, <3>2
      <4>2. l + 1 \in 1 .. l + 1 /\ made[l + 1].stub = j
        BY <1>2, <1>9, <1>10, <3>2
      <4>3. ~(n < j)
        BY <1>6, <3>2
      <4> QED BY <1>6, <1>9, <1>10, <1>15, <1>17, <3>2, <4>1, <4>2, <4>3
    <3> QED BY <1>8, <3>1, <3>2
  <2>5. ASSUME NEW i \in 1 .. l + 1, NEW j \in 1 .. l + 1, made[i].at # "waits",
               made[j].stub < made[i].stub
        PROVE  made[j].at = "done"
    <3>1. CASE i \in 1 .. l /\ j \in 1 .. l
      <4>1. o.calls[i].at # "waits" /\ o.calls[j].stub < o.calls[i].stub
        BY <1>9, <2>5, <3>1
      <4>2. o.calls[j].at = "done"
        BY <1>4, <3>1, <4>1, ZenonT(180) DEF LinesHold
      <4> QED BY <1>9, <3>1, <4>2
    <3>2. CASE i = l + 1
      <4>1. after = 0 /\ made[i].stub = n
        BY <1>9, <1>10, <2>5, <3>2
      <4>2. j \in 1 .. l
        BY <1>6, <1>9, <1>10, <1>15, <2>5, <3>2
      <4> QED BY <1>9, <1>17, <2>5, <4>1, <4>2
    <3>3. CASE i \in 1 .. l /\ j = l + 1
      BY <1>6, <1>9, <1>10, <1>16, <2>5, <3>3
    <3> QED BY <1>15, <3>1, <3>2, <3>3
  <2>6. c.line # 0
    BY <1>6, <1>12
  <2>7. DOMAIN c.stubs = 1 .. n /\ DOMAIN c.calls = 1 .. l + 1 /\ c.stubs = stubs /\ c.calls = made
    BY <1>8, <1>9, <1>12
  <2>8. \A i, j \in 1 .. l + 1 : made[i].at # "waits" /\ made[j].stub < made[i].stub => made[j].at = "done"
    BY <2>5
  <2> HIDE DEF LinesHold
  <2>9. /\ \A i \in DOMAIN c.calls : c.calls[i].stub \in DOMAIN c.stubs
        /\ \A i, j \in DOMAIN c.calls : i < j => c.calls[i].stub <= c.calls[j].stub
        /\ \A i, j \in DOMAIN c.calls :
              c.calls[i].at # "waits" /\ c.calls[j].stub < c.calls[i].stub => c.calls[j].at = "done"
    BY <2>2, <2>3, <2>7, <2>8
  <2>10. \A j \in DOMAIN c.stubs :
            /\ c.stubs[j].after \in {0, j - 1}
            /\ \E i \in DOMAIN c.calls : c.calls[i].stub = j
            /\ c.stubs[j].after = 0 =>
                  \A i \in DOMAIN c.calls : c.calls[i].stub < j => c.calls[i].at = "done"
    BY <2>4, <2>7
  <2> QED BY <2>1, <2>6, <2>9, <2>10 DEF LinesHold
<1> QED BY <1>1, <1>2, <1>9, <1>10, <1>12, <1>18

\* Calls that go on in their lines are the same calls.
LEMMA LinesStay ==
    ASSUME NEW o \in LineStates, LinesHold(o), NEW c \in LineStates,
           DOMAIN c.calls = DOMAIN o.calls, DOMAIN c.stubs = DOMAIN o.stubs,
           \A n \in DOMAIN o.stubs : c.stubs[n].after = o.stubs[n].after,
           \A i \in DOMAIN o.calls :
               /\ c.calls[i].id = o.calls[i].id /\ c.calls[i].stub = o.calls[i].stub
               /\ o.calls[i].at = "done" => c.calls[i].at = "done"
               /\ Pending(c, i) => Pending(o, i)
               /\ c.calls[i].at # "waits" /\ o.calls[i].at = "waits" =>
                    \A j \in DOMAIN o.calls :
                        o.calls[j].stub < o.calls[i].stub => o.calls[j].at = "done",
           c.line = o.line \/ (c.line = 0 /\ \A i \in DOMAIN o.calls : c.calls[i].at = "done")
    PROVE  SameCalls(o, c)
<1>1. Len(c.stubs) = Len(o.stubs)
  <2>1. DOMAIN c.stubs = 1 .. Len(c.stubs) /\ DOMAIN o.stubs = 1 .. Len(o.stubs)
        /\ Len(c.stubs) \in Nat /\ Len(o.stubs) \in Nat
    BY LineParts
  <2>2. 1 .. Len(c.stubs) = 1 .. Len(o.stubs)
    BY <2>1
  <2>3. \A a, b \in Nat : 1 .. a = 1 .. b => a = b
    <3>1. SUFFICES ASSUME NEW a \in Nat, NEW b \in Nat, 1 .. a = 1 .. b PROVE a = b
      OBVIOUS
    <3>2. ~(a < b)
      <4>1. a < b => b \in 1 .. b /\ b \notin 1 .. a
        OBVIOUS
      <4> QED BY <3>1, <4>1
    <3>3. ~(b < a)
      <4>1. b < a => a \in 1 .. a /\ a \notin 1 .. b
        OBVIOUS
      <4> QED BY <3>1, <4>1
    <3> QED BY <3>2, <3>3
  <2> QED BY <2>1, <2>2, <2>3
<1>2. c.line \in {0, Len(c.stubs)}
  BY <1>1 DEF LinesHold
<1>3. /\ \A i \in DOMAIN c.calls : c.calls[i].stub \in DOMAIN c.stubs
      /\ \A i, j \in DOMAIN c.calls : i < j => c.calls[i].stub <= c.calls[j].stub
  BY DEF LinesHold
<1>4. ASSUME NEW n \in DOMAIN c.stubs
      PROVE  /\ c.stubs[n].after \in {0, n - 1}
             /\ \E i \in DOMAIN c.calls : c.calls[i].stub = n
             /\ c.stubs[n].after = 0 =>
                   \A j \in DOMAIN c.calls : c.calls[j].stub < n => c.calls[j].at = "done"
  <2>1. /\ o.stubs[n].after \in {0, n - 1}
        /\ \E i \in DOMAIN o.calls : o.calls[i].stub = n
        /\ o.stubs[n].after = 0 =>
              \A j \in DOMAIN o.calls : o.calls[j].stub < n => o.calls[j].at = "done"
    BY DEF LinesHold
  <2> QED BY <2>1
<1>5. ASSUME NEW i \in DOMAIN c.calls, NEW j \in DOMAIN c.calls,
             c.calls[i].at # "waits", c.calls[j].stub < c.calls[i].stub
      PROVE  c.calls[j].at = "done"
  <2>1. o.calls[j].at = "done"
    BY <1>5, ZenonT(180) DEF LinesHold
  <2> QED BY <2>1
<1>6. c.line = 0 => \A i \in DOMAIN c.calls : c.calls[i].at = "done"
  BY DEF LinesHold
<1>7. LinesHold(c)
  <2> HIDE DEF LinesHold
  <2> QED BY <1>2, <1>3, <1>4, <1>5, <1>6 DEF LinesHold
<1> QED BY <1>7 DEF SameCalls

\* One that is as it was, too.
LEMMA SameStay ==
    ASSUME NEW o \in LineStates, LinesHold(o)
    PROVE  SameCalls(o, o)
BY DEF SameCalls

\* The target takes a call, those before it taken.
LEMMA TakeDoes ==
    ASSUME NEW o \in LineStates, LinesHold(o), NEW i \in MayTake(o)
    PROVE  /\ i \in DOMAIN o.calls /\ SameCalls(o, Take(o, i)) /\ Pending(o, i)
           /\ DOMAIN Take(o, i).calls = DOMAIN o.calls
           /\ Take(o, i).calls[i].at = "taken"
           /\ \A j \in DOMAIN o.calls : j < i => ~Pending(Take(o, i), j)
<1> DEFINE c == Take(o, i)
<1>1. i \in DOMAIN o.calls /\ o.calls[i].at = "sent"
  BY DEF MayTake
<1>2. /\ c.line = o.line /\ c.stubs = o.stubs /\ DOMAIN c.calls = DOMAIN o.calls
      /\ c.calls[i].at = "taken"
      /\ \A j \in DOMAIN o.calls :
            /\ c.calls[j].id = o.calls[j].id /\ c.calls[j].stub = o.calls[j].stub
            /\ j # i => c.calls[j] = o.calls[j]
  <2>1. c = [o EXCEPT !.calls = [o.calls EXCEPT ![i] = [o.calls[i] EXCEPT !.at = "taken"]]]
    BY <1>1, LineParts DEF Take, LineStates
  <2>3. c.calls = [o.calls EXCEPT ![i] = [o.calls[i] EXCEPT !.at = "taken"]]
        /\ c.line = o.line /\ c.stubs = o.stubs
    BY <2>1 DEF LineStates
  <2>4. o.calls[i] \in CallRecords
    BY <1>1, LineParts
  <2>5. /\ c.calls[i].at = "taken" /\ c.calls[i].id = o.calls[i].id
        /\ c.calls[i].stub = o.calls[i].stub
    BY <1>1, <2>3, <2>4 DEF CallRecords
  <2> QED BY <2>3, <2>5
<1>3. c \in LineStates
  <2>1. [o.calls[i] EXCEPT !.at = "taken"] \in CallRecords
    BY <1>1, LineParts, SMTT(180) DEF CallRecords
  <2>2. [o.calls EXCEPT ![i] = [o.calls[i] EXCEPT !.at = "taken"]] \in Seq(CallRecords)
    BY <1>1, <2>1, LineParts, ExceptSeq
  <2>3. c = [o EXCEPT !.calls = [o.calls EXCEPT ![i] = [o.calls[i] EXCEPT !.at = "taken"]]]
    BY <1>1, LineParts DEF Take, LineStates
  <2> QED BY <2>2, <2>3 DEF LineStates
<1> HIDE DEF c
<1>4. SameCalls(o, c)
  <2>1. \A j \in DOMAIN o.calls :
           /\ c.calls[j].id = o.calls[j].id /\ c.calls[j].stub = o.calls[j].stub
           /\ o.calls[j].at = "done" => c.calls[j].at = "done"
           /\ Pending(c, j) => Pending(o, j)
           /\ ~(c.calls[j].at # "waits" /\ o.calls[j].at = "waits")
    BY <1>1, <1>2 DEF Pending
  <2> QED BY <1>2, <1>3, <2>1, LinesStay
<1>5. ASSUME NEW j \in DOMAIN o.calls, j < i
      PROVE  ~Pending(c, j)
  <2>1. o.calls[j].stub <= o.calls[i].stub /\ o.calls[j].stub \in Nat /\ o.calls[i].stub \in Nat
    BY <1>1, <1>5, LineParts DEF LinesHold
  <2>2. CASE o.calls[j].stub = o.calls[i].stub
    <3>1. o.calls[j].at \in {"taken", "done"}
      BY <1>5, <2>2 DEF MayTake, CallsOf
    <3> QED BY <1>2, <3>1 DEF Pending
  <2>3. CASE o.calls[j].stub < o.calls[i].stub
    <3>1. o.calls[j].at = "done"
      BY <1>1, <2>3 DEF LinesHold
    <3> QED BY <1>2, <3>1 DEF Pending
  <2> QED BY <2>1, <2>2, <2>3
<1>6. Pending(o, i)
  BY <1>1 DEF Pending
<1> QED BY <1>1, <1>2, <1>4, <1>5, <1>6 DEF c

\* A call that went settles.
LEMMA SettleDoes ==
    ASSUME NEW o \in LineStates, LinesHold(o), NEW i \in DOMAIN o.calls, NEW ok \in BOOLEAN,
           o.calls[i].at \in {"sent", "taken"}
    PROVE  SameCalls(o, Settle(o, i, ok)) /\ DOMAIN Settle(o, i, ok).calls = DOMAIN o.calls
<1> DEFINE n == o.calls[i].stub
           done == [o EXCEPT !.calls[i].at = "done", !.stubs[n].failed = @ \/ ~ok]
           made == [o.calls EXCEPT ![i] = [o.calls[i] EXCEPT !.at = "done"]]
           stub == [o.stubs[n] EXCEPT !.failed = o.stubs[n].failed \/ ~ok]
           stubs == [o.stubs EXCEPT ![n] = stub]
           c == Settle(o, i, ok)
<1>1. n \in DOMAIN o.stubs
  BY DEF LinesHold
<1>2. done = [o EXCEPT !.calls = made, !.stubs = stubs]
  BY <1>1, LineParts DEF LineStates
<1>3. /\ made \in Seq(CallRecords) /\ DOMAIN made = DOMAIN o.calls /\ made[i].at = "done"
      /\ \A j \in DOMAIN o.calls :
            /\ made[j].id = o.calls[j].id /\ made[j].stub = o.calls[j].stub
            /\ j # i => made[j] = o.calls[j]
  <2>1. o.calls[i] \in CallRecords
    BY LineParts
  <2>2. [o.calls[i] EXCEPT !.at = "done"] \in CallRecords
    BY <2>1 DEF CallRecords
  <2>3. made \in Seq(CallRecords)
    BY <2>2, LineParts, ExceptSeq
  <2>4. made[i].at = "done" /\ made[i].id = o.calls[i].id /\ made[i].stub = o.calls[i].stub
    BY <2>1 DEF CallRecords
  <2> QED BY <2>3, <2>4
<1>4. /\ stubs \in Seq(StubRecords) /\ DOMAIN stubs = DOMAIN o.stubs
      /\ \A j \in DOMAIN o.stubs : stubs[j].after = o.stubs[j].after
  <2>1. o.stubs[n] \in StubRecords
    BY <1>1, LineParts
  <2>2. stub \in StubRecords /\ stub.after = o.stubs[n].after
    BY <2>1 DEF StubRecords
  <2>3. stubs \in Seq(StubRecords)
    BY <1>1, <2>2, LineParts, ExceptSeq
  <2> HIDE DEF stub
  <2> QED BY <1>1, <2>2, <2>3
<1> HIDE DEF made, stubs
<1>5. /\ done \in LineStates /\ done.calls = made /\ done.stubs = stubs /\ done.line = o.line
  BY <1>2, <1>3, <1>4 DEF LineStates
<1>6. /\ c = IF AllSettled(done, n) /\ done.line = n THEN [done EXCEPT !.line = 0] ELSE done
  BY DEF Settle
<1> HIDE DEF done, c
<1>7. /\ c \in LineStates /\ c.calls = made /\ c.stubs = stubs
      /\ c.line = o.line \/ (c.line = 0 /\ AllSettled(done, n) /\ o.line = n)
  <2>1. CASE AllSettled(done, n) /\ done.line = n
    BY <1>5, <1>6, <2>1 DEF LineStates
  <2>2. CASE ~(AllSettled(done, n) /\ done.line = n)
    BY <1>5, <1>6, <2>2
  <2> QED BY <2>1, <2>2
<1>8. \A j \in DOMAIN o.calls :
         /\ c.calls[j].id = o.calls[j].id /\ c.calls[j].stub = o.calls[j].stub
         /\ o.calls[j].at = "done" => c.calls[j].at = "done"
         /\ Pending(c, j) => Pending(o, j)
         /\ ~(c.calls[j].at # "waits" /\ o.calls[j].at = "waits")
  BY <1>3, <1>7 DEF Pending
<1>9. ASSUME AllSettled(done, n), o.line = n, NEW j \in DOMAIN o.calls
      PROVE  c.calls[j].at = "done"
  <2>1. o.calls[j].stub \in Nat /\ n \in Nat /\ o.calls[j].stub <= n
    <3>1. /\ o.line \in {0, Len(o.stubs)} /\ n \in DOMAIN o.stubs /\ o.calls[j].stub \in DOMAIN o.stubs
      BY <1>1 DEF LinesHold
    <3>2. DOMAIN o.stubs = 1 .. Len(o.stubs) /\ Len(o.stubs) \in Nat
      BY LineParts
    <3>3. n \in Nat \ {0} /\ o.calls[j].stub \in Nat /\ o.calls[j].stub <= Len(o.stubs)
      BY <3>1, <3>2
    <3> QED BY <1>9, <3>1, <3>3
  <2>2. CASE o.calls[j].stub = n
    BY <1>3, <1>5, <1>7, <1>9, <2>2 DEF AllSettled, CallsOf
  <2>3. CASE o.calls[j].stub < n
    <3>1. o.calls[j].at = "done"
      BY <2>3 DEF LinesHold
    <3> QED BY <1>8, <3>1
  <2> QED BY <2>1, <2>2, <2>3
<1>10. SameCalls(o, c)
  BY <1>3, <1>4, <1>7, <1>8, <1>9, LinesStay
<1> QED BY <1>3, <1>7, <1>10 DEF c

\* A stub breaks.
LEMMA BreakDoes ==
    ASSUME NEW o \in LineStates, LinesHold(o), NEW n \in MayBreak(o)
    PROVE  SameCalls(o, Break(o, n))
<1> DEFINE c == Break(o, n)
           stubs == [o.stubs EXCEPT ![n] = [o.stubs[n] EXCEPT !.broken = TRUE]]
<1>1. n \in DOMAIN o.stubs
  BY DEF MayBreak
<1>2. c = [o EXCEPT !.stubs = stubs]
  BY <1>1, LineParts DEF LineStates, Break
<1>3. /\ stubs \in Seq(StubRecords) /\ DOMAIN stubs = DOMAIN o.stubs
      /\ \A j \in DOMAIN o.stubs : stubs[j].after = o.stubs[j].after
  <2>1. o.stubs[n] \in StubRecords
    BY <1>1, LineParts
  <2>2. /\ [o.stubs[n] EXCEPT !.broken = TRUE] \in StubRecords
        /\ [o.stubs[n] EXCEPT !.broken = TRUE].after = o.stubs[n].after
    BY <2>1 DEF StubRecords
  <2>3. stubs \in Seq(StubRecords)
    BY <1>1, <2>2, LineParts, ExceptSeq
  <2> QED BY <1>1, <2>2, <2>3
<1> HIDE DEF stubs
<1>4. /\ c \in LineStates /\ c.calls = o.calls /\ c.stubs = stubs /\ c.line = o.line
  BY <1>2, <1>3 DEF LineStates
<1> HIDE DEF c
<1>5. SameCalls(o, c)
  BY <1>3, <1>4, LinesStay DEF Pending
<1> QED BY <1>5 DEF c

\* The line behind an idle one goes.
LEMMA ResumeDoes ==
    ASSUME NEW o \in LineStates, LinesHold(o)
    PROVE  SameCalls(o, ResumeCall(o))
<1> DEFINE c == ResumeCall(o)
           due == MayResume(o)
           made == [i \in DOMAIN o.calls |->
                      IF i \in due THEN [o.calls[i] EXCEPT !.at = "sent"] ELSE o.calls[i]]
<1>1. c = [o EXCEPT !.calls = made]
  BY DEF ResumeCall, LineStates
<1>2. /\ made \in Seq(CallRecords) /\ DOMAIN made = DOMAIN o.calls
      /\ \A j \in DOMAIN o.calls :
            /\ made[j].id = o.calls[j].id /\ made[j].stub = o.calls[j].stub
            /\ j \in due => made[j].at = "sent"
            /\ j \notin due => made[j] = o.calls[j]
  <2>1. ASSUME NEW j \in DOMAIN o.calls
        PROVE  /\ made[j] \in CallRecords
               /\ made[j].id = o.calls[j].id /\ made[j].stub = o.calls[j].stub
               /\ j \in due => made[j].at = "sent"
               /\ j \notin due => made[j] = o.calls[j]
    <3>1. o.calls[j] \in CallRecords
      BY LineParts
    <3> HIDE DEF due
    <3>2. CASE j \in due
      BY <3>1, <3>2 DEF CallRecords
    <3>3. CASE j \notin due
      BY <3>1, <3>3
    <3> QED BY <3>2, <3>3
  <2>2. made \in [1 .. Len(o.calls) -> CallRecords] /\ Len(o.calls) \in Nat
    <3>1. DOMAIN o.calls = 1 .. Len(o.calls) /\ Len(o.calls) \in Nat
      BY LineParts
    <3> HIDE DEF due
    <3> QED BY <2>1, <3>1
  <2>3. made \in Seq(CallRecords)
    <3> HIDE DEF made
    <3> QED BY <2>2, SeqDef
  <2> QED BY <2>1, <2>3
<1> HIDE DEF made
<1>3. c \in LineStates /\ c.calls = made /\ c.stubs = o.stubs /\ c.line = o.line
  BY <1>1, <1>2 DEF LineStates
<1> HIDE DEF c
<1>4. ASSUME NEW i \in due
      PROVE  /\ i \in DOMAIN o.calls /\ o.calls[i].at = "waits"
             /\ \A j \in DOMAIN o.calls :
                   o.calls[j].stub < o.calls[i].stub => o.calls[j].at = "done"
  <2>1. /\ i \in DOMAIN o.calls /\ o.calls[i].at = "waits"
        /\ AllSettled(o, o.stubs[o.calls[i].stub].after)
    BY DEF MayResume
  <2>2. PICK n \in DOMAIN o.stubs : n = o.calls[i].stub
    BY <2>1 DEF LinesHold
  <2>3. o.stubs[n].after \in {0, n - 1} /\ n \in Nat \ {0}
    BY LineParts DEF LinesHold
  <2>4. ASSUME NEW j \in DOMAIN o.calls, o.calls[j].stub < n
        PROVE  o.calls[j].at = "done"
    <3>1. CASE o.stubs[n].after = 0
      BY <2>4, <3>1 DEF LinesHold
    <3>2. CASE o.stubs[n].after = n - 1
      <4>1. o.calls[j].stub \in Nat \ {0} /\ o.calls[j].stub <= n - 1
        <5>1. o.calls[j].stub \in DOMAIN o.stubs
          BY DEF LinesHold
        <5>2. o.calls[j].stub \in Nat \ {0}
          BY <5>1, LineParts
        <5> QED BY <2>3, <2>4, <5>2
      <4>2. \A k \in DOMAIN o.calls : o.calls[k].stub = n - 1 => o.calls[k].at = "done"
        BY <2>1, <2>2, <3>2 DEF AllSettled, CallsOf
      <4>3. n - 1 \in DOMAIN o.stubs
        BY <2>3, <4>1, LineParts
      <4>4. PICK k \in DOMAIN o.calls : o.calls[k].stub = n - 1
        BY <4>3 DEF LinesHold
      <4>5. CASE o.calls[j].stub = n - 1
        BY <4>2, <4>5
      <4>6. CASE o.calls[j].stub < o.calls[k].stub
        <5>1. o.calls[k].at # "waits"
          BY <4>2, <4>4
        <5> QED BY <4>6, <5>1 DEF LinesHold
      <4> QED BY <2>3, <4>1, <4>4, <4>5, <4>6
    <3> QED BY <2>3, <3>1, <3>2
  <2> QED BY <2>1, <2>2, <2>4
<1> HIDE DEF due
<1>5. \A j \in DOMAIN o.calls :
         /\ c.calls[j].id = o.calls[j].id /\ c.calls[j].stub = o.calls[j].stub
         /\ o.calls[j].at = "done" => c.calls[j].at = "done"
         /\ Pending(c, j) => Pending(o, j)
         /\ c.calls[j].at # "waits" /\ o.calls[j].at = "waits" =>
              \A k \in DOMAIN o.calls : o.calls[k].stub < o.calls[j].stub => o.calls[k].at = "done"
  BY <1>2, <1>3, <1>4 DEF Pending
<1>6. SameCalls(o, c)
  BY <1>2, <1>3, <1>5, LinesStay
<1> QED BY <1>6 DEF c

-----------------------------------------------------------------------------
(* The order of a key's publishes *)

\* Where a publish is goes forward, and it is numbered only as the first in the chain.
KeepsItsTurn(p) ==
    /\ requests'[p].direct = requests[p].direct /\ requests'[p].run = requests[p].run
    /\ \A at \in {"none", "queued", "called"} : requests'[p].at = at <=> requests[p].at = at
    /\ requests'[p].at = "chained" => requests[p].at = "chained"
    /\ requests'[p].at = "fanned" => requests[p].at \in {"chained", "fanned"}
    /\ requests[p].at = "rejected" => requests'[p].at = "rejected"
    /\ requests[p].at \in {"fanned", "acked", "rejected"} =>
          requests'[p].at \in {"fanned", "acked", "rejected"}
    /\ requests[p].at # "chained" \/ requests'[p].at # "chained" =>
          requests'[p].number = requests[p].number /\ requests'[p].seq = requests[p].seq
    /\ requests[p].at = "chained" /\ requests[p].number = "none" /\ p # authority.chain[1] =>
          requests'[p].number = "none"

\* One that did not change keeps it.
LEMMA SameTurn ==
    ASSUME KeyInv, NEW p \in CfPublishes, requests'[p] = requests[p]
    PROVE  KeepsItsTurn(p)
BY PartsAre DEF KeepsItsTurn

\* What was handed over stays so, with its seq.
LEMMA OutStays ==
    ASSUME NEW p \in CfPublishes, KeepsItsTurn(p), Out(p)
    PROVE  Out(p)' /\ requests'[p].seq = requests[p].seq
BY DEF KeepsItsTurn, Out

\* The numbers hold while none is given.
LEMMA NumbersStay ==
    ASSUME KeyInv, NumbersHold, cf' = cf, authority'.stored = authority.stored,
           authority'.cache = authority.cache,
           \A p \in CfPublishes :
               /\ requests'[p].number = requests[p].number /\ requests'[p].seq = requests[p].seq
               /\ requests'[p].at = "chained" => requests[p].at = "chained" \/ requests[p].number = "none"
               /\ requests[p].at = "chained" /\ requests[p].number = "raised" =>
                    requests'[p].at = "chained"
    PROVE  NumbersHold'
<1>1. CfPublishes' = CfPublishes
  BY NamesStay
<1>2. /\ \A p \in CfPublishes' : requests'[p].number = "stored" =>
          requests'[p].seq > 0 /\ requests'[p].seq <= authority'.stored
      /\ \A p, q \in CfPublishes' :
          /\ requests'[p].number = "stored" /\ requests'[q].number = "stored"
          /\ requests'[p].seq = requests'[q].seq
          => p = q
  BY <1>1 DEF NumbersHold
<1>3. \A p \in CfPublishes' : requests'[p].at = "chained" =>
          /\ requests'[p].number = "read" =>
                requests'[p].seq = authority'.stored /\ authority'.cache \in {0, authority'.stored}
          /\ requests'[p].number = "raised" =>
                requests'[p].seq = authority'.stored + 1 /\ authority'.cache = requests'[p].seq
          /\ requests'[p].number = "stored" => requests'[p].seq = authority'.stored
  BY <1>1 DEF NumbersHold
<1>4. \/ authority'.cache \in {0, authority'.stored}
      \/ \E p \in CfPublishes' : requests'[p].at = "chained" /\ requests'[p].number = "raised"
  BY <1>1 DEF NumbersHold
<1> QED BY <1>2, <1>3, <1>4 DEF NumbersHold

\* What comes out of the chain leaves the rest in its order.
ChainGoesOn ==
    \/ authority'.chain = authority.chain
    \/ authority.chain # <<>> /\ authority'.chain = Unchained
    \/ authority'.chain = <<>> /\ \A p \in CfPublishes : requests'[p].at # "chained"

\* The turns hold while publishes keep them.
LEMMA TurnsStay ==
    ASSUME KeyInv, TurnsHold, cf' = cf, isolate'.run = isolate.run,
           isolate.member.flushing => isolate'.member.flushing, ChainGoesOn,
           \A p \in CfPublishes :
               /\ KeepsItsTurn(p)
               /\ requests'[p].number = "stored" /\ requests[p].number # "stored" =>
                    /\ requests[p].at = "chained" /\ requests[p].number # "none"
                    /\ requests'[p].seq = requests[p].seq
                    /\ \A q \in CfPublishes :
                          requests[q].number = "stored" => requests[q].seq < requests[p].seq
               /\ requests[p].number = "stored" => requests'[p].seq = requests[p].seq
    PROVE  TurnsHold'
<1>1. CfPublishes' = CfPublishes
  BY NamesStay
<1>2. \A p \in CfPublishes : KeepsItsTurn(p)
  OBVIOUS
<1>3. \A p \in CfPublishes :
         /\ Uncalled(p)' <=> Uncalled(p)
         /\ requests'[p].at \in {"called", "chained", "fanned"} =>
               requests[p].at \in {"called", "chained", "fanned"}
         /\ WaitsOrGoes(p)' => WaitsOrGoes(p)
         /\ Entered(p)' => Entered(p)
         /\ requests[p].at = "rejected" /\ requests[p].number = "none" =>
               requests'[p].at = "rejected" /\ requests'[p].number = "none"
         /\ requests'[p].at = "called" <=> requests[p].at = "called"
         /\ requests'[p].at = "chained" => requests[p].at = "chained"
         /\ requests'[p].direct = requests[p].direct /\ requests'[p].run = requests[p].run
  BY <1>2 DEF KeepsItsTurn, Uncalled, WaitsOrGoes, Entered
<1>4. \A p, q \in CfPublishes : Ahead(p, q)' <=> Ahead(p, q)
  BY <1>3 DEF Ahead
<1>5. /\ \A p \in CfPublishes :
          /\ Uncalled(p)' => requests'[p].run = 0 /\ ~requests'[p].direct
          /\ ~Uncalled(p)' /\ requests'[p].direct => requests'[p].run # 0
          /\ requests'[p].at = "called" => requests'[p].run # 0
          /\ ~requests'[p].direct /\ requests'[p].at \in {"called", "chained", "fanned"} =>
                isolate'.member.flushing
      /\ isolate'.run > 0
  BY <1>3 DEF TurnsHold
<1>6. \A p, q \in CfPublishes :
          p < q /\ cf'.publishes[p].own /\ cf'.publishes[q].own /\ WaitsOrGoes(p)' =>
              Uncalled(q)' \/ (requests'[q].at = "rejected" /\ requests'[q].number = "none")
  BY <1>3 DEF TurnsHold
<1>7. ASSUME NEW p \in CfPublishes, NEW q \in CfPublishes, Ahead(p, q)', Entered(q)'
      PROVE  /\ ~Uncalled(p)' /\ requests'[p].at # "called"
             /\ requests'[p].at = "chained" =>
                   /\ requests'[q].at = "chained" /\ requests'[q].number = "none"
                   /\ \A i, j \in DOMAIN authority'.chain :
                         authority'.chain[i] = p /\ authority'.chain[j] = q => i < j
             /\ requests'[p].number = "stored" /\ requests'[q].number = "stored" =>
                   requests'[p].seq < requests'[q].seq
  <2>1. Ahead(p, q) /\ Entered(q) /\ p # q
    BY <1>3, <1>4, <1>7, PlansAre, SMTT(180) DEF Ahead, KeyInv, CloudflareTypes
  <2>2. /\ ~Uncalled(p) /\ requests[p].at # "called"
        /\ requests[p].at = "chained" =>
              /\ requests[q].at = "chained" /\ requests[q].number = "none"
              /\ \A i, j \in DOMAIN authority.chain :
                    authority.chain[i] = p /\ authority.chain[j] = q => i < j
        /\ requests[p].number = "stored" /\ requests[q].number = "stored" =>
              requests[p].seq < requests[q].seq
    BY <2>1 DEF TurnsHold
  <2>3. ASSUME requests'[p].at = "chained"
        PROVE  /\ requests'[q].at = "chained" /\ requests'[q].number = "none"
               /\ \A i, j \in DOMAIN authority'.chain :
                     authority'.chain[i] = p /\ authority'.chain[j] = q => i < j
    <3>1. /\ requests[p].at = "chained" /\ requests[q].at = "chained" /\ requests[q].number = "none"
          /\ \A i, j \in DOMAIN authority.chain :
                    authority.chain[i] = p /\ authority.chain[j] = q => i < j
      BY <1>3, <2>2, <2>3
    <3>2. PICK i \in DOMAIN authority.chain : authority.chain[i] = p
      BY <3>1, PartsAre
    <3>3. PICK j \in DOMAIN authority.chain : authority.chain[j] = q
      BY <3>1, PartsAre
    <3>4. i < j /\ i \in Nat /\ j \in Nat /\ i > 0
      BY <3>1, <3>2, <3>3, PartsAre
    <3>5. q # authority.chain[1]
      <4>1. 1 \in DOMAIN authority.chain /\ j # 1
        BY <3>4, PartsAre
      <4> QED BY <3>3, <4>1, PartsAre
    <3>6. requests'[q].number = "none"
      BY <1>2, <3>1, <3>5 DEF KeepsItsTurn
    <3>7. requests'[q].at = "chained"
      BY <1>7, <3>6 DEF Entered
    <3>8. ASSUME NEW a \in DOMAIN authority'.chain, NEW b \in DOMAIN authority'.chain,
                 authority'.chain[a] = p, authority'.chain[b] = q
          PROVE  a < b
      <4>1. CASE authority'.chain = authority.chain
        BY <3>1, <3>8, <4>1
      <4>2. CASE authority.chain # <<>> /\ authority'.chain = Unchained
        <5>1. /\ authority.chain[a + 1] = p /\ authority.chain[b + 1] = q
              /\ a \in Nat /\ b \in Nat
              /\ a + 1 \in DOMAIN authority.chain /\ b + 1 \in DOMAIN authority.chain
          BY <3>8, <4>2, UnchainedIs
        <5>2. a + 1 < b + 1
          BY <3>1, <5>1
        <5> QED BY <5>1, <5>2
      <4>3. CASE authority'.chain = <<>>
        BY <3>8, <4>3
      <4> QED BY <4>1, <4>2, <4>3 DEF ChainGoesOn
    <3> QED BY <3>6, <3>7, <3>8
  <2>4. ASSUME requests'[p].number = "stored", requests'[q].number = "stored"
        PROVE  requests'[p].seq < requests'[q].seq
    <3>1. CASE requests[p].number = "stored" /\ requests[q].number = "stored"
      BY <2>2, <3>1
    <3>2. CASE requests[p].number # "stored"
      <4>1. requests[p].at = "chained"
        BY <2>4, <3>2
      <4>2. requests[q].number = "none"
        BY <2>2, <4>1
      <4> QED BY <2>4, <4>2
    <3>3. CASE requests[p].number = "stored" /\ requests[q].number # "stored"
      <4>1. requests'[q].seq = requests[q].seq /\ requests[p].seq < requests[q].seq
        BY <2>4, <3>3
      <4> QED BY <3>3, <4>1
    <3> QED BY <3>1, <3>2, <3>3
  <2> QED BY <1>3, <2>2, <2>3, <2>4
<1> HIDE DEF ChainGoesOn
<1> QED BY <1>1, <1>5, <1>6, <1>7 DEF TurnsHold

\* A publish still handed over, and the seq of a call, after a step.
StillOut(p) ==
    requests'[p].at \in {"fanned", "acked", "rejected"} /\ requests'[p].number = "stored"
SeqAfter(h, i) == requests'[hops'[h].calls[i].id].seq

\* What the hops have to be after a step.
LEMMA HopsCome ==
    ASSUME cf' = cf, hops' \in [Hops -> LineStates], ears' \in [Subscribers -> Seq(CfPublishes)],
           \A h \in Hops :
               /\ LinesHold(hops'[h])
               /\ \A i \in DOMAIN hops'[h].calls : StillOut(hops'[h].calls[i].id)
               /\ \A i, j \in DOMAIN hops'[h].calls : i < j => SeqAfter(h, i) < SeqAfter(h, j),
           \A i \in DOMAIN hops'["coordinator"].calls : Pending(hops'["coordinator"], i) =>
               /\ \A o \in Owners : \A k \in DOMAIN hops'[o].calls :
                     SeqAfter(o, k) < SeqAfter("coordinator", i)
               /\ \A s \in Subscribers : \A k \in DOMAIN ears'[s] :
                     requests'[ears'[s][k]].seq < SeqAfter("coordinator", i),
           \A s \in Subscribers :
               /\ \A k \in DOMAIN ears'[s] : StillOut(ears'[s][k])
               /\ \A i \in DOMAIN hops'[cf.owners[s]].calls : Pending(hops'[cf.owners[s]], i) =>
                     \A k \in DOMAIN ears'[s] : requests'[ears'[s][k]].seq < SeqAfter(cf.owners[s], i)
               /\ \A i, j \in DOMAIN ears'[s] :
                     i < j => requests'[ears'[s][i]].seq < requests'[ears'[s][j]].seq
    PROVE  HopsHold'
<1>1. /\ Hops' = Hops /\ Owners' = Owners /\ Subscribers' = Subscribers /\ CfPublishes' = CfPublishes
      /\ LineStates' = LineStates
  BY NamesStay DEF LineStates, CallRecords, StubRecords
<1>2. SubscribersHearBySeq'
  BY <1>1 DEF SubscribersHearBySeq
<1>3. \A h \in Hops' :
          /\ LinesHold(hops[h])'
          /\ \A i \in DOMAIN hops'[h].calls : Out(hops[h].calls[i].id)'
          /\ \A i, j \in DOMAIN hops'[h].calls : i < j => CallSeq(hops[h], i)' < CallSeq(hops[h], j)'
  BY <1>1 DEF CallSeq, Out, LinesHold, StillOut, SeqAfter
<1>4. \A i \in DOMAIN hops'["coordinator"].calls : Pending(hops["coordinator"], i)' =>
          /\ \A o \in Owners' : \A k \in DOMAIN hops'[o].calls :
                CallSeq(hops[o], k)' < CallSeq(hops["coordinator"], i)'
          /\ \A s \in Subscribers' : \A k \in DOMAIN ears'[s] :
                requests'[ears'[s][k]].seq < CallSeq(hops["coordinator"], i)'
  BY <1>1 DEF CallSeq, Pending, SeqAfter
<1>5. \A s \in Subscribers' :
          /\ \A k \in DOMAIN ears'[s] : Out(ears[s][k])'
          /\ \A i \in DOMAIN hops'[cf'.owners[s]].calls : Pending(hops[cf.owners[s]], i)' =>
                \A k \in DOMAIN ears'[s] :
                    requests'[ears'[s][k]].seq < CallSeq(hops[cf.owners[s]], i)'
  BY <1>1 DEF CallSeq, Pending, Out, StillOut, SeqAfter
<1> QED BY <1>1, <1>2, <1>3, <1>4, <1>5 DEF HopsHold

\* What they are before one.
LEMMA HopsAre ==
    ASSUME HopsHold
    PROVE  /\ hops \in [Hops -> LineStates] /\ ears \in [Subscribers -> Seq(CfPublishes)]
           /\ "coordinator" \in Hops /\ Owners \subseteq Hops
           /\ \A s \in Subscribers : cf.owners[s] \in Owners /\ cf.owners[s] \in Hops
           /\ \A h \in Hops :
                 /\ LinesHold(hops[h])
                 /\ \A i \in DOMAIN hops[h].calls :
                       hops[h].calls[i].id \in CfPublishes /\ Out(hops[h].calls[i].id)
                 /\ \A i, j \in DOMAIN hops[h].calls :
                       i < j => CallSeq(hops[h], i) < CallSeq(hops[h], j)
           /\ \A i \in DOMAIN hops["coordinator"].calls : Pending(hops["coordinator"], i) =>
                 /\ \A o \in Owners : \A k \in DOMAIN hops[o].calls :
                       CallSeq(hops[o], k) < CallSeq(hops["coordinator"], i)
                 /\ \A s \in Subscribers : \A k \in DOMAIN ears[s] :
                       requests[ears[s][k]].seq < CallSeq(hops["coordinator"], i)
           /\ \A s \in Subscribers :
                 /\ \A k \in DOMAIN ears[s] : ears[s][k] \in CfPublishes /\ Out(ears[s][k])
                 /\ \A i \in DOMAIN hops[cf.owners[s]].calls : Pending(hops[cf.owners[s]], i) =>
                       \A k \in DOMAIN ears[s] :
                           requests[ears[s][k]].seq < CallSeq(hops[cf.owners[s]], i)
                 /\ \A i, j \in DOMAIN ears[s] :
                       i < j => requests[ears[s][i]].seq < requests[ears[s][j]].seq
<1>1. /\ hops \in [Hops -> LineStates] /\ ears \in [Subscribers -> Seq(CfPublishes)]
  BY DEF HopsHold
<1>2. /\ "coordinator" \in Hops /\ Owners \subseteq Hops
      /\ \A s \in Subscribers : cf.owners[s] \in Owners /\ cf.owners[s] \in Hops
  BY DEF Hops, Owners
<1>3. \A h \in Hops : \A i \in DOMAIN hops[h].calls : hops[h].calls[i].id \in CfPublishes
  BY <1>1, LineParts
<1>4. \A s \in Subscribers : \A k \in DOMAIN ears[s] : ears[s][k] \in CfPublishes
  BY <1>1, ElementOfSeq
<1> QED BY <1>1, <1>2, <1>3, <1>4 DEF HopsHold, SubscribersHearBySeq

\* What calls hold, and what subscribers heard, stays in order.
LEMMA HopsStay ==
    ASSUME HopsHold, cf \in Isolates, cf' = cf, ears' = ears, hops' \in [Hops -> LineStates],
           \A h \in Hops : SameCalls(hops[h], hops'[h]),
           \A p \in CfPublishes : Out(p) => Out(p)' /\ requests'[p].seq = requests[p].seq
    PROVE  HopsHold'
<1> DEFINE Before(h, i) == requests[hops[h].calls[i].id].seq
<1>2. ears' \in [Subscribers -> Seq(CfPublishes)]
  BY DEF HopsHold
<1>3. ASSUME NEW h \in Hops, NEW i \in DOMAIN hops'[h].calls
      PROVE  /\ i \in DOMAIN hops[h].calls /\ StillOut(hops'[h].calls[i].id)
             /\ SeqAfter(h, i) = Before(h, i)
             /\ Pending(hops'[h], i) => Pending(hops[h], i)
  <2>1. /\ i \in DOMAIN hops[h].calls /\ hops'[h].calls[i].id = hops[h].calls[i].id
        /\ Pending(hops'[h], i) => Pending(hops[h], i)
    BY DEF SameCalls
  <2>2. hops[h].calls[i].id \in CfPublishes /\ Out(hops[h].calls[i].id)
    BY <2>1, LineParts DEF HopsHold
  <2>3. \A p \in CfPublishes : Out(p) => StillOut(p) /\ requests'[p].seq = requests[p].seq
    BY DEF Out, StillOut
  <2> QED BY <2>1, <2>2, <2>3 DEF SeqAfter
<1>4. ASSUME NEW s \in Subscribers, NEW k \in DOMAIN ears[s]
      PROVE  StillOut(ears[s][k]) /\ requests'[ears[s][k]].seq = requests[ears[s][k]].seq
  <2>1. ears[s][k] \in CfPublishes /\ Out(ears[s][k])
    BY ElementOfSeq DEF HopsHold
  <2>2. \A p \in CfPublishes : Out(p) => StillOut(p) /\ requests'[p].seq = requests[p].seq
    BY DEF Out, StillOut
  <2> QED BY <2>1, <2>2
<1>5. /\ \A h \in Hops : \A i, j \in DOMAIN hops[h].calls : i < j => Before(h, i) < Before(h, j)
      /\ \A i \in DOMAIN hops["coordinator"].calls : Pending(hops["coordinator"], i) =>
          /\ \A o \in Owners : \A k \in DOMAIN hops[o].calls : Before(o, k) < Before("coordinator", i)
          /\ \A s \in Subscribers : \A k \in DOMAIN ears[s] :
                requests[ears[s][k]].seq < Before("coordinator", i)
      /\ \A s \in Subscribers :
          \A i \in DOMAIN hops[cf.owners[s]].calls : Pending(hops[cf.owners[s]], i) =>
                \A k \in DOMAIN ears[s] : requests[ears[s][k]].seq < Before(cf.owners[s], i)
      /\ \A s \in Subscribers : \A i, j \in DOMAIN ears[s] :
            i < j => requests[ears[s][i]].seq < requests[ears[s][j]].seq
  BY DEF HopsHold, CallSeq, SubscribersHearBySeq
<1>6. /\ "coordinator" \in Hops /\ Owners \subseteq Hops
      /\ \A s \in Subscribers : cf.owners[s] \in Hops
  BY DEF Hops, Owners
<1> HIDE DEF Before
<1>7. \A h \in Hops :
          /\ LinesHold(hops'[h])
          /\ \A i \in DOMAIN hops'[h].calls : StillOut(hops'[h].calls[i].id)
          /\ \A i, j \in DOMAIN hops'[h].calls : i < j => SeqAfter(h, i) < SeqAfter(h, j)
  BY <1>3, <1>5 DEF SameCalls
<1>8. \A i \in DOMAIN hops'["coordinator"].calls : Pending(hops'["coordinator"], i) =>
          /\ \A o \in Owners : \A k \in DOMAIN hops'[o].calls : SeqAfter(o, k) < SeqAfter("coordinator", i)
          /\ \A s \in Subscribers : \A k \in DOMAIN ears[s] :
                requests'[ears[s][k]].seq < SeqAfter("coordinator", i)
  <2>1. SUFFICES ASSUME NEW i \in DOMAIN hops'["coordinator"].calls, Pending(hops'["coordinator"], i)
                 PROVE  /\ \A o \in Owners : \A k \in DOMAIN hops'[o].calls :
                              SeqAfter(o, k) < SeqAfter("coordinator", i)
                        /\ \A s \in Subscribers : \A k \in DOMAIN ears[s] :
                              requests'[ears[s][k]].seq < SeqAfter("coordinator", i)
    OBVIOUS
  <2>2. /\ i \in DOMAIN hops["coordinator"].calls /\ Pending(hops["coordinator"], i)
        /\ SeqAfter("coordinator", i) = Before("coordinator", i)
    BY <1>3, <1>6, <2>1
  <2>3. ASSUME NEW o \in Owners, NEW k \in DOMAIN hops'[o].calls
        PROVE  SeqAfter(o, k) < SeqAfter("coordinator", i)
    <3>1. o \in Hops /\ k \in DOMAIN hops[o].calls /\ SeqAfter(o, k) = Before(o, k)
      BY <1>3, <1>6
    <3> QED BY <1>5, <2>2, <3>1
  <2>4. ASSUME NEW s \in Subscribers, NEW k \in DOMAIN ears[s]
        PROVE  requests'[ears[s][k]].seq < SeqAfter("coordinator", i)
    BY <1>4, <1>5, <2>2
  <2> QED BY <2>3, <2>4
<1>9. \A s \in Subscribers :
          /\ \A k \in DOMAIN ears[s] : StillOut(ears[s][k])
          /\ \A i \in DOMAIN hops'[cf.owners[s]].calls : Pending(hops'[cf.owners[s]], i) =>
                \A k \in DOMAIN ears[s] :
                    requests'[ears[s][k]].seq < SeqAfter(cf.owners[s], i)
  <2>1. SUFFICES ASSUME NEW s \in Subscribers
                 PROVE  \A i \in DOMAIN hops'[cf.owners[s]].calls : Pending(hops'[cf.owners[s]], i) =>
                            \A k \in DOMAIN ears[s] :
                                requests'[ears[s][k]].seq < SeqAfter(cf.owners[s], i)
    BY <1>4
  <2>2. PICK o \in Hops : o = cf.owners[s]
    BY <1>6
  <2>3. ASSUME NEW i \in DOMAIN hops'[o].calls, Pending(hops'[o], i), NEW k \in DOMAIN ears[s]
        PROVE  requests'[ears[s][k]].seq < SeqAfter(o, i)
    <3>1. i \in DOMAIN hops[o].calls /\ Pending(hops[o], i) /\ SeqAfter(o, i) = Before(o, i)
      BY <1>3, <2>3
    <3>2. requests[ears[s][k]].seq < Before(o, i)
      BY <1>5, <2>2, <3>1
    <3> QED BY <1>4, <3>1, <3>2
  <2> QED BY <2>2, <2>3
<1>10. \A s \in Subscribers : \A i, j \in DOMAIN ears[s] :
            i < j => requests'[ears[s][i]].seq < requests'[ears[s][j]].seq
  BY <1>4, <1>5
<1> QED BY <1>2, <1>7, <1>8, <1>9, <1>10, HopsCome

\* What leaves the publishes and the authority alone keeps the numbers and the turns.
LEMMA TurnsIdle ==
    ASSUME KeyInv, OrderInv, cf' = cf, requests' = requests, authority' = authority,
           isolate'.run = isolate.run, isolate.member.flushing => isolate'.member.flushing
    PROVE  NumbersHold' /\ TurnsHold' /\ \A p \in CfPublishes : Out(p) => Out(p)'
<1>1. \A p \in CfPublishes : KeepsItsTurn(p)
  BY SameTurn
<1>2. NumbersHold'
  BY <1>1, NumbersStay DEF OrderInv
<1>3. ChainGoesOn
  BY DEF ChainGoesOn
<1>4. TurnsHold'
  BY <1>1, <1>3, TurnsStay DEF OrderInv
<1> QED BY <1>1, <1>2, <1>4, OutStays

\* What leaves the calls alone too keeps the order.
LEMMA OrderIdle ==
    ASSUME KeyInv, OrderInv, cf' = cf, requests' = requests, authority' = authority,
           isolate'.run = isolate.run, isolate.member.flushing => isolate'.member.flushing,
           hops' = hops, ears' = ears
    PROVE  OrderInv'
<1>1. NumbersHold' /\ TurnsHold' /\ \A p \in CfPublishes : Out(p) => Out(p)'
  BY TurnsIdle
<1>2. HopsHold'
  <2>1. hops' \in [Hops -> LineStates] /\ \A h \in Hops : SameCalls(hops[h], hops'[h])
    BY HopsAre, SameStay DEF OrderInv
  <2> QED BY <1>1, <2>1, HopsStay DEF KeyInv, CloudflareTypes, OrderInv
<1> QED BY <1>1, <1>2 DEF OrderInv

\* Nothing that presences do is about the order.
LEMMA PresencesInOrder ==
    ASSUME KeyInv, OrderInv,
           \/ \E s \in Subscribers : AddSubscriber(s) \/ RemoveSubscriber(s)
           \/ \E w \in writes : WriteEnds(w)
           \/ Refresh \/ \E o \in Owners : Expires(o)
           \/ UNCHANGED cloudflareVars
    PROVE  OrderInv'
<1> DEFINE m == isolate.member
<1>1. /\ isolate \in [subs : SUBSET Subscribers, member : Members, run : Int, left : SUBSET Owners]
      /\ m \in Members /\ m.flushing \in BOOLEAN
  BY DEF KeyInv, CloudflareTypes, Members
<1>2. ASSUME NEW s \in Subscribers, AddSubscriber(s)
      PROVE  OrderInv'
  <2> DEFINE o == cf.owners[s]
             first == m.owners[o] = 0
  <2>1. isolate' = [isolate EXCEPT !.subs = @ \cup {s}, !.member.exists = TRUE,
                                   !.member.owners[o] = @ + 1,
                                   !.member.setups = IF first THEN @ + 1 ELSE @]
    BY <1>2 DEF AddSubscriber
  <2>2. o \in Owners
    BY DEF Owners
  <2>3. isolate'.run = isolate.run /\ isolate'.member.flushing = m.flushing
    BY <1>1, <2>1, <2>2 DEF Members
  <2> QED BY <1>2, <2>3, OrderIdle DEF AddSubscriber
<1>3. ASSUME NEW s \in Subscribers, RemoveSubscriber(s)
      PROVE  OrderInv'
  <2> DEFINE o == cf.owners[s]
             made == [m EXCEPT !.owners[o] = @ - 1]
             subs == isolate.subs \ {s}
             t == TearDown(made, subs)
             left == IF made.owners[o] = 0 THEN isolate.left \cup {o} ELSE isolate.left
  <2>1. isolate' = [isolate EXCEPT !.subs = subs, !.member = t, !.left = left]
    BY <1>1, <1>3 DEF RemoveSubscriber
  <2>2. made.flushing = m.flushing
    BY <1>1 DEF Members
  <2> HIDE DEF made
  <2>3. m.flushing => t = made
    BY <2>2 DEF TearDown
  <2> HIDE DEF t, left, subs
  <2>4. isolate'.run = isolate.run /\ isolate'.member = t
    BY <1>1, <2>1
  <2> QED BY <1>3, <2>2, <2>3, <2>4, OrderIdle DEF RemoveSubscriber
<1>4. ASSUME NEW w \in writes, WriteEnds(w)
      PROVE  OrderInv'
  <2>1. CASE w.why # "setup"
    BY <1>4, <2>1, OrderIdle DEF WriteEnds
  <2>2. CASE w.why = "setup"
    <3>1. isolate' = [isolate EXCEPT !.member = SetupDone(@, isolate.subs)]
      BY <1>4, <2>2 DEF WriteEnds
    <3>2. isolate'.run = isolate.run /\ isolate'.member = SetupDone(m, isolate.subs)
      BY <1>1, <3>1
    <3>3. m.flushing => SetupDone(m, isolate.subs).flushing
      <4> DEFINE done == [m EXCEPT !.setups = @ - 1]
      <4>1. done.flushing = m.flushing /\ DOMAIN done = DOMAIN m
        BY <1>1 DEF Members
      <4>2. [done EXCEPT !.refreshes = TRUE, !.flushing = TRUE].flushing
        BY <1>1 DEF Members
      <4> HIDE DEF done
      <4>3. SetupDone(m, isolate.subs) =
              IF done.setups > 0 THEN done
              ELSE IF done.queued # <<>> \/ done.flushing
              THEN [done EXCEPT !.refreshes = TRUE, !.flushing = TRUE]
              ELSE TearDown([done EXCEPT !.refreshes = TRUE], isolate.subs)
        BY DEF SetupDone, done
      <4> QED BY <4>1, <4>2, <4>3
    <3> QED BY <1>4, <3>2, <3>3, OrderIdle DEF WriteEnds
  <2> QED BY <2>1, <2>2
<1>5. CASE Refresh
  BY <1>5, OrderIdle DEF Refresh
<1>6. CASE \E o \in Owners : Expires(o)
  BY <1>6, OrderIdle DEF Expires
<1>7. CASE UNCHANGED cloudflareVars
  BY <1>7, OrderIdle DEF cloudflareVars
<1> QED BY <1>2, <1>3, <1>4, <1>5, <1>6, <1>7

\* An answer is one of a publish handed over.
LEMMA AnswersInOrder ==
    ASSUME KeyInv, OrderInv, NEW p, NEW ok \in BOOLEAN, requests' = Answered(requests, p, ok),
           cf' = cf, isolate' = isolate, authority' = authority, ears' = ears,
           hops' \in [Hops -> LineStates], \A h \in Hops : SameCalls(hops[h], hops'[h])
    PROVE  OrderInv'
<1> DEFINE at == IF ok THEN "acked" ELSE "rejected"
<1>1. ASSUME NEW q \in CfPublishes
      PROVE  /\ KeepsItsTurn(q)
             /\ requests[q].at = "chained" <=> requests'[q].at = "chained"
             /\ requests'[q].number = requests[q].number /\ requests'[q].seq = requests[q].seq
  <2>1. requests[q] \in Requests
    BY PartsAre
  <2>2. CASE q = p /\ requests[p].at = "fanned"
    <3>1. requests'[q] = [requests[q] EXCEPT !.at = at]
      BY <2>2, PartsAre DEF Answered
    <3>2. at \in {"acked", "rejected"}
      OBVIOUS
    <3> HIDE DEF at
    <3> QED BY <2>1, <2>2, <3>1, <3>2 DEF KeepsItsTurn, Requests, Stages
  <2>3. CASE ~(q = p /\ requests[p].at = "fanned")
    <3>1. requests'[q] = requests[q]
      BY <2>3, PartsAre DEF Answered
    <3> QED BY <3>1, SameTurn
  <2> QED BY <2>2, <2>3
<1>2. NumbersHold'
  BY <1>1, NumbersStay DEF OrderInv
<1>3. ChainGoesOn
  BY DEF ChainGoesOn
<1>4. TurnsHold'
  BY <1>1, <1>3, TurnsStay DEF OrderInv
<1>5. \A q \in CfPublishes : Out(q) => Out(q)' /\ requests'[q].seq = requests[q].seq
  BY <1>1, OutStays
<1>6. HopsHold'
  BY <1>5, HopsStay DEF KeyInv, CloudflareTypes, OrderInv
<1> QED BY <1>2, <1>4, <1>6 DEF OrderInv

\* Stubs that break and lines that go on.
LEMMA LinesInOrder ==
    ASSUME KeyInv, OrderInv, NEW h \in Hops, StubBreaks(h) \/ Resumes(h)
    PROVE  OrderInv'
<1>1. /\ cf' = cf /\ isolate' = isolate /\ authority' = authority /\ requests' = requests
      /\ ears' = ears
  BY DEF StubBreaks, Resumes, HopUnchanged
<1>2. hops \in [Hops -> LineStates] /\ \A g \in Hops : LinesHold(hops[g])
  BY HopsAre DEF OrderInv
<1>3. \E c : hops' = [hops EXCEPT ![h] = c] /\ SameCalls(hops[h], c)
  <2>1. CASE StubBreaks(h)
    <3>1. PICK n \in MayBreak(hops[h]) : hops' = [hops EXCEPT ![h] = Break(@, n)]
      BY <2>1 DEF StubBreaks
    <3>2. SameCalls(hops[h], Break(hops[h], n))
      BY <1>2, BreakDoes
    <3> QED BY <1>2, <3>1, <3>2
  <2>2. CASE Resumes(h)
    <3>1. hops' = [hops EXCEPT ![h] = ResumeCall(@)]
      BY <2>2 DEF Resumes
    <3>2. SameCalls(hops[h], ResumeCall(hops[h]))
      BY <1>2, ResumeDoes
    <3> QED BY <1>2, <3>1, <3>2
  <2> QED BY <2>1, <2>2
<1>4. PICK c : hops' = [hops EXCEPT ![h] = c] /\ SameCalls(hops[h], c)
  BY <1>3
<1>5. c \in LineStates
  BY <1>4 DEF SameCalls
<1>6. hops' \in [Hops -> LineStates] /\ \A g \in Hops : SameCalls(hops[g], hops'[g])
  BY <1>2, <1>4, <1>5, SameStay
<1>7. NumbersHold' /\ TurnsHold' /\ \A p \in CfPublishes : Out(p) => Out(p)'
  BY <1>1, TurnsIdle
<1>8. HopsHold'
  BY <1>1, <1>6, <1>7, HopsStay DEF KeyInv, CloudflareTypes, OrderInv
<1> QED BY <1>7, <1>8 DEF OrderInv

\* The coordinator answers.
LEMMA CoordinatorInOrder ==
    ASSUME KeyInv, OrderInv, CoordinatorAnswers
    PROVE  OrderInv'
<1>1. PICK i \in DOMAIN hops["coordinator"].calls :
         /\ hops["coordinator"].calls[i].at = "taken"
         /\ hops' = [hops EXCEPT !["coordinator"] = Settle(@, i, TRUE)]
         /\ requests' = Answered(requests, hops["coordinator"].calls[i].id, TRUE)
         /\ cf' = cf /\ isolate' = isolate /\ authority' = authority /\ ears' = ears
  BY DEF CoordinatorAnswers, HopUnchanged
<1>2. /\ hops \in [Hops -> LineStates] /\ \A g \in Hops : LinesHold(hops[g])
      /\ "coordinator" \in Hops
  BY HopsAre DEF OrderInv
<1>3. PICK c : c = Settle(hops["coordinator"], i, TRUE)
  OBVIOUS
<1>4. SameCalls(hops["coordinator"], c)
  <2>1. \A o \in LineStates : LinesHold(o) => \A k \in DOMAIN o.calls :
            o.calls[k].at \in {"sent", "taken"} => SameCalls(o, Settle(o, k, TRUE))
    BY SettleDoes
  <2> QED BY <1>1, <1>2, <1>3, <2>1
<1>5. hops' = [hops EXCEPT !["coordinator"] = c] /\ c \in LineStates
  BY <1>1, <1>2, <1>3, <1>4 DEF SameCalls
<1>6. hops' \in [Hops -> LineStates] /\ \A g \in Hops : SameCalls(hops[g], hops'[g])
  BY <1>2, <1>4, <1>5, SameStay
<1> QED BY <1>1, <1>6, AnswersInOrder

\* A call rejects, and the coordinator's with an owner's.
LEMMA RejectsInOrder ==
    ASSUME KeyInv, OrderInv, NEW h \in Hops, CallRejects(h)
    PROVE  OrderInv'
<1> DEFINE C == hops["coordinator"]
           Outer(p) == {j \in DOMAIN C.calls : C.calls[j].id = p /\ C.calls[j].at = "taken"}
<1>1. PICK i \in MayReject(hops[h]) :
         /\ hops' = [g \in Hops |->
              IF g = h THEN Settle(hops[g], i, FALSE)
              ELSE IF g = "coordinator" /\ Outer(hops[h].calls[i].id) # {}
                   THEN Settle(hops[g], Max(Outer(hops[h].calls[i].id)), FALSE)
              ELSE hops[g]]
         /\ requests' = Answered(requests, hops[h].calls[i].id, FALSE)
         /\ cf' = cf /\ isolate' = isolate /\ authority' = authority /\ ears' = ears
  BY DEF CallRejects, HopUnchanged
<1>2. PICK outer : outer = Outer(hops[h].calls[i].id)
  OBVIOUS
<1>3. /\ hops \in [Hops -> LineStates] /\ \A g \in Hops : LinesHold(hops[g])
      /\ "coordinator" \in Hops
      /\ \A j, k \in DOMAIN C.calls : j < k => CallSeq(C, j) < CallSeq(C, k)
      /\ \A j \in DOMAIN C.calls : C.calls[j].id \in CfPublishes
  BY HopsAre DEF OrderInv
<1>4. \A j, k \in outer : j = k
  <2>1. SUFFICES ASSUME NEW j \in outer, NEW k \in outer PROVE j = k
    OBVIOUS
  <2>2. j \in DOMAIN C.calls /\ k \in DOMAIN C.calls /\ C.calls[j].id = C.calls[k].id
    BY <1>2
  <2>3. j \in Nat /\ k \in Nat
    BY <1>3, <2>2, LineParts
  <2>4. CallSeq(C, j) = CallSeq(C, k) /\ CallSeq(C, j) \in Nat
    BY <1>3, <2>2, PartsAre DEF CallSeq, Requests
  <2> HIDE DEF C
  <2>5. ~(j < k) /\ ~(k < j)
    BY <1>3, <2>2, <2>4
  <2> QED BY <2>3, <2>5
<1>5. outer # {} => Max(outer) \in outer
  <2>1. SUFFICES ASSUME NEW j \in outer PROVE Max(outer) \in outer
    OBVIOUS
  <2>2. j \in Nat
    BY <1>2, <1>3, LineParts
  <2>3. \A k \in outer : j >= k
    <3>1. SUFFICES ASSUME NEW k \in outer PROVE j >= k
      OBVIOUS
    <3>2. k = j
      BY <1>4
    <3> QED BY <2>2, <3>2
  <2> QED BY <2>1, <2>3, Zenon DEF Max
<1>6. \A o \in LineStates : LinesHold(o) => \A k \in DOMAIN o.calls :
            o.calls[k].at \in {"sent", "taken"} => SameCalls(o, Settle(o, k, FALSE))
  BY SettleDoes
<1>7. SameCalls(hops[h], Settle(hops[h], i, FALSE))
  BY <1>3, <1>6 DEF MayReject
<1>8. outer # {} => SameCalls(C, Settle(C, Max(outer), FALSE))
  <2>1. SUFFICES ASSUME outer # {} PROVE SameCalls(C, Settle(C, Max(outer), FALSE))
    OBVIOUS
  <2>2. PICK j \in outer : j = Max(outer)
    BY <1>5, <2>1
  <2>3. j \in DOMAIN C.calls /\ C.calls[j].at = "taken"
    BY <1>2
  <2> QED BY <1>3, <1>6, <2>2, <2>3
<1>9. ASSUME NEW g \in Hops
      PROVE  SameCalls(hops[g], hops'[g])
  <2>1. hops'[g] = IF g = h THEN Settle(hops[g], i, FALSE)
                   ELSE IF g = "coordinator" /\ outer # {} THEN Settle(hops[g], Max(outer), FALSE)
                   ELSE hops[g]
    BY <1>1, <1>2, Zenon
  <2>2. CASE g = h
    BY <1>7, <2>1, <2>2
  <2>3. CASE g # h /\ g = "coordinator" /\ outer # {}
    BY <1>8, <2>1, <2>3
  <2>4. CASE g # h /\ ~(g = "coordinator" /\ outer # {})
    BY <1>3, <2>1, <2>4, SameStay
  <2> QED BY <2>2, <2>3, <2>4
<1>10. hops' \in [Hops -> LineStates]
  <2>1. hops' = [g \in Hops |-> hops'[g]]
    BY <1>1
  <2> QED BY <1>9, <2>1 DEF SameCalls
<1> QED BY <1>1, <1>9, <1>10, AnswersInOrder

\* The coordinator calls the owners listed.
LEMMA TakesInOrder ==
    ASSUME KeyInv, OrderInv, CoordinatorTakes
    PROVE  OrderInv'
<1> DEFINE C == hops["coordinator"]
<1>1. PICK i \in MayTake(C) :
         /\ hops' = [h \in Hops |->
                 IF h = "coordinator" THEN Take(hops[h], i)
                 ELSE IF h \in requests[C.calls[i].id].had THEN Call(hops[h], C.calls[i].id) ELSE hops[h]]
         /\ cf' = cf /\ isolate' = isolate /\ authority' = authority /\ ears' = ears
         /\ requests' = requests
  BY DEF CoordinatorTakes, HopUnchanged
<1>2. PICK p : p = C.calls[i].id
  OBVIOUS
<1>3. /\ hops \in [Hops -> LineStates] /\ \A g \in Hops : LinesHold(hops[g])
      /\ "coordinator" \in Hops /\ Owners \subseteq Hops
      /\ C \in LineStates /\ LinesHold(C)
      /\ cf \in Isolates /\ "coordinator" \notin Owners
  <2>1. cf \in Isolates
    BY DEF KeyInv, CloudflareTypes
  <2>2. "coordinator" \notin Owners
    BY <2>1, IsolatesAssumption DEF Owners, Subscribers
  <2> QED BY <2>1, <2>2, HopsAre DEF OrderInv
<1>4. PICK c : c = Take(C, i)
  OBVIOUS
<1>5. /\ i \in DOMAIN C.calls /\ SameCalls(C, c) /\ Pending(C, i)
      /\ DOMAIN c.calls = DOMAIN C.calls
      /\ c.calls[i].at = "taken"
      /\ \A j \in DOMAIN C.calls : j < i => ~Pending(c, j)
  BY <1>3, <1>4, TakeDoes
<1>6. p \in CfPublishes /\ Out(p) /\ requests[p].seq = CallSeq(C, i)
  BY <1>2, <1>3, <1>5, HopsAre DEF OrderInv, CallSeq
<1>7. \A q \in CfPublishes : requests[q].seq \in Nat
  BY PartsAre DEF Requests
<1> HIDE DEF C
<1>8. hops'["coordinator"] = c /\ c \in LineStates /\ LinesHold(c)
  BY <1>1, <1>3, <1>4, <1>5 DEF SameCalls, C
<1>9. \A j \in DOMAIN c.calls : /\ c.calls[j].id = C.calls[j].id /\ j \in DOMAIN C.calls
                                /\ Pending(c, j) => Pending(C, j) /\ i < j
  <2>1. SUFFICES ASSUME NEW j \in DOMAIN c.calls
                 PROVE  Pending(c, j) => i < j
    BY <1>5 DEF SameCalls
  <2>2. i \in Nat /\ j \in Nat
    BY <1>3, <1>5, LineParts
  <2>3. ~Pending(c, i)
    BY <1>5 DEF Pending
  <2> QED BY <1>5, <2>2, <2>3
<1>10. \A j \in DOMAIN C.calls : C.calls[j].id \in CfPublishes /\ Out(C.calls[j].id)
  BY <1>3, HopsAre DEF OrderInv, C
<1>11. ASSUME NEW o \in Hops, o # "coordinator", hops'[o] # hops[o]
       PROVE  hops'[o] = Call(hops[o], p)
  BY <1>1, <1>2, <1>11
<1>12. ASSUME NEW o \in Hops, o # "coordinator"
       PROVE  /\ hops'[o] \in LineStates /\ LinesHold(hops'[o])
              /\ \A k \in DOMAIN hops'[o].calls :
                    \/ /\ k \in DOMAIN hops[o].calls /\ hops'[o].calls[k] = hops[o].calls[k]
                    \/ /\ hops'[o].calls[k].id = p
                       /\ \A j \in DOMAIN hops'[o].calls :
                             j # k => j \in DOMAIN hops[o].calls /\ hops'[o].calls[j] = hops[o].calls[j]
                       /\ ~\E j \in DOMAIN hops'[o].calls : k < j
  <2>1. CASE hops'[o] = hops[o]
    BY <1>3, <2>1
  <2>2. CASE hops'[o] # hops[o]
    <3>1. PICK d : d = Call(hops[o], p)
      OBVIOUS
    <3>2. PICK l \in Nat : l = Len(hops[o].calls) /\ DOMAIN hops[o].calls = 1 .. l
      BY <1>3, LineParts
    <3>3. /\ d \in LineStates /\ LinesHold(d) /\ DOMAIN d.calls = 1 .. l + 1
          /\ \A k \in 1 .. l : d.calls[k] = hops[o].calls[k]
          /\ d.calls[l + 1].id = p
      BY <1>3, <1>6, <3>1, <3>2, CallDoes
    <3>4. \A k \in 1 .. l + 1 : k \in 1 .. l \/ (k = l + 1 /\ ~\E j \in 1 .. l + 1 : k < j)
      BY <3>2
    <3>5. hops'[o] = d
      BY <1>11, <1>12, <2>2, <3>1
    <3>6. \A j, k \in 1 .. l + 1 : j # k /\ k = l + 1 => j \in 1 .. l
      BY <3>2
    <3> QED BY <3>2, <3>3, <3>4, <3>5, <3>6
  <2> QED BY <2>1, <2>2
<1>13. hops' \in [Hops -> LineStates]
  <2>1. hops' = [h \in Hops |-> hops'[h]]
    BY <1>1
  <2> QED BY <1>8, <1>12, <2>1
<1>14. ASSUME NEW o \in Owners
       PROVE  /\ \A k \in DOMAIN hops'[o].calls :
                    /\ Out(hops'[o].calls[k].id)
                    /\ SeqAfter(o, k) <= requests[p].seq /\ SeqAfter(o, k) \in Nat
              /\ \A j, k \in DOMAIN hops'[o].calls : j < k => SeqAfter(o, j) < SeqAfter(o, k)
              /\ \A k \in DOMAIN hops'[o].calls : Pending(hops'[o], k) =>
                    \/ k \in DOMAIN hops[o].calls /\ hops'[o].calls[k] = hops[o].calls[k]
                       /\ Pending(hops[o], k)
                    \/ SeqAfter(o, k) = requests[p].seq
  <2>1. o \in Hops /\ o # "coordinator"
    BY <1>3
  <2>2. \A k \in DOMAIN hops[o].calls :
           /\ hops[o].calls[k].id \in CfPublishes /\ Out(hops[o].calls[k].id)
           /\ CallSeq(hops[o], k) < requests[p].seq
           /\ k \in Nat
    BY <1>3, <1>5, <1>6, <2>1, HopsAre, LineParts DEF OrderInv, C
  <2>3. \A j, k \in DOMAIN hops[o].calls : j < k => CallSeq(hops[o], j) < CallSeq(hops[o], k)
    BY <2>1, HopsAre DEF OrderInv
  <2>4. ASSUME NEW k \in DOMAIN hops'[o].calls
        PROVE  /\ Out(hops'[o].calls[k].id)
               /\ SeqAfter(o, k) <= requests[p].seq /\ SeqAfter(o, k) \in Nat
    <3>1. CASE k \in DOMAIN hops[o].calls /\ hops'[o].calls[k] = hops[o].calls[k]
      <4>1. SeqAfter(o, k) = CallSeq(hops[o], k) /\ CallSeq(hops[o], k) \in Nat
        BY <1>1, <1>7, <2>2, <3>1 DEF SeqAfter, CallSeq
      <4>2. requests[p].seq \in Nat
        BY <1>6, <1>7
      <4> QED BY <2>2, <3>1, <4>1, <4>2
    <3>2. CASE hops'[o].calls[k].id = p
      <4>1. SeqAfter(o, k) = requests[p].seq /\ requests[p].seq \in Nat
        BY <1>1, <1>6, <1>7, <3>2 DEF SeqAfter
      <4> QED BY <1>6, <3>2, <4>1
    <3> QED BY <1>12, <2>1, <3>1, <3>2
  <2>5. ASSUME NEW j \in DOMAIN hops'[o].calls, NEW k \in DOMAIN hops'[o].calls, j < k
        PROVE  SeqAfter(o, j) < SeqAfter(o, k)
    <3>1. CASE k \in DOMAIN hops[o].calls /\ hops'[o].calls[k] = hops[o].calls[k]
      <4>1. j \in DOMAIN hops[o].calls /\ hops'[o].calls[j] = hops[o].calls[j]
        BY <1>12, <2>1, <2>5
      <4>2. CallSeq(hops[o], j) < CallSeq(hops[o], k)
        BY <2>3, <2>5, <3>1, <4>1
      <4> QED BY <1>1, <3>1, <4>1, <4>2 DEF SeqAfter, CallSeq
    <3>2. CASE /\ hops'[o].calls[k].id = p
               /\ \A a \in DOMAIN hops'[o].calls :
                     a # k => a \in DOMAIN hops[o].calls /\ hops'[o].calls[a] = hops[o].calls[a]
      <4>1. j # k
        <5>1. j \in Nat /\ k \in Nat
          BY <1>12, <2>1, LineParts
        <5> QED BY <2>5, <5>1
      <4>2. j \in DOMAIN hops[o].calls /\ hops'[o].calls[j] = hops[o].calls[j]
        BY <3>2, <4>1
      <4>3. CallSeq(hops[o], j) < requests[p].seq
        BY <2>2, <4>2
      <4> QED BY <1>1, <3>2, <4>2, <4>3 DEF SeqAfter, CallSeq
    <3> QED BY <1>12, <2>1, <3>1, <3>2
  <2>6. ASSUME NEW k \in DOMAIN hops'[o].calls, Pending(hops'[o], k)
        PROVE  \/ k \in DOMAIN hops[o].calls /\ hops'[o].calls[k] = hops[o].calls[k]
                  /\ Pending(hops[o], k)
               \/ SeqAfter(o, k) = requests[p].seq
    BY <1>1, <1>12, <2>1, <2>6 DEF Pending, SeqAfter
  <2> QED BY <2>4, <2>5, <2>6
<1>15. /\ \A j \in DOMAIN c.calls : SeqAfter("coordinator", j) = CallSeq(C, j)
       /\ \A j, k \in DOMAIN C.calls : j < k => CallSeq(C, j) < CallSeq(C, k)
       /\ \A j \in DOMAIN C.calls : CallSeq(C, j) \in Nat
  BY <1>1, <1>3, <1>7, <1>8, <1>9, HopsAre DEF OrderInv, SeqAfter, CallSeq, C
<1>16. /\ ears' \in [Subscribers -> Seq(CfPublishes)]
       /\ \A q \in CfPublishes : Out(q) => StillOut(q)
  BY <1>1, HopsAre DEF OrderInv, Out, StillOut
<1>17. \A h \in Hops :
          /\ LinesHold(hops'[h])
          /\ \A k \in DOMAIN hops'[h].calls : StillOut(hops'[h].calls[k].id)
          /\ \A j, k \in DOMAIN hops'[h].calls : j < k => SeqAfter(h, j) < SeqAfter(h, k)
  <2>1. SUFFICES ASSUME NEW h \in Hops
                 PROVE  /\ LinesHold(hops'[h])
                        /\ \A k \in DOMAIN hops'[h].calls : StillOut(hops'[h].calls[k].id)
                        /\ \A j, k \in DOMAIN hops'[h].calls : j < k => SeqAfter(h, j) < SeqAfter(h, k)
    OBVIOUS
  <2>2. CASE h = "coordinator"
    BY <1>8, <1>9, <1>10, <1>15, <1>16, <2>2
  <2>3. CASE h # "coordinator"
    <3>1. h \in Owners
      BY <2>3 DEF Hops
    <3>2. \A k \in DOMAIN hops'[h].calls : hops'[h].calls[k].id \in CfPublishes
      BY <1>13, LineParts
    <3> QED BY <1>12, <1>14, <1>16, <2>3, <3>1, <3>2
  <2> QED BY <2>2, <2>3
<1>18. ASSUME NEW j \in DOMAIN c.calls, Pending(c, j)
       PROVE  /\ \A o \in Owners : \A k \in DOMAIN hops'[o].calls :
                     SeqAfter(o, k) < SeqAfter("coordinator", j)
              /\ \A s \in Subscribers : \A k \in DOMAIN ears'[s] :
                     requests'[ears'[s][k]].seq < SeqAfter("coordinator", j)
  <2>1. /\ Pending(C, j) /\ i < j /\ j \in DOMAIN C.calls
        /\ SeqAfter("coordinator", j) = CallSeq(C, j)
    BY <1>9, <1>15, <1>18
  <2>2. CallSeq(C, i) < CallSeq(C, j)
    BY <1>5, <1>15, <2>1
  <2>3. ASSUME NEW o \in Owners, NEW k \in DOMAIN hops'[o].calls
        PROVE  SeqAfter(o, k) < SeqAfter("coordinator", j)
    <3>1. SeqAfter(o, k) <= requests[p].seq /\ SeqAfter(o, k) \in Nat
      BY <1>14
    <3> QED BY <1>5, <1>6, <1>15, <2>1, <2>2, <3>1
  <2>4. \A s \in Subscribers : \A k \in DOMAIN ears[s] : requests[ears[s][k]].seq < CallSeq(C, j)
    BY <2>1, HopsAre DEF OrderInv, C
  <2> QED BY <1>1, <2>1, <2>3, <2>4
<1>19. ASSUME NEW s \in Subscribers
       PROVE  /\ \A k \in DOMAIN ears'[s] : StillOut(ears'[s][k])
              /\ \A k \in DOMAIN hops'[cf.owners[s]].calls : Pending(hops'[cf.owners[s]], k) =>
                    \A j \in DOMAIN ears'[s] : requests'[ears'[s][j]].seq < SeqAfter(cf.owners[s], k)
              /\ \A j, k \in DOMAIN ears'[s] :
                    j < k => requests'[ears'[s][j]].seq < requests'[ears'[s][k]].seq
  <2>1. /\ \A k \in DOMAIN ears[s] : ears[s][k] \in CfPublishes /\ Out(ears[s][k])
        /\ \A j, k \in DOMAIN ears[s] :
              j < k => requests[ears[s][j]].seq < requests[ears[s][k]].seq
        /\ cf.owners[s] \in Owners
        /\ \A k \in DOMAIN ears[s] : requests[ears[s][k]].seq < CallSeq(C, i)
    BY <1>5, HopsAre DEF OrderInv, C
  <2>2. PICK o \in Owners : o = cf.owners[s]
    BY <2>1
  <2>3. ASSUME NEW k \in DOMAIN hops'[o].calls, Pending(hops'[o], k), NEW j \in DOMAIN ears[s]
        PROVE  requests[ears[s][j]].seq < SeqAfter(o, k)
    <3>1. CASE /\ k \in DOMAIN hops[o].calls /\ hops'[o].calls[k] = hops[o].calls[k]
               /\ Pending(hops[o], k)
      <4>1. requests[ears[s][j]].seq < CallSeq(hops[o], k)
        BY <2>2, <3>1, HopsAre DEF OrderInv
      <4> QED BY <1>1, <3>1, <4>1 DEF SeqAfter, CallSeq
    <3>2. CASE SeqAfter(o, k) = requests[p].seq
      BY <1>6, <2>1, <3>2
    <3> QED BY <1>14, <2>3, <3>1, <3>2
  <2> QED BY <1>1, <1>16, <2>1, <2>2, <2>3
<1>20. HopsHold'
  BY <1>1, <1>8, <1>13, <1>16, <1>17, <1>18, <1>19, HopsCome
<1>21. NumbersHold' /\ TurnsHold'
  BY <1>1, TurnsIdle
<1> QED BY <1>20, <1>21 DEF OrderInv

\* An owner takes a call, and its subscribers hear it.
LEMMA OwnersInOrder ==
    ASSUME KeyInv, OrderInv, NEW o \in Hops, o # "coordinator", OwnerTakes(o)
    PROVE  OrderInv'
<1> DEFINE O == hops[o]
           C == hops["coordinator"]
<1>1. PICK i \in MayTake(O) :
         /\ hops' = [hops EXCEPT ![o] = Settle(Take(@, i), i, TRUE)]
         /\ ears' = [s \in Subscribers |->
                       IF s \in isolate.subs /\ cf.owners[s] = o THEN Append(ears[s], O.calls[i].id)
                       ELSE ears[s]]
         /\ cf' = cf /\ isolate' = isolate /\ authority' = authority /\ requests' = requests
  BY DEF OwnerTakes, HopUnchanged
<1>2. PICK p : p = O.calls[i].id
  OBVIOUS
<1>3. /\ hops \in [Hops -> LineStates] /\ \A g \in Hops : LinesHold(hops[g])
      /\ "coordinator" \in Hops /\ Owners \subseteq Hops
      /\ O \in LineStates /\ LinesHold(O) /\ o \in Owners
      /\ ears \in [Subscribers -> Seq(CfPublishes)]
  BY HopsAre DEF OrderInv, Hops
<1>4. PICK t : t = Take(O, i)
  OBVIOUS
<1>5. /\ i \in DOMAIN O.calls /\ SameCalls(O, t) /\ Pending(O, i)
      /\ DOMAIN t.calls = DOMAIN O.calls
      /\ t.calls[i].at = "taken"
      /\ \A j \in DOMAIN O.calls : j < i => ~Pending(t, j)
  BY <1>3, <1>4, TakeDoes
<1>6. PICK c : c = Settle(t, i, TRUE)
  OBVIOUS
<1>7. SameCalls(t, c) /\ DOMAIN c.calls = DOMAIN O.calls
  <2>1. \A a \in LineStates : LinesHold(a) => \A k \in DOMAIN a.calls :
            a.calls[k].at \in {"sent", "taken"} =>
                SameCalls(a, Settle(a, k, TRUE)) /\ DOMAIN Settle(a, k, TRUE).calls = DOMAIN a.calls
    BY SettleDoes
  <2>2. t \in LineStates /\ LinesHold(t)
    BY <1>5 DEF SameCalls
  <2>3. i \in DOMAIN t.calls /\ t.calls[i].at \in {"sent", "taken"}
    BY <1>5
  <2> QED BY <1>5, <1>6, <2>1, <2>2, <2>3
<1>8. /\ p \in CfPublishes /\ Out(p) /\ requests[p].seq = CallSeq(O, i)
      /\ \A q \in CfPublishes : requests[q].seq \in Nat /\ (Out(q) => StillOut(q))
  <2>1. p \in CfPublishes /\ Out(p) /\ requests[p].seq = CallSeq(O, i)
    BY <1>2, <1>3, <1>5, HopsAre DEF OrderInv, CallSeq
  <2>2. \A q \in CfPublishes : requests[q].seq \in Nat /\ (Out(q) => StillOut(q))
    BY <1>1, PartsAre DEF Requests, Out, StillOut
  <2> QED BY <2>1, <2>2
<1>9. SameCalls(O, c)
  BY <1>5, <1>7 DEF SameCalls
<1> HIDE DEF O, C
<1>10. /\ hops' = [hops EXCEPT ![o] = c] /\ c \in LineStates
       /\ hops'[o] = c /\ \A g \in Hops : g # o => hops'[g] = hops[g]
       /\ hops' \in [Hops -> LineStates]
  <2>1. hops' = [hops EXCEPT ![o] = c]
    BY <1>1, <1>3, <1>4, <1>6 DEF O
  <2>2. c \in LineStates
    BY <1>9 DEF SameCalls
  <2> QED BY <1>3, <2>1, <2>2
<1>11. \A j \in DOMAIN c.calls : Pending(c, j) => Pending(O, j) /\ i < j
  <2>1. SUFFICES ASSUME NEW j \in DOMAIN c.calls, Pending(c, j)
                 PROVE  i < j
    BY <1>9 DEF SameCalls
  <2>2. i \in Nat /\ j \in Nat
    BY <1>3, <1>5, <1>7, LineParts
  <2>3. Pending(t, j) /\ j \in DOMAIN O.calls
    BY <1>7, <2>1 DEF SameCalls
  <2>4. ~Pending(t, i)
    BY <1>5 DEF Pending
  <2> QED BY <1>5, <2>2, <2>3, <2>4
<1>12. \A h \in Hops : \A k \in DOMAIN hops'[h].calls :
          /\ k \in DOMAIN hops[h].calls /\ SeqAfter(h, k) = CallSeq(hops[h], k)
          /\ hops'[h].calls[k].id = hops[h].calls[k].id
          /\ hops[h].calls[k].id \in CfPublishes /\ Out(hops[h].calls[k].id)
          /\ Pending(hops'[h], k) => Pending(hops[h], k)
  <2>1. SUFFICES ASSUME NEW h \in Hops, NEW k \in DOMAIN hops'[h].calls
                 PROVE  /\ k \in DOMAIN hops[h].calls /\ SeqAfter(h, k) = CallSeq(hops[h], k)
                        /\ hops'[h].calls[k].id = hops[h].calls[k].id
                        /\ hops[h].calls[k].id \in CfPublishes /\ Out(hops[h].calls[k].id)
                        /\ Pending(hops'[h], k) => Pending(hops[h], k)
    OBVIOUS
  <2>2. /\ k \in DOMAIN hops[h].calls /\ hops'[h].calls[k].id = hops[h].calls[k].id
        /\ Pending(hops'[h], k) => Pending(hops[h], k)
    <3>1. CASE h = o
      BY <1>9, <1>10, <3>1 DEF SameCalls, O
    <3>2. CASE h # o
      BY <1>10, <3>2
    <3> QED BY <3>1, <3>2
  <2> QED BY <1>1, <2>2, HopsAre DEF OrderInv, SeqAfter, CallSeq
<1>13. ASSUME NEW s \in Subscribers
       PROVE  /\ ears'[s] \in Seq(CfPublishes)
              /\ \/ ears'[s] = ears[s]
                 \/ /\ cf.owners[s] = o
                    /\ \E l \in Nat :
                          /\ DOMAIN ears[s] = 1 .. l /\ DOMAIN ears'[s] = 1 .. l + 1
                          /\ \A k \in 1 .. l : ears'[s][k] = ears[s][k]
                          /\ ears'[s][l + 1] = p
  <2>1. CASE s \in isolate.subs /\ cf.owners[s] = o
    <3>1. ears'[s] = Append(ears[s], p)
      BY <1>1, <1>2, <2>1
    <3>2. PICK l \in Nat : l = Len(ears[s]) /\ DOMAIN ears[s] = 1 .. l
      BY <1>3, LenProperties
    <3>3. /\ ears'[s] \in Seq(CfPublishes) /\ Len(ears'[s]) = l + 1
          /\ \A k \in 1 .. l : ears'[s][k] = ears[s][k]
          /\ ears'[s][l + 1] = p
      BY <1>3, <1>8, <3>1, <3>2, AppendProperties
    <3>4. DOMAIN ears'[s] = 1 .. l + 1
      BY <3>3, LenProperties
    <3> QED BY <2>1, <3>2, <3>3, <3>4
  <2>2. CASE ~(s \in isolate.subs /\ cf.owners[s] = o)
    BY <1>1, <1>3, <2>2
  <2> QED BY <2>1, <2>2
<1>14. ears' \in [Subscribers -> Seq(CfPublishes)]
  <2>1. ears' = [s \in Subscribers |-> ears'[s]]
    BY <1>1
  <2> QED BY <1>13, <2>1
<1>15. ASSUME NEW s \in Subscribers, NEW k \in DOMAIN ears'[s]
       PROVE  \/ k \in DOMAIN ears[s] /\ ears'[s][k] = ears[s][k]
              \/ /\ cf.owners[s] = o /\ ears'[s][k] = p
                 /\ \A j \in DOMAIN ears'[s] : j # k => j \in DOMAIN ears[s] /\ ears'[s][j] = ears[s][j]
                 /\ ~\E j \in DOMAIN ears'[s] : k < j
  <2>1. CASE ears'[s] = ears[s]
    BY <2>1
  <2>2. CASE ears'[s] # ears[s]
    <3>1. PICK l \in Nat : /\ DOMAIN ears[s] = 1 .. l /\ DOMAIN ears'[s] = 1 .. l + 1
                           /\ \A a \in 1 .. l : ears'[s][a] = ears[s][a]
                           /\ ears'[s][l + 1] = p
      BY <1>13, <2>2
    <3>2. \A a \in 1 .. l + 1 : a \in 1 .. l \/ (a = l + 1 /\ ~\E j \in 1 .. l + 1 : a < j)
      BY <3>1
    <3>3. \A a \in 1 .. l + 1 : a # l + 1 => a \in 1 .. l
      BY <3>1
    <3>4. cf.owners[s] = o
      BY <1>13, <2>2
    <3> QED BY <1>15, <3>1, <3>2, <3>3, <3>4
  <2> QED BY <2>1, <2>2
<1>16. /\ \A j, k \in DOMAIN O.calls : j < k => CallSeq(O, j) < CallSeq(O, k)
       /\ \A j \in DOMAIN C.calls : Pending(C, j) =>
              /\ CallSeq(O, i) < CallSeq(C, j)
              /\ \A s \in Subscribers : \A k \in DOMAIN ears[s] : requests[ears[s][k]].seq < CallSeq(C, j)
       /\ \A s \in Subscribers : cf.owners[s] = o =>
              \A k \in DOMAIN ears[s] : requests[ears[s][k]].seq < CallSeq(O, i)
       /\ \A s \in Subscribers :
              /\ \A k \in DOMAIN ears[s] : ears[s][k] \in CfPublishes /\ Out(ears[s][k])
              /\ \A j, k \in DOMAIN ears[s] :
                    j < k => requests[ears[s][j]].seq < requests[ears[s][k]].seq
  BY <1>3, <1>5, HopsAre DEF OrderInv, O, C
<1>17. \A h \in Hops :
          /\ LinesHold(hops'[h])
          /\ \A k \in DOMAIN hops'[h].calls : StillOut(hops'[h].calls[k].id)
          /\ \A j, k \in DOMAIN hops'[h].calls : j < k => SeqAfter(h, j) < SeqAfter(h, k)
  <2>1. \A h \in Hops : LinesHold(hops'[h])
    BY <1>3, <1>9, <1>10 DEF SameCalls
  <2>2. \A h \in Hops : \A j, k \in DOMAIN hops[h].calls : j < k => CallSeq(hops[h], j) < CallSeq(hops[h], k)
    BY HopsAre DEF OrderInv
  <2> QED BY <1>8, <1>12, <2>1, <2>2
<1>18. ASSUME NEW j \in DOMAIN hops'["coordinator"].calls, Pending(hops'["coordinator"], j)
       PROVE  /\ \A g \in Owners : \A k \in DOMAIN hops'[g].calls :
                     SeqAfter(g, k) < SeqAfter("coordinator", j)
              /\ \A s \in Subscribers : \A k \in DOMAIN ears'[s] :
                     requests'[ears'[s][k]].seq < SeqAfter("coordinator", j)
  <2>1. /\ j \in DOMAIN C.calls /\ Pending(C, j) /\ SeqAfter("coordinator", j) = CallSeq(C, j)
    BY <1>3, <1>12, <1>18 DEF C
  <2>2. \A g \in Owners : \A k \in DOMAIN hops[g].calls : CallSeq(hops[g], k) < CallSeq(C, j)
    BY <2>1, HopsAre DEF OrderInv, C
  <2>3. ASSUME NEW g \in Owners, NEW k \in DOMAIN hops'[g].calls
        PROVE  SeqAfter(g, k) < SeqAfter("coordinator", j)
    BY <1>3, <1>12, <2>1, <2>2
  <2>4. ASSUME NEW s \in Subscribers, NEW k \in DOMAIN ears'[s]
        PROVE  requests'[ears'[s][k]].seq < SeqAfter("coordinator", j)
    BY <1>1, <1>8, <1>15, <1>16, <2>1
  <2> QED BY <2>3, <2>4
<1>19. ASSUME NEW s \in Subscribers
       PROVE  /\ \A k \in DOMAIN ears'[s] : StillOut(ears'[s][k])
              /\ \A k \in DOMAIN hops'[cf.owners[s]].calls : Pending(hops'[cf.owners[s]], k) =>
                    \A j \in DOMAIN ears'[s] : requests'[ears'[s][j]].seq < SeqAfter(cf.owners[s], k)
              /\ \A j, k \in DOMAIN ears'[s] :
                    j < k => requests'[ears'[s][j]].seq < requests'[ears'[s][k]].seq
  <2>1. \A k \in DOMAIN ears'[s] : StillOut(ears'[s][k])
    BY <1>8, <1>15, <1>16
  <2>2. PICK g \in Owners : g = cf.owners[s] /\ g \in Hops
    BY HopsAre DEF OrderInv
  <2>3. ASSUME NEW k \in DOMAIN hops'[g].calls, Pending(hops'[g], k), NEW j \in DOMAIN ears'[s]
        PROVE  requests'[ears'[s][j]].seq < SeqAfter(g, k)
    <3>1. /\ k \in DOMAIN hops[g].calls /\ SeqAfter(g, k) = CallSeq(hops[g], k)
          /\ Pending(hops[g], k)
      BY <1>12, <2>2, <2>3
    <3>2. CASE j \in DOMAIN ears[s] /\ ears'[s][j] = ears[s][j]
      <4>1. requests[ears[s][j]].seq < CallSeq(hops[g], k)
        BY <2>2, <3>1, <3>2, HopsAre DEF OrderInv
      <4> QED BY <1>1, <3>1, <3>2, <4>1
    <3>3. CASE cf.owners[s] = o /\ ears'[s][j] = p
      <4>1. g = o /\ i < k
        BY <1>10, <1>11, <2>2, <2>3, <3>3
      <4>2. CallSeq(O, i) < CallSeq(O, k)
        BY <1>5, <1>16, <3>1, <4>1 DEF O
      <4> QED BY <1>1, <1>8, <3>1, <3>3, <4>1, <4>2 DEF O
    <3> QED BY <1>15, <3>2, <3>3
  <2>4. ASSUME NEW j \in DOMAIN ears'[s], NEW k \in DOMAIN ears'[s], j < k
        PROVE  requests'[ears'[s][j]].seq < requests'[ears'[s][k]].seq
    <3>1. CASE k \in DOMAIN ears[s] /\ ears'[s][k] = ears[s][k]
      <4>1. j \in DOMAIN ears[s] /\ ears'[s][j] = ears[s][j]
        BY <1>15, <2>4
      <4> QED BY <1>1, <1>16, <2>4, <3>1, <4>1
    <3>2. CASE /\ cf.owners[s] = o /\ ears'[s][k] = p
               /\ \A a \in DOMAIN ears'[s] : a # k => a \in DOMAIN ears[s] /\ ears'[s][a] = ears[s][a]
      <4>1. j # k
        <5>1. j \in Nat /\ k \in Nat
          BY <1>13, LenProperties
        <5> QED BY <2>4, <5>1
      <4>2. j \in DOMAIN ears[s] /\ ears'[s][j] = ears[s][j]
        BY <3>2, <4>1
      <4> QED BY <1>1, <1>8, <1>16, <3>2, <4>2, SMTT(180)
    <3> QED BY <1>15, <3>1, <3>2
  <2> QED BY <2>1, <2>2, <2>3, <2>4
<1>20. HopsHold'
  BY <1>1, <1>10, <1>14, <1>17, <1>18, <1>19, HopsCome
<1>21. NumbersHold' /\ TurnsHold'
  BY <1>1, TurnsIdle
<1> QED BY <1>20, <1>21 DEF OrderInv

\* The first in the chain has its number and goes to the coordinator, or has no one to go to.
LEMMA FansInOrder ==
    ASSUME KeyInv, OrderInv, NEW p \in CfPublishes, FansOut(p)
    PROVE  OrderInv'
<1> DEFINE at == IF requests[p].had = {} THEN "acked" ELSE "fanned"
           C == hops["coordinator"]
<1>1. /\ requests[p].at = "chained" /\ requests[p].number = "stored" /\ requests[p].listed
      /\ authority' = [authority EXCEPT !.chain = Unchained]
      /\ requests' = [requests EXCEPT ![p].at = at]
      /\ hops' = IF requests[p].had = {} THEN hops ELSE [hops EXCEPT !["coordinator"] = Call(@, p)]
      /\ cf' = cf /\ isolate' = isolate /\ ears' = ears
  BY DEF FansOut
<1>2. at \in {"acked", "fanned"}
  OBVIOUS
<1> HIDE DEF at
<1>3. requests[p] \in Requests /\ \A q \in CfPublishes : requests[q].seq \in Nat
  BY PartsAre DEF Requests
<1>4. /\ requests'[p].at = at /\ requests'[p].number = requests[p].number
      /\ requests'[p].seq = requests[p].seq /\ requests'[p].direct = requests[p].direct
      /\ requests'[p].run = requests[p].run
      /\ \A q \in CfPublishes : q # p => requests'[q] = requests[q]
  BY <1>1, <1>3, PartsAre DEF Requests
<1>5. \A q \in CfPublishes : KeepsItsTurn(q)
  <2>1. KeepsItsTurn(p)
    BY <1>1, <1>2, <1>4 DEF KeepsItsTurn
  <2> QED BY <1>4, <2>1, SameTurn
<1>6. authority.chain # <<>>
  <2>1. PICK i \in DOMAIN authority.chain : authority.chain[i] = p
    BY <1>1, PartsAre
  <2> QED BY <2>1
<1>7. authority'.chain = Unchained /\ authority'.stored = authority.stored
      /\ authority'.cache = authority.cache
  BY <1>1, PartsAre
<1>8. NumbersHold'
  BY <1>1, <1>2, <1>4, <1>7, NumbersStay DEF OrderInv
<1>9. TurnsHold'
  <2>1. ChainGoesOn
    BY <1>6, <1>7 DEF ChainGoesOn
  <2>2. \A q \in CfPublishes : requests'[q].number = requests[q].number /\ requests'[q].seq = requests[q].seq
    BY <1>4
  <2> QED BY <1>1, <1>5, <2>1, <2>2, TurnsStay DEF OrderInv
<1>10. \A q \in CfPublishes : Out(q) =>
          /\ Out(q)' /\ StillOut(q) /\ requests'[q].seq = requests[q].seq
          /\ requests[q].seq < requests[p].seq
  <2>1. SUFFICES ASSUME NEW q \in CfPublishes, Out(q)
                 PROVE  /\ Out(q)' /\ StillOut(q) /\ requests'[q].seq = requests[q].seq
                        /\ requests[q].seq < requests[p].seq
    OBVIOUS
  <2>2. Out(q)' /\ StillOut(q) /\ requests'[q].seq = requests[q].seq
    BY <1>5, <2>1, OutStays DEF Out, StillOut
  <2>3. q # p /\ requests[q].number = "stored"
    BY <1>1, <2>1 DEF Out
  <2>4. /\ requests[q].seq <= authority.stored /\ requests[p].seq = authority.stored
        /\ requests[q].seq # requests[p].seq
    BY <1>1, <2>3 DEF OrderInv, NumbersHold
  <2> QED BY <1>3, <2>2, <2>4
<1>11. CASE requests[p].had = {}
  <2>1. hops' \in [Hops -> LineStates] /\ \A h \in Hops : SameCalls(hops[h], hops'[h])
    BY <1>1, <1>11, HopsAre, SameStay DEF OrderInv
  <2>2. HopsHold'
    BY <1>1, <1>10, <2>1, HopsStay DEF KeyInv, CloudflareTypes, OrderInv
  <2> QED BY <1>8, <1>9, <2>2 DEF OrderInv
<1>12. CASE requests[p].had # {}
  <2>1. hops' = [hops EXCEPT !["coordinator"] = Call(@, p)] /\ at = "fanned" /\ StillOut(p)
    BY <1>1, <1>4, <1>12 DEF StillOut, at
  <2>2. /\ hops \in [Hops -> LineStates] /\ \A g \in Hops : LinesHold(hops[g])
        /\ "coordinator" \in Hops /\ Owners \subseteq Hops
        /\ C \in LineStates /\ LinesHold(C)
        /\ ears \in [Subscribers -> Seq(CfPublishes)]
        /\ "coordinator" \notin Owners
    <3>1. "coordinator" \notin Owners
      BY IsolatesAssumption DEF KeyInv, CloudflareTypes, Owners, Subscribers
    <3> QED BY <3>1, HopsAre DEF OrderInv
  <2>3. PICK c : c = Call(C, p)
    OBVIOUS
  <2>4. PICK l \in Nat : l = Len(C.calls) /\ DOMAIN C.calls = 1 .. l
    BY <2>2, LineParts
  <2>5. /\ c \in LineStates /\ LinesHold(c) /\ DOMAIN c.calls = 1 .. l + 1
        /\ \A k \in 1 .. l : c.calls[k] = C.calls[k]
        /\ c.calls[l + 1].id = p
    BY <2>2, <2>3, <2>4, CallDoes
  <2> HIDE DEF C
  <2>6. /\ hops'["coordinator"] = c /\ \A h \in Hops : h # "coordinator" => hops'[h] = hops[h]
        /\ hops' \in [Hops -> LineStates]
    BY <2>1, <2>2, <2>3, <2>5 DEF C
  <2>7. \A h \in Hops : h # "coordinator" => \A k \in DOMAIN hops'[h].calls :
            /\ hops[h].calls[k].id \in CfPublishes /\ Out(hops[h].calls[k].id)
            /\ SeqAfter(h, k) = CallSeq(hops[h], k)
    BY <1>10, <2>6, HopsAre DEF OrderInv, SeqAfter, CallSeq
  <2>8. /\ \A k \in 1 .. l : /\ C.calls[k].id \in CfPublishes /\ Out(C.calls[k].id)
                             /\ SeqAfter("coordinator", k) = CallSeq(C, k)
                             /\ CallSeq(C, k) < requests[p].seq
        /\ SeqAfter("coordinator", l + 1) = requests[p].seq
        /\ \A k \in 1 .. l + 1 : k \in 1 .. l \/ k = l + 1
        /\ \A j, k \in 1 .. l : j < k => CallSeq(C, j) < CallSeq(C, k)
    <3>1. \A k \in 1 .. l : C.calls[k].id \in CfPublishes /\ Out(C.calls[k].id)
      BY <2>2, <2>4, HopsAre DEF OrderInv, C
    <3>2. \A k \in 1 .. l + 1 : k \in 1 .. l \/ k = l + 1
      BY <2>4
    <3>3. \A j, k \in 1 .. l : j < k => CallSeq(C, j) < CallSeq(C, k)
      BY <2>2, <2>4, HopsAre DEF OrderInv, C
    <3>4. \A k \in 1 .. l : /\ SeqAfter("coordinator", k) = CallSeq(C, k)
                            /\ CallSeq(C, k) < requests[p].seq
      BY <1>10, <2>5, <2>6, <3>1 DEF SeqAfter, CallSeq
    <3>5. SeqAfter("coordinator", l + 1) = requests[p].seq
      BY <1>4, <2>5, <2>6 DEF SeqAfter
    <3> QED BY <3>1, <3>2, <3>3, <3>4, <3>5
  <2>9. \A h \in Hops :
          /\ LinesHold(hops'[h])
          /\ \A k \in DOMAIN hops'[h].calls : StillOut(hops'[h].calls[k].id)
          /\ \A j, k \in DOMAIN hops'[h].calls : j < k => SeqAfter(h, j) < SeqAfter(h, k)
    <3>1. SUFFICES ASSUME NEW h \in Hops
                   PROVE  /\ LinesHold(hops'[h])
                          /\ \A k \in DOMAIN hops'[h].calls : StillOut(hops'[h].calls[k].id)
                          /\ \A j, k \in DOMAIN hops'[h].calls : j < k => SeqAfter(h, j) < SeqAfter(h, k)
      OBVIOUS
    <3>2. CASE h # "coordinator"
      <4>1. \A j, k \in DOMAIN hops[h].calls : j < k => CallSeq(hops[h], j) < CallSeq(hops[h], k)
        BY HopsAre DEF OrderInv
      <4> QED BY <1>10, <2>2, <2>6, <2>7, <3>2, <4>1
    <3>3. CASE h = "coordinator"
      <4>1. ASSUME NEW k \in 1 .. l + 1
            PROVE  StillOut(c.calls[k].id)
        BY <1>10, <2>1, <2>5, <2>8
      <4>2. ASSUME NEW j \in 1 .. l + 1, NEW k \in 1 .. l + 1, j < k
            PROVE  SeqAfter("coordinator", j) < SeqAfter("coordinator", k)
        <5>1. j \in 1 .. l
          BY <2>4, <4>2
        <5> QED BY <2>8, <4>2, <5>1
      <4> QED BY <2>5, <2>6, <3>3, <4>1, <4>2
    <3> QED BY <3>2, <3>3
  <2>10. ASSUME NEW k \in 1 .. l + 1, Pending(c, k)
         PROVE  /\ \A o \in Owners : \A j \in DOMAIN hops'[o].calls :
                       SeqAfter(o, j) < SeqAfter("coordinator", k)
                /\ \A s \in Subscribers : \A j \in DOMAIN ears[s] :
                       requests'[ears[s][j]].seq < SeqAfter("coordinator", k)
    <3>1. \A s \in Subscribers : \A j \in DOMAIN ears[s] :
             /\ ears[s][j] \in CfPublishes /\ Out(ears[s][j])
             /\ requests'[ears[s][j]].seq = requests[ears[s][j]].seq
             /\ requests[ears[s][j]].seq < requests[p].seq
      BY <1>10, HopsAre DEF OrderInv
    <3>2. \A o \in Owners : \A j \in DOMAIN hops'[o].calls :
             /\ j \in DOMAIN hops[o].calls
             /\ SeqAfter(o, j) = CallSeq(hops[o], j) /\ CallSeq(hops[o], j) < requests[p].seq
      BY <1>10, <2>2, <2>6, <2>7 DEF CallSeq
    <3>3. CASE k \in 1 .. l
      <4>1. Pending(C, k) /\ k \in DOMAIN C.calls
        BY <2>4, <2>5, <2>10, <3>3 DEF Pending
      <4>2. /\ \A o \in Owners : \A j \in DOMAIN hops[o].calls : CallSeq(hops[o], j) < CallSeq(C, k)
            /\ \A s \in Subscribers : \A j \in DOMAIN ears[s] : requests[ears[s][j]].seq < CallSeq(C, k)
        BY <4>1, HopsAre DEF OrderInv, C
      <4> QED BY <2>8, <3>1, <3>2, <3>3, <4>2
    <3>4. CASE k = l + 1
      BY <2>8, <3>1, <3>2, <3>4
    <3> QED BY <2>8, <3>3, <3>4
  <2>11. ASSUME NEW s \in Subscribers
         PROVE  /\ \A k \in DOMAIN ears'[s] : StillOut(ears'[s][k])
                /\ \A k \in DOMAIN hops'[cf.owners[s]].calls : Pending(hops'[cf.owners[s]], k) =>
                      \A j \in DOMAIN ears'[s] : requests'[ears'[s][j]].seq < SeqAfter(cf.owners[s], k)
                /\ \A j, k \in DOMAIN ears'[s] :
                      j < k => requests'[ears'[s][j]].seq < requests'[ears'[s][k]].seq
    <3>1. /\ \A j \in DOMAIN ears[s] :
             /\ ears[s][j] \in CfPublishes /\ Out(ears[s][j]) /\ StillOut(ears[s][j])
             /\ requests'[ears[s][j]].seq = requests[ears[s][j]].seq
          /\ \A j, k \in DOMAIN ears[s] :
                 j < k => requests[ears[s][j]].seq < requests[ears[s][k]].seq
      BY <1>10, HopsAre DEF OrderInv
    <3>2. PICK o \in Owners : o = cf.owners[s] /\ o \in Hops /\ o # "coordinator"
      BY <2>2, HopsAre DEF OrderInv
    <3>3. hops'[o] = hops[o]
      BY <2>6, <3>2
    <3>4. ASSUME NEW k \in DOMAIN hops'[o].calls, Pending(hops'[o], k), NEW j \in DOMAIN ears[s]
          PROVE  requests'[ears[s][j]].seq < SeqAfter(o, k)
      <4>1. requests[ears[s][j]].seq < CallSeq(hops[o], k)
        BY <3>2, <3>3, <3>4, HopsAre DEF OrderInv
      <4> QED BY <2>7, <3>1, <3>2, <4>1
    <3> QED BY <1>1, <3>1, <3>2, <3>4
  <2>12. HopsHold'
    <3>1. \A k \in DOMAIN hops'["coordinator"].calls : Pending(hops'["coordinator"], k) =>
             /\ \A o \in Owners : \A j \in DOMAIN hops'[o].calls :
                   SeqAfter(o, j) < SeqAfter("coordinator", k)
             /\ \A s \in Subscribers : \A j \in DOMAIN ears'[s] :
                   requests'[ears'[s][j]].seq < SeqAfter("coordinator", k)
      BY <1>1, <2>5, <2>6, <2>10, ZenonT(180)
    <3>2. ears' \in [Subscribers -> Seq(CfPublishes)] /\ cf' = cf
      BY <1>1, <2>2
    <3> QED BY <2>6, <2>9, <2>11, <3>1, <3>2, HopsCome
  <2> QED BY <1>8, <1>9, <2>12 DEF OrderInv
<1> QED BY <1>11, <1>12

\* What leaves the calls as they are keeps them in order.
LEMMA HopsIdle ==
    ASSUME KeyInv, OrderInv, cf' = cf, hops' = hops, ears' = ears,
           \A p \in CfPublishes : KeepsItsTurn(p) \/ ~Out(p)
    PROVE  HopsHold'
<1>1. hops' \in [Hops -> LineStates] /\ \A h \in Hops : SameCalls(hops[h], hops'[h])
  BY HopsAre, SameStay DEF OrderInv
<1>2. \A p \in CfPublishes : Out(p) => Out(p)' /\ requests'[p].seq = requests[p].seq
  BY OutStays
<1> QED BY <1>1, <1>2, HopsStay DEF KeyInv, CloudflareTypes, OrderInv

\* The first in the chain is the only one with a number there.
LEMMA HeadNumbered ==
    ASSUME KeyInv, NEW p \in CfPublishes, requests[p].at = "chained", p = authority.chain[1],
           NEW q \in CfPublishes, q # p, requests[q].at = "chained"
    PROVE  requests[q].number = "none"
BY PartsAre

\* The first in the chain is numbered, listed, or leaves it.
LEMMA HeadTurns ==
    ASSUME KeyInv, OrderInv, cf' = cf, isolate' = isolate, hops' = hops, ears' = ears,
           NEW p \in CfPublishes, requests[p].at = "chained", p = authority.chain[1],
           NEW r, requests' = [requests EXCEPT ![p] = r],
           r.direct = requests[p].direct, r.run = requests[p].run,
           r.at \in {"chained", "rejected"},
           r.at = "rejected" => r.number = requests[p].number /\ r.seq = requests[p].seq,
           r.number = "stored" =>
               /\ r.seq = requests[p].seq
               /\ requests[p].number = "stored" \/ requests[p].number = "raised",
           requests[p].number = "stored" => r.seq = requests[p].seq,
           ChainGoesOn
    PROVE  TurnsHold' /\ HopsHold'
<1>1. requests'[p] = r /\ \A q \in CfPublishes : q # p => requests'[q] = requests[q]
  BY PartsAre
<1>2. \A q \in CfPublishes : KeepsItsTurn(q)
  <2>1. KeepsItsTurn(p)
    BY <1>1 DEF KeepsItsTurn
  <2> QED BY <1>1, <2>1, SameTurn
<1>3. ASSUME NEW q \in CfPublishes
      PROVE  /\ requests'[q].number = "stored" /\ requests[q].number # "stored" =>
                    /\ requests[q].at = "chained" /\ requests[q].number # "none"
                    /\ requests'[q].seq = requests[q].seq
                    /\ \A u \in CfPublishes :
                          requests[u].number = "stored" => requests[u].seq < requests[q].seq
             /\ requests[q].number = "stored" => requests'[q].seq = requests[q].seq
  <2>1. CASE q # p
    BY <1>1, <2>1
  <2>2. CASE q = p
    <3>1. ASSUME r.number = "stored", requests[p].number # "stored", NEW u \in CfPublishes,
                 requests[u].number = "stored"
          PROVE  requests[u].seq < requests[p].seq
      <4>1. requests[p].seq = authority.stored + 1 /\ requests[u].seq <= authority.stored
        BY <3>1 DEF OrderInv, NumbersHold
      <4>2. requests[u].seq \in Nat /\ authority.stored \in Nat
        BY PartsAre DEF Requests
      <4> QED BY <4>1, <4>2
    <3> QED BY <1>1, <2>2, <3>1
  <2> QED BY <2>1, <2>2
<1>4. TurnsHold'
  <2> HIDE DEF ChainGoesOn
  <2> QED BY <1>2, <1>3, TurnsStay DEF OrderInv
<1>5. HopsHold'
  BY <1>2, HopsIdle
<1> QED BY <1>4, <1>5

\* The first in the chain gets its number.
LEMMA NumbersInOrder ==
    ASSUME KeyInv, OrderInv, NEW p \in CfPublishes,
           ReadsSeq(p) \/ RaisesSeq(p) \/ StoresSeq(p) \/ Lists(p)
    PROVE  OrderInv'
<1> DEFINE seq == IF authority.cache > 0 THEN authority.cache ELSE authority.stored
<1>1. /\ requests[p] \in Requests /\ requests[p].seq \in Nat
      /\ authority.cache \in Nat /\ authority.stored \in Nat
      /\ \A q \in CfPublishes : requests[q].seq \in Nat
      /\ authority \in [chain : Seq(CfPublishes), cache : Nat, stored : Nat, seen : Nat]
  BY PartsAre DEF Requests
<1>2. requests[p].at = "chained" /\ p = authority.chain[1]
  <2>1. CASE ReadsSeq(p) \/ Lists(p)
    BY <2>1, HeadIs DEF ReadsSeq, Lists
  <2>2. CASE RaisesSeq(p) \/ StoresSeq(p)
    BY <2>2, PartsAre DEF RaisesSeq, StoresSeq
  <2> QED BY <2>1, <2>2
<1>3. \A q \in CfPublishes : q # p /\ requests[q].at = "chained" => requests[q].number = "none"
  BY <1>2, HeadNumbered
<1>4. /\ \A q \in CfPublishes : requests[q].number = "stored" =>
          requests[q].seq > 0 /\ requests[q].seq <= authority.stored
      /\ \A u, q \in CfPublishes :
          /\ requests[u].number = "stored" /\ requests[q].number = "stored"
          /\ requests[u].seq = requests[q].seq
          => u = q
      /\ requests[p].number = "read" =>
            requests[p].seq = authority.stored /\ authority.cache \in {0, authority.stored}
      /\ requests[p].number = "raised" =>
            requests[p].seq = authority.stored + 1 /\ authority.cache = requests[p].seq
      /\ requests[p].number = "stored" => requests[p].seq = authority.stored
      /\ authority.cache \in {0, authority.stored} \/ requests[p].number = "raised"
  BY <1>2, <1>3 DEF OrderInv, NumbersHold
<1>5. CASE Lists(p)
  <2> DEFINE r == [requests[p] EXCEPT !.listed = TRUE, !.had = kv]
  <2>1. /\ requests' = [requests EXCEPT ![p] = r] /\ cf' = cf /\ isolate' = isolate
        /\ hops' = hops /\ ears' = ears /\ authority' = authority
    BY <1>5 DEF Lists
  <2>2. /\ r.direct = requests[p].direct /\ r.run = requests[p].run /\ r.at = requests[p].at
        /\ r.number = requests[p].number /\ r.seq = requests[p].seq
    BY <1>1 DEF Requests
  <2> HIDE DEF r
  <2>3. requests'[p] = r /\ \A q \in CfPublishes : q # p => requests'[q] = requests[q]
    BY <2>1, PartsAre
  <2>4. NumbersHold'
    BY <2>1, <2>2, <2>3, NumbersStay DEF OrderInv
  <2>5. TurnsHold' /\ HopsHold'
    BY <1>2, <1>4, <2>1, <2>2, HeadTurns DEF ChainGoesOn
  <2> QED BY <2>4, <2>5 DEF OrderInv
<1>6. CASE ReadsSeq(p)
  <2> DEFINE r == [requests[p] EXCEPT !.number = "read", !.seq = seq]
  <2>1. /\ requests' = [requests EXCEPT ![p] = r] /\ cf' = cf /\ isolate' = isolate
        /\ hops' = hops /\ ears' = ears /\ authority' = authority /\ requests[p].number = "none"
    BY <1>6 DEF ReadsSeq
  <2>2. /\ r.direct = requests[p].direct /\ r.run = requests[p].run /\ r.at = requests[p].at
        /\ r.number = "read" /\ r.seq = seq
    BY <1>1 DEF Requests
  <2>3. seq = authority.stored /\ authority.cache \in {0, authority.stored}
    BY <1>1, <1>4, <2>1
  <2> HIDE DEF r, seq
  <2>4. requests'[p] = r /\ \A q \in CfPublishes : q # p => requests'[q] = requests[q]
    BY <2>1, PartsAre
  <2>5. NumbersHold'
    BY <1>1, <1>2, <1>3, <1>4, <2>1, <2>2, <2>3, <2>4, NamesStay DEF NumbersHold
  <2>6. TurnsHold' /\ HopsHold'
    BY <1>2, <2>1, <2>2, HeadTurns DEF ChainGoesOn
  <2> QED BY <2>5, <2>6 DEF OrderInv
<1>7. CASE RaisesSeq(p)
  <2> DEFINE r == [requests[p] EXCEPT !.number = "raised", !.seq = requests[p].seq + 1]
  <2>1. /\ requests' = [requests EXCEPT ![p] = r] /\ cf' = cf /\ isolate' = isolate
        /\ hops' = hops /\ ears' = ears /\ requests[p].number = "read"
        /\ authority' = [authority EXCEPT !.cache = requests[p].seq + 1]
    BY <1>7 DEF RaisesSeq
  <2>2. /\ r.direct = requests[p].direct /\ r.run = requests[p].run /\ r.at = requests[p].at
        /\ r.number = "raised" /\ r.seq = requests[p].seq + 1
    BY <1>1 DEF Requests
  <2>3. /\ authority'.chain = authority.chain /\ authority'.stored = authority.stored
        /\ authority'.cache = requests[p].seq + 1
    BY <1>1, <2>1
  <2> HIDE DEF r
  <2>4. requests'[p] = r /\ \A q \in CfPublishes : q # p => requests'[q] = requests[q]
    BY <2>1, PartsAre
  <2>5. NumbersHold'
    BY <1>1, <1>2, <1>3, <1>4, <2>1, <2>2, <2>3, <2>4, NamesStay DEF NumbersHold
  <2>6. TurnsHold' /\ HopsHold'
    BY <1>2, <2>1, <2>2, <2>3, HeadTurns DEF ChainGoesOn
  <2> QED BY <2>5, <2>6 DEF OrderInv
<1>8. CASE StoresSeq(p)
  <2> DEFINE r == [requests[p] EXCEPT !.number = "stored"]
  <2>1. /\ requests' = [requests EXCEPT ![p] = r] /\ cf' = cf /\ isolate' = isolate
        /\ hops' = hops /\ ears' = ears /\ requests[p].number = "raised"
        /\ authority' = [authority EXCEPT !.stored = requests[p].seq]
    BY <1>8 DEF StoresSeq
  <2>2. /\ r.direct = requests[p].direct /\ r.run = requests[p].run /\ r.at = requests[p].at
        /\ r.number = "stored" /\ r.seq = requests[p].seq
    BY <1>1 DEF Requests
  <2>3. /\ authority'.chain = authority.chain /\ authority'.stored = requests[p].seq
        /\ authority'.cache = authority.cache
    BY <1>1, <2>1
  <2> HIDE DEF r
  <2>4. requests'[p] = r /\ \A q \in CfPublishes : q # p => requests'[q] = requests[q]
    BY <2>1, PartsAre
  <2>5. NumbersHold'
    <3>1. /\ \A q \in CfPublishes : requests'[q].number = "stored" =>
                requests'[q].seq > 0 /\ requests'[q].seq <= authority'.stored
          /\ authority'.cache \in {0, authority'.stored}
      BY <1>1, <1>4, <2>1, <2>2, <2>3, <2>4
    <3>2. \A u, q \in CfPublishes :
             /\ requests'[u].number = "stored" /\ requests'[q].number = "stored"
             /\ requests'[u].seq = requests'[q].seq
             => u = q
      <4>1. \A q \in CfPublishes : q # p /\ requests'[q].number = "stored" =>
                requests'[q].seq # requests'[p].seq /\ requests[q].number = "stored"
                  /\ requests'[q].seq = requests[q].seq
        BY <1>1, <1>4, <2>1, <2>2, <2>4
      <4> QED BY <1>4, <4>1
    <3>3. \A q \in CfPublishes : requests'[q].at = "chained" =>
             /\ requests'[q].number \notin {"read", "raised"}
             /\ requests'[q].number = "stored" => requests'[q].seq = authority'.stored
      BY <1>3, <2>2, <2>3, <2>4
    <3> QED BY <1>1, <2>1, <3>1, <3>2, <3>3, NamesStay DEF NumbersHold
  <2>6. TurnsHold' /\ HopsHold'
    BY <1>2, <2>1, <2>2, <2>3, HeadTurns DEF ChainGoesOn
  <2> QED BY <2>5, <2>6 DEF OrderInv
<1> QED BY <1>5, <1>6, <1>7, <1>8

\* One whose owners can't be listed leaves the chain.
LEMMA FailsInOrder ==
    ASSUME KeyInv, OrderInv, NEW p \in CfPublishes, ListFails(p)
    PROVE  OrderInv'
<1> DEFINE r == [requests[p] EXCEPT !.at = "rejected"]
<1>1. /\ Chained(p) /\ requests[p].number = "stored" /\ cf' = cf /\ isolate' = isolate
      /\ hops' = hops /\ ears' = ears
      /\ authority' = [authority EXCEPT !.chain = Unchained]
      /\ requests' = Rejected(requests, {p})
  BY DEF ListFails
<1>2. /\ requests[p].at = "chained" /\ p = authority.chain[1] /\ authority.chain # <<>>
  BY <1>1, HeadIs
<1>3. requests' = [requests EXCEPT ![p] = r]
  BY <1>1, PartsAre DEF Rejected
<1>4. /\ r.direct = requests[p].direct /\ r.run = requests[p].run /\ r.at = "rejected"
      /\ r.number = requests[p].number /\ r.seq = requests[p].seq
  BY PartsAre DEF Requests
<1>5. /\ authority'.chain = Unchained /\ authority'.stored = authority.stored
      /\ authority'.cache = authority.cache
  BY <1>1, PartsAre
<1> HIDE DEF r
<1>6. requests'[p] = r /\ \A q \in CfPublishes : q # p => requests'[q] = requests[q]
  BY <1>3, PartsAre
<1>7. NumbersHold'
  BY <1>1, <1>4, <1>5, <1>6, NumbersStay DEF OrderInv
<1>8. TurnsHold' /\ HopsHold'
  BY <1>1, <1>2, <1>3, <1>4, <1>5, HeadTurns DEF ChainGoesOn
<1> QED BY <1>7, <1>8 DEF OrderInv

\* The authority restarts, and what it had in hand rejects.
LEMMA RestartsInOrder ==
    ASSUME KeyInv, OrderInv, AuthorityRestarts
    PROVE  OrderInv'
<1>1. /\ cf' = cf /\ isolate' = isolate /\ ears' = ears
      /\ authority' = [authority EXCEPT !.chain = <<>>, !.cache = 0]
      /\ requests' = Rejected(requests, Lost)
      /\ hops' = [hops EXCEPT !["coordinator"] = NoCalls]
  BY DEF AuthorityRestarts
<1>2. /\ authority'.chain = <<>> /\ authority'.stored = authority.stored /\ authority'.cache = 0
      /\ authority.stored \in Nat
  BY <1>1, PartsAre
<1>3. ASSUME NEW q \in CfPublishes
      PROVE  /\ requests'[q].direct = requests[q].direct /\ requests'[q].run = requests[q].run
             /\ requests'[q].number = requests[q].number /\ requests'[q].seq = requests[q].seq
             /\ requests'[q].at = IF requests[q].at \in {"chained", "fanned"} THEN "rejected"
                                  ELSE requests[q].at
  <2>1. requests[q] \in Requests
    BY PartsAre
  <2>2. requests'[q] = IF requests[q].at \in {"chained", "fanned"}
                       THEN [requests[q] EXCEPT !.at = "rejected"] ELSE requests[q]
    BY <1>1 DEF Rejected, Lost
  <2> QED BY <2>1, <2>2 DEF Requests
<1>4. \A q \in CfPublishes : KeepsItsTurn(q) /\ requests'[q].at # "chained"
  BY <1>3 DEF KeepsItsTurn
<1>5. NumbersHold'
  <2>1. /\ \A q \in CfPublishes : requests[q].number = "stored" =>
              requests[q].seq > 0 /\ requests[q].seq <= authority.stored
        /\ \A u, q \in CfPublishes :
              /\ requests[u].number = "stored" /\ requests[q].number = "stored"
              /\ requests[u].seq = requests[q].seq
              => u = q
    BY DEF OrderInv, NumbersHold
  <2>2. CfPublishes' = CfPublishes
    BY <1>1, NamesStay
  <2> QED BY <1>2, <1>3, <1>4, <2>1, <2>2 DEF NumbersHold
<1>6. TurnsHold'
  <2>1. ChainGoesOn
    BY <1>2, <1>4 DEF ChainGoesOn
  <2> HIDE DEF ChainGoesOn
  <2> QED BY <1>1, <1>3, <1>4, <2>1, TurnsStay DEF OrderInv
<1>7. HopsHold'
  <2>1. hops' \in [Hops -> LineStates] /\ \A h \in Hops : SameCalls(hops[h], hops'[h])
    <3>1. \A h \in Hops : hops'[h] = IF h = "coordinator" THEN NoCalls ELSE hops[h]
      BY <1>1, HopsAre DEF OrderInv
    <3>2. \A h \in Hops : SameCalls(hops[h], NoCalls)
      BY NoCallsHold DEF SameCalls
    <3>3. hops' = [h \in Hops |-> hops'[h]]
      BY <1>1, HopsAre DEF OrderInv
    <3> QED BY <3>1, <3>2, <3>3, HopsAre, SameStay, NoCallsHold DEF OrderInv
  <2>2. \A p \in CfPublishes : Out(p) => Out(p)' /\ requests'[p].seq = requests[p].seq
    BY <1>4, OutStays
  <2> QED BY <1>1, <2>1, <2>2, HopsStay DEF KeyInv, CloudflareTypes, OrderInv
<1> QED BY <1>5, <1>6, <1>7 DEF OrderInv

\* The numbers stay as publishes are made, call and wait.
LEMMA NumbersUnmade ==
    ASSUME KeyInv, OrderInv, cf' = cf, authority' = authority, hops' = hops, ears' = ears,
           \A q \in CfPublishes :
               \/ requests'[q] = requests[q]
               \/ /\ Uncalled(q) /\ requests'[q].number = requests[q].number
                  /\ requests'[q].at # "chained"
    PROVE  NumbersHold' /\ HopsHold'
<1>1. \A q \in CfPublishes : Uncalled(q) => requests[q].number = "none"
  BY PartsAre DEF Uncalled
<1>2. NumbersHold'
  <2>1. CfPublishes' = CfPublishes
    BY NamesStay
  <2>2. \A q \in CfPublishes : requests'[q].number # "none" \/ requests'[q].at = "chained" =>
            requests'[q] = requests[q]
    BY <1>1
  <2>3. \A q \in CfPublishes : requests[q].at = "chained" => requests'[q] = requests[q]
    BY DEF Uncalled
  <2> QED BY <2>1, <2>2, <2>3 DEF OrderInv, NumbersHold
<1>3. HopsHold'
  <2>1. \A q \in CfPublishes : KeepsItsTurn(q) \/ ~Out(q)
    BY SameTurn DEF Uncalled, Out
  <2> QED BY <2>1, HopsIdle
<1> QED BY <1>2, <1>3

\* A call enters the chain behind those before it.
LEMMA ArrivesInOrder ==
    ASSUME KeyInv, OrderInv, NEW n \in CfPublishes, Arrives(n)
    PROVE  OrderInv'
<1>1. /\ requests[n].at = "called"
      /\ \A q \in CfPublishes : q < n /\ requests[q].run = requests[n].run => requests[q].at # "called"
      /\ authority' = [authority EXCEPT !.chain = Append(@, n)]
      /\ requests' = [requests EXCEPT ![n].at = "chained"]
      /\ cf' = cf /\ isolate' = isolate /\ hops' = hops /\ ears' = ears
  BY DEF Arrives
<1>2. /\ requests'[n].at = "chained" /\ requests'[n].number = "none" /\ requests[n].number = "none"
      /\ requests'[n].direct = requests[n].direct /\ requests'[n].run = requests[n].run
      /\ requests'[n].seq = requests[n].seq
      /\ \A q \in CfPublishes : q # n => requests'[q] = requests[q]
  BY <1>1, PartsAre DEF Requests
<1>3. PICK l \in Nat : l = Len(authority.chain) /\ DOMAIN authority.chain = 1 .. l
  BY PartsAre
<1>4. /\ DOMAIN authority'.chain = 1 .. l + 1
      /\ \A i \in 1 .. l : authority'.chain[i] = authority.chain[i] /\ authority.chain[i] # n
      /\ authority'.chain[l + 1] = n
      /\ authority'.stored = authority.stored /\ authority'.cache = authority.cache
  <2>1. /\ authority'.chain = Append(authority.chain, n)
        /\ authority'.stored = authority.stored /\ authority'.cache = authority.cache
    BY <1>1, PartsAre
  <2>2. \A i \in 1 .. l : authority.chain[i] # n
    BY <1>1, <1>3, PartsAre
  <2> QED BY <1>3, <2>1, <2>2, PartsAre, AppendProperties, LenProperties
<1>5. CfPublishes' = CfPublishes
  BY <1>1, NamesStay
<1>6. NumbersHold'
  BY <1>1, <1>2, <1>4, NumbersStay DEF OrderInv
<1>7. HopsHold'
  <2>1. \A q \in CfPublishes : KeepsItsTurn(q) \/ ~Out(q)
    BY <1>1, <1>2, SameTurn DEF Out
  <2> QED BY <1>1, <2>1, HopsIdle
<1>8. TurnsHold'
  <2>1. /\ \A p \in CfPublishes :
            /\ Uncalled(p) => requests[p].run = 0 /\ ~requests[p].direct
            /\ ~Uncalled(p) /\ requests[p].direct => requests[p].run # 0
            /\ requests[p].at = "called" => requests[p].run # 0
            /\ ~requests[p].direct /\ requests[p].at \in {"called", "chained", "fanned"} =>
                  isolate.member.flushing
        /\ isolate.run > 0
    BY DEF OrderInv, TurnsHold
  <2>2. \A p, q \in CfPublishes :
          p < q /\ cf.publishes[p].own /\ cf.publishes[q].own /\ WaitsOrGoes(p) =>
              Uncalled(q) \/ (requests[q].at = "rejected" /\ requests[q].number = "none")
    BY DEF OrderInv, TurnsHold
  <2>3. \A p, q \in CfPublishes : Ahead(p, q) /\ Entered(q) =>
          /\ ~Uncalled(p) /\ requests[p].at # "called"
          /\ requests[p].at = "chained" =>
                /\ requests[q].at = "chained" /\ requests[q].number = "none"
                /\ \A i, j \in DOMAIN authority.chain :
                      authority.chain[i] = p /\ authority.chain[j] = q => i < j
          /\ requests[p].number = "stored" /\ requests[q].number = "stored" =>
                requests[p].seq < requests[q].seq
    BY DEF OrderInv, TurnsHold
  <2>4. \A p \in CfPublishes :
          /\ Uncalled(p)' <=> Uncalled(p)
          /\ WaitsOrGoes(p)' <=> WaitsOrGoes(p)
          /\ p # n => (Entered(p)' <=> Entered(p))
          /\ requests'[p].at = "called" => requests[p].at = "called" /\ p # n
    BY <1>1, <1>2 DEF Uncalled, WaitsOrGoes, Entered
  <2>5. \A p, q \in CfPublishes : Ahead(p, q)' <=> Ahead(p, q)
    BY <1>1, <1>2 DEF Ahead
  <2>6. /\ \A p \in CfPublishes :
            /\ Uncalled(p)' => requests'[p].run = 0 /\ ~requests'[p].direct
            /\ ~Uncalled(p)' /\ requests'[p].direct => requests'[p].run # 0
            /\ requests'[p].at = "called" => requests'[p].run # 0
            /\ ~requests'[p].direct /\ requests'[p].at \in {"called", "chained", "fanned"} =>
                  isolate'.member.flushing
        /\ isolate'.run > 0
    BY <1>1, <1>2, <2>1, <2>4
  <2>7. \A p, q \in CfPublishes :
          p < q /\ cf'.publishes[p].own /\ cf'.publishes[q].own /\ WaitsOrGoes(p)' =>
              Uncalled(q)' \/ (requests'[q].at = "rejected" /\ requests'[q].number = "none")
    BY <1>1, <1>2, <2>2, <2>4
  <2>8. ASSUME NEW p \in CfPublishes, NEW q \in CfPublishes, Ahead(p, q)', Entered(q)'
        PROVE  /\ ~Uncalled(p)' /\ requests'[p].at # "called"
               /\ requests'[p].at = "chained" =>
                     /\ requests'[q].at = "chained" /\ requests'[q].number = "none"
                     /\ \A i, j \in DOMAIN authority'.chain :
                           authority'.chain[i] = p /\ authority'.chain[j] = q => i < j
               /\ requests'[p].number = "stored" /\ requests'[q].number = "stored" =>
                     requests'[p].seq < requests'[q].seq
    <3>1. /\ Ahead(p, q) /\ p < q /\ cf.publishes[p].own /\ cf.publishes[q].own
          /\ p \in Nat /\ q \in Nat
      BY <2>5, <2>8, PlansAre DEF Ahead, KeyInv, CloudflareTypes
    <3>2. \A i \in 1 .. l + 1 : i \in 1 .. l \/ i = l + 1
      BY <1>3
    <3>3. CASE q # n
      <4>1. Entered(q)
        BY <2>4, <2>8, <3>3
      <4>2. /\ ~Uncalled(p) /\ requests[p].at # "called"
            /\ requests[p].at = "chained" =>
                  /\ requests[q].at = "chained" /\ requests[q].number = "none"
                  /\ \A i, j \in DOMAIN authority.chain :
                        authority.chain[i] = p /\ authority.chain[j] = q => i < j
            /\ requests[p].number = "stored" /\ requests[q].number = "stored" =>
                  requests[p].seq < requests[q].seq
        BY <2>3, <3>1, <4>1
      <4>3. p # n
        BY <1>1, <4>2
      <4>4. \A i, j \in DOMAIN authority'.chain :
               authority'.chain[i] = p /\ authority'.chain[j] = q =>
                   i \in DOMAIN authority.chain /\ j \in DOMAIN authority.chain
                     /\ authority.chain[i] = p /\ authority.chain[j] = q
        BY <1>3, <1>4, <3>2, <3>3, <4>3
      <4> QED BY <1>2, <2>4, <3>3, <4>2, <4>3, <4>4
    <3>4. CASE q = n
      <4>1. requests[q].at = "called" /\ ~Uncalled(q) /\ p # n
        BY <1>1, <3>1, <3>4 DEF Uncalled
      <4>2. ~WaitsOrGoes(p)
        BY <2>2, <3>1, <4>1
      <4>3. ~Uncalled(p)
        <5>1. requests[p].at # "none"
          BY <3>1, <4>1 DEF KeyInv, PlacesHold
        <5>2. requests[p].at # "queued"
          BY <2>1, <4>2 DEF WaitsOrGoes, Uncalled
        <5> QED BY <5>1, <5>2 DEF Uncalled
      <4>4. requests[p].at # "called"
        <5>1. CASE ~requests[p].direct
          BY <4>2, <5>1 DEF WaitsOrGoes
        <5>2. CASE requests[p].direct
          BY <1>1, <3>1, <3>4, <5>2 DEF Ahead
        <5> QED BY <5>1, <5>2
      <4>5. ASSUME NEW i \in DOMAIN authority'.chain, NEW j \in DOMAIN authority'.chain,
                   authority'.chain[i] = p, authority'.chain[j] = q
            PROVE  i < j
        <5>1. i \in 1 .. l
          BY <1>4, <3>2, <4>1, <4>5
        <5>2. j = l + 1
          BY <1>4, <3>2, <3>4, <4>5
        <5> QED BY <1>3, <5>1, <5>2
      <4> QED BY <1>2, <2>4, <3>4, <4>1, <4>3, <4>4, <4>5
    <3> QED BY <3>3, <3>4
  <2> QED BY <1>5, <2>6, <2>7, <2>8 DEF TurnsHold
<1> QED BY <1>6, <1>7, <1>8 DEF OrderInv

\* The turns hold as one publish n is made, called, or refused from the queue.
LEMMA TurnsUnmade ==
    ASSUME KeyInv, OrderInv, cf' = cf, authority' = authority, isolate'.run > 0,
           isolate.member.flushing => isolate'.member.flushing,
           NEW n \in CfPublishes, Uncalled(n),
           \A q \in CfPublishes : requests'[q].number = requests[q].number,
           \A q \in CfPublishes : q # n =>
               \/ requests'[q] = requests[q]
               \/ /\ requests[q].at = "queued" /\ requests'[q].at = "rejected"
                  /\ requests'[q].direct = requests[q].direct /\ requests'[q].run = requests[q].run,
           \/ /\ requests'[n].at \in {"queued", "rejected"}
              /\ requests'[n].direct = requests[n].direct /\ requests'[n].run = requests[n].run
              /\ requests[n].at = "none"
           \/ /\ requests'[n].at = "called" /\ requests'[n].run # 0
              /\ ~requests'[n].direct => requests[n].at = "queued" /\ isolate'.member.flushing
              /\ cf.publishes[n].own => \A q \in CfPublishes :
                    q < n /\ cf.publishes[q].own => ~WaitsOrGoes(q)
    PROVE  TurnsHold'
<1>1. CfPublishes' = CfPublishes
  BY NamesStay
<1>2. /\ \A p \in CfPublishes :
          /\ Uncalled(p) => requests[p].run = 0 /\ ~requests[p].direct
          /\ ~Uncalled(p) /\ requests[p].direct => requests[p].run # 0
          /\ requests[p].at = "called" => requests[p].run # 0
          /\ ~requests[p].direct /\ requests[p].at \in {"called", "chained", "fanned"} =>
                isolate.member.flushing
      /\ \A p, q \in CfPublishes :
          p < q /\ cf.publishes[p].own /\ cf.publishes[q].own /\ WaitsOrGoes(p) =>
              Uncalled(q) \/ (requests[q].at = "rejected" /\ requests[q].number = "none")
      /\ \A p, q \in CfPublishes : Ahead(p, q) /\ Entered(q) =>
          /\ ~Uncalled(p) /\ requests[p].at # "called"
          /\ requests[p].at = "chained" =>
                /\ requests[q].at = "chained" /\ requests[q].number = "none"
                /\ \A i, j \in DOMAIN authority.chain :
                      authority.chain[i] = p /\ authority.chain[j] = q => i < j
          /\ requests[p].number = "stored" /\ requests[q].number = "stored" =>
                requests[p].seq < requests[q].seq
  BY DEF OrderInv, TurnsHold
<1>3. /\ \A p \in CfPublishes : Uncalled(p) => requests[p].number = "none"
      /\ \A p, q \in CfPublishes : p < q /\ requests[q].at # "none" => requests[p].at # "none"
      /\ \A p \in CfPublishes : p \in Nat
  BY PartsAre, PlansAre DEF KeyInv, PlacesHold, Uncalled, CloudflareTypes
<1>4. /\ requests'[n].number = "none" /\ ~Entered(n)'
      /\ \A p \in CfPublishes :
            /\ Uncalled(p)' => /\ Uncalled(p) /\ requests'[p].direct = requests[p].direct
                               /\ requests'[p].run = requests[p].run
            /\ Entered(p)' => Entered(p) /\ ~Uncalled(p) /\ requests'[p] = requests[p]
  BY <1>3 DEF Uncalled, Entered
<1>5. \A p \in CfPublishes :
          /\ Uncalled(p)' => requests'[p].run = 0 /\ ~requests'[p].direct
          /\ ~Uncalled(p)' /\ requests'[p].direct => requests'[p].run # 0
          /\ requests'[p].at = "called" => requests'[p].run # 0
          /\ ~requests'[p].direct /\ requests'[p].at \in {"called", "chained", "fanned"} =>
                isolate'.member.flushing
  BY <1>2, <1>4 DEF Uncalled
<1>6. ASSUME NEW p \in CfPublishes, NEW q \in CfPublishes, p < q, cf.publishes[p].own,
             cf.publishes[q].own, WaitsOrGoes(p)'
      PROVE  Uncalled(q)' \/ (requests'[q].at = "rejected" /\ requests'[q].number = "none")
  <2>1. CASE p = n /\ requests[n].at = "none"
    <3>1. requests[q].at = "none" /\ q # n
      BY <1>3, <1>6, <2>1
    <3> QED BY <3>1 DEF Uncalled
  <2>2. CASE ~(p = n /\ requests[n].at = "none")
    <3>1. WaitsOrGoes(p)
      <4>1. CASE p = n
        <5>1. requests[n].at = "queued" /\ ~requests[n].direct
          BY <1>2, <2>2, <4>1 DEF Uncalled
        <5> QED BY <4>1, <5>1 DEF WaitsOrGoes
      <4>2. CASE p # n
        BY <1>6, <4>2 DEF WaitsOrGoes
      <4> QED BY <4>1, <4>2
    <3>2. Uncalled(q) \/ (requests[q].at = "rejected" /\ requests[q].number = "none")
      BY <1>2, <1>6, <3>1
    <3>3. CASE q = n
      <4>1. requests'[n].at # "called"
        BY <1>6, <3>1, <3>3
      <4> QED BY <1>4, <3>3, <4>1 DEF Uncalled
    <3>4. CASE q # n
      BY <1>3, <3>2, <3>4 DEF Uncalled
    <3> QED BY <3>3, <3>4
  <2> QED BY <2>1, <2>2
<1>7. ASSUME NEW p \in CfPublishes, NEW q \in CfPublishes, Ahead(p, q)', Entered(q)'
      PROVE  /\ ~Uncalled(p)' /\ requests'[p].at # "called"
             /\ requests'[p].at = "chained" =>
                   /\ requests'[q].at = "chained" /\ requests'[q].number = "none"
                   /\ \A i, j \in DOMAIN authority'.chain :
                         authority'.chain[i] = p /\ authority'.chain[j] = q => i < j
             /\ requests'[p].number = "stored" /\ requests'[q].number = "stored" =>
                   requests'[p].seq < requests'[q].seq
  <2>1. q # n /\ Entered(q) /\ requests'[q] = requests[q] /\ ~Uncalled(q)
    BY <1>4, <1>7
  <2>2. p < q /\ cf.publishes[p].own /\ cf.publishes[q].own
    BY <1>7 DEF Ahead
  <2>3. p # n
    <3>1. CASE requests[n].at = "none"
      BY <1>3, <2>1, <2>2, <3>1 DEF Uncalled
    <3>2. CASE requests[n].at = "queued"
      <4>1. ~requests[n].direct
        BY <1>2
      <4>2. p = n => Ahead(p, q)
        BY <2>2, <4>1 DEF Ahead
      <4> QED BY <1>2, <2>1, <4>2
    <3> QED BY <3>1, <3>2 DEF Uncalled
  <2>4. Ahead(p, q)
    BY <1>7, <2>1, <2>2, <2>3 DEF Ahead
  <2>5. ~Uncalled(p)
    BY <1>2, <2>1, <2>4
  <2>6. requests'[p] = requests[p]
    BY <2>3, <2>5 DEF Uncalled
  <2> QED BY <1>2, <2>1, <2>4, <2>5, <2>6 DEF Uncalled
<1> QED BY <1>1, <1>5, <1>6, <1>7 DEF TurnsHold

\* A publish of another isolate calls.
LEMMA ElsewhereInOrder ==
    ASSUME KeyInv, OrderInv, NEW n \in CfPublishes, PublishElsewhere(n)
    PROVE  OrderInv'
<1>1. /\ requests[n].at = "none" /\ ~cf.publishes[n].own
      /\ requests' = [requests EXCEPT ![n] = Called(@, 0 - n, TRUE)]
      /\ cf' = cf /\ isolate' = isolate /\ authority' = authority /\ hops' = hops /\ ears' = ears
  BY DEF PublishElsewhere
<1>2. /\ requests'[n].at = "called" /\ requests'[n].run = 0 - n /\ requests'[n].direct
      /\ requests'[n].number = requests[n].number
      /\ \A q \in CfPublishes : q # n => requests'[q] = requests[q]
  BY <1>1, PartsAre DEF Called, Requests
<1>3. requests'[n].run # 0
  <2>1. n \in Nat \ {0}
    BY PlansAre DEF KeyInv, CloudflareTypes
  <2> QED BY <1>2, <2>1
<1>4. Uncalled(n) /\ isolate'.run > 0
  BY <1>1 DEF Uncalled, OrderInv, TurnsHold
<1>5. NumbersHold' /\ HopsHold'
  BY <1>1, <1>2, <1>4, NumbersUnmade
<1>6. TurnsHold'
  BY <1>1, <1>2, <1>3, <1>4, TurnsUnmade
<1> QED BY <1>5, <1>6 DEF OrderInv

\* A publish of the isolate calls behind none that waits, or waits itself.
LEMMA PublishesInOrder ==
    ASSUME KeyInv, OrderInv, NEW n \in CfPublishes, IsolatePublishes(n)
    PROVE  OrderInv'
<1> DEFINE m    == isolate.member
           kept == Buffered(m.queued, n)
           gone == (ToSet(m.queued) \cup {n}) \ ToSet(kept)
<1>1. /\ requests[n].at = "none" /\ cf.publishes[n].own
      /\ cf' = cf /\ authority' = authority /\ hops' = hops /\ ears' = ears
      /\ MustBuffer(m) => /\ requests' = Rejected(Published(n), gone)
                          /\ isolate' = [isolate EXCEPT !.member.queued = kept]
      /\ ~MustBuffer(m) =>
           \E run \in {isolate.run, isolate.run + 1} :
              /\ isolate' = [isolate EXCEPT !.run = run]
              /\ requests' = [Published(n) EXCEPT ![n] = Called(@, run, TRUE)]
  BY DEF IsolatePublishes
<1>2. /\ requests[n] \in Requests /\ requests \in [CfPublishes -> Requests]
      /\ isolate \in [subs : SUBSET Subscribers, member : Members, run : Int, left : SUBSET Owners]
      /\ m \in Members /\ m.queued \in Seq(CfPublishes)
      /\ isolate.run > 0 /\ isolate.run \in Int /\ Uncalled(n)
  BY <1>1, PartsAre DEF KeyInv, CloudflareTypes, Members, OrderInv, TurnsHold, Uncalled
<1>3. /\ Published(n)[n].at = "queued" /\ Published(n)[n].number = requests[n].number
      /\ Published(n)[n].direct = requests[n].direct /\ Published(n)[n].run = requests[n].run
      /\ \A q \in CfPublishes : q # n => Published(n)[q] = requests[q]
      /\ DOMAIN Published(n)[n] = DOMAIN requests[n] /\ DOMAIN Published(n) = CfPublishes
  BY <1>2 DEF Published, Requests
<1> HIDE DEF m, kept, gone
<1>4. CASE ~MustBuffer(m)
  <2>1. PICK run \in {isolate.run, isolate.run + 1} :
              /\ isolate' = [isolate EXCEPT !.run = run]
              /\ requests' = [Published(n) EXCEPT ![n] = Called(@, run, TRUE)]
    BY <1>1, <1>4
  <2>2. run \in Int /\ run > 0
    BY <1>2
  <2>3. /\ requests'[n].at = "called" /\ requests'[n].run = run /\ requests'[n].direct
        /\ requests'[n].number = requests[n].number
        /\ \A q \in CfPublishes : q # n => requests'[q] = requests[q]
    <3>1. requests'[n] = Called(Published(n)[n], run, TRUE)
      BY <1>3, <2>1
    <3>2. /\ requests'[n].at = "called" /\ requests'[n].run = run /\ requests'[n].direct
          /\ requests'[n].number = requests[n].number
      BY <1>2, <1>3, <3>1 DEF Called, Requests
    <3> QED BY <1>3, <2>1, <3>2
  <2>4. isolate'.run > 0 /\ isolate'.member = isolate.member
    BY <1>2, <2>1, <2>2
  <2>5. ASSUME NEW q \in CfPublishes, q < n, cf.publishes[q].own
        PROVE  ~WaitsOrGoes(q)
    <3>1. ~m.exists \/ ~(m.setups > 0 \/ m.flushing)
      BY <1>4 DEF MustBuffer
    <3>2. m.setups > 0 \/ m.flushing => m.exists
      BY DEF KeyInv, OwnersCounted, m
    <3>3. ~(m.setups > 0 \/ m.flushing)
      BY <3>1, <3>2
    <3>4. m.queued = <<>>
      BY <3>3 DEF KeyInv, StateIsUsed, m
    <3>5. requests[q].at # "queued"
      <4>1. DOMAIN m.queued = {}
        BY <3>4
      <4> QED BY <4>1 DEF KeyInv, PlacesHold, m
    <3>6. ~(~requests[q].direct /\ requests[q].at \in {"called", "chained", "fanned"})
      BY <3>3 DEF OrderInv, TurnsHold, m
    <3> QED BY <3>5, <3>6 DEF WaitsOrGoes
  <2>6. NumbersHold' /\ HopsHold'
    BY <1>1, <1>2, <2>3, NumbersUnmade
  <2>7. TurnsHold'
    BY <1>1, <1>2, <2>2, <2>3, <2>4, <2>5, TurnsUnmade
  <2> QED BY <2>6, <2>7 DEF OrderInv
<1>5. CASE MustBuffer(m)
  <2>1. /\ requests' = Rejected(Published(n), gone)
        /\ isolate' = [isolate EXCEPT !.member.queued = kept]
    BY <1>1, <1>5
  <2>2. isolate'.run > 0 /\ isolate'.member.flushing = isolate.member.flushing
    BY <1>2, <2>1 DEF m, Members
  <2>3. \A q \in gone : q = n \/ requests[q].at = "queued"
    <3>1. ToSet(m.queued) = {m.queued[i] : i \in DOMAIN m.queued}
      BY Zenon DEF ToSet
    <3>2. \A i \in DOMAIN m.queued : requests[m.queued[i]].at = "queued"
      BY DEF KeyInv, PlacesHold, m
    <3> QED BY <3>1, <3>2 DEF gone
  <2>4. \A q \in CfPublishes :
            /\ q \in gone => requests'[q] = [Published(n)[q] EXCEPT !.at = "rejected"]
            /\ q \notin gone => requests'[q] = Published(n)[q]
    BY <2>1 DEF Rejected
  <2>5. ASSUME NEW q \in CfPublishes, q # n
        PROVE  /\ requests'[q].number = requests[q].number
               /\ \/ requests'[q] = requests[q]
                  \/ /\ requests[q].at = "queued" /\ requests'[q].at = "rejected"
                     /\ requests'[q].direct = requests[q].direct /\ requests'[q].run = requests[q].run
    <3>1. requests[q] \in Requests /\ Published(n)[q] = requests[q]
      BY <1>2, <1>3, <2>5
    <3>2. CASE q \in gone
      <4>1. requests[q].at = "queued" /\ requests'[q] = [requests[q] EXCEPT !.at = "rejected"]
        BY <2>3, <2>4, <2>5, <3>1, <3>2
      <4> QED BY <3>1, <4>1 DEF Requests
    <3>3. CASE q \notin gone
      BY <2>4, <3>1, <3>3
    <3> QED BY <3>2, <3>3
  <2>6. /\ requests'[n].at \in {"queued", "rejected"} /\ requests'[n].number = requests[n].number
        /\ requests'[n].direct = requests[n].direct /\ requests'[n].run = requests[n].run
    <3>1. CASE n \in gone
      <4>1. requests'[n] = [Published(n)[n] EXCEPT !.at = "rejected"]
        BY <2>4, <3>1
      <4> QED BY <1>2, <1>3, <4>1 DEF Requests
    <3>2. CASE n \notin gone
      BY <1>3, <2>4, <3>2
    <3> QED BY <3>1, <3>2
  <2>7. NumbersHold' /\ HopsHold'
    <3>1. \A q \in CfPublishes :
             \/ requests'[q] = requests[q]
             \/ /\ Uncalled(q) /\ requests'[q].number = requests[q].number
                /\ requests'[q].at # "chained"
      BY <1>2, <2>5, <2>6 DEF Uncalled
    <3> QED BY <1>1, <3>1, NumbersUnmade
  <2>8. TurnsHold'
    BY <1>1, <1>2, <2>2, <2>5, <2>6, TurnsUnmade
  <2> QED BY <2>7, <2>8 DEF OrderInv
<1> QED BY <1>4, <1>5

\* The next that waited calls once the one before was answered, or the flush ends.
LEMMA FlushesInOrder ==
    ASSUME KeyInv, OrderInv, Flushes
    PROVE  OrderInv'
<1> DEFINE m == isolate.member
           n == Head(m.queued)
<1>1. /\ cf' = cf /\ authority' = authority /\ hops' = hops /\ ears' = ears
      /\ m.flushing /\ ~RunSending(requests)
  BY DEF Flushes
<1>2. /\ isolate \in [subs : SUBSET Subscribers, member : Members, run : Int, left : SUBSET Owners]
      /\ m \in Members /\ m.queued \in Seq(CfPublishes)
      /\ isolate.run > 0
      /\ \A i, j \in DOMAIN m.queued : i < j => m.queued[i] < m.queued[j]
      /\ \A i \in DOMAIN m.queued : requests[m.queued[i]].at = "queued"
      /\ \A q \in CfPublishes : requests[q].at = "queued" =>
              \E i \in DOMAIN m.queued : m.queued[i] = q
  BY DEF KeyInv, CloudflareTypes, Members, OrderInv, TurnsHold, PlacesHold
<1>3. \A q \in CfPublishes :
         ~requests[q].direct => requests[q].at \notin {"called", "chained", "fanned"}
  BY <1>1 DEF RunSending
<1>4. CASE m.queued = <<>>
  <2>1. /\ requests' = requests
        /\ isolate' = [isolate EXCEPT
              !.member = TearDown([@ EXCEPT !.flushing = FALSE], isolate.subs)]
    BY <1>4 DEF Flushes
  <2>2. isolate'.run = isolate.run
    BY <1>2, <2>1
  <2>3. NumbersHold' /\ HopsHold'
    BY <1>1, <2>1, NumbersUnmade
  <2>4. TurnsHold'
    <3>1. /\ \A q \in CfPublishes : Uncalled(q)' <=> Uncalled(q)
          /\ \A q \in CfPublishes : WaitsOrGoes(q)' <=> WaitsOrGoes(q)
          /\ \A q \in CfPublishes : Entered(q)' <=> Entered(q)
          /\ \A u, q \in CfPublishes : Ahead(u, q)' <=> Ahead(u, q)
          /\ CfPublishes' = CfPublishes
      BY <1>1, <2>1, NamesStay DEF Uncalled, WaitsOrGoes, Entered, Ahead
    <3> HIDE DEF m
    <3> QED BY <1>1, <1>2, <1>3, <2>1, <2>2, <3>1 DEF OrderInv, TurnsHold
  <2> QED BY <2>3, <2>4 DEF OrderInv
<1>5. CASE m.queued # <<>>
  <2>1. /\ requests' = [requests EXCEPT ![n] = Called(@, 0 - n, FALSE)]
        /\ isolate' = [isolate EXCEPT !.member.queued = Tail(@)]
    BY <1>5 DEF Flushes
  <2>2. PICK l \in Nat : l = Len(m.queued) /\ DOMAIN m.queued = 1 .. l /\ l > 0
    BY <1>2, <1>5, LenProperties, EmptySeq
  <2>3. n = m.queued[1] /\ 1 \in DOMAIN m.queued /\ n \in CfPublishes
    <3>1. n = m.queued[1] /\ 1 \in DOMAIN m.queued
      BY <1>2, <1>5, <2>2
    <3> HIDE DEF n, m
    <3> QED BY <1>2, <3>1, ElementOfSeq
  <2>4. isolate'.run > 0 /\ isolate'.member.flushing = m.flushing
    BY <1>2, <2>1 DEF Members
  <2> HIDE DEF n, m
  <2>5. n \in Nat \ {0} /\ requests[n].at = "queued" /\ Uncalled(n)
    BY <1>2, <2>3, PlansAre DEF Uncalled, KeyInv, CloudflareTypes
  <2>6. /\ requests'[n].at = "called" /\ requests'[n].run = 0 - n /\ ~requests'[n].direct
        /\ requests'[n].number = requests[n].number
        /\ \A q \in CfPublishes : q # n => requests'[q] = requests[q]
    BY <2>1, <2>3, PartsAre DEF Called, Requests
  <2>7. requests'[n].run # 0
    BY <2>5, <2>6
  <2>8. ASSUME NEW q \in CfPublishes, q < n
        PROVE  ~WaitsOrGoes(q)
    <3>1. requests[q].at # "queued"
      <4>1. SUFFICES ASSUME requests[q].at = "queued" PROVE FALSE
        OBVIOUS
      <4>2. PICK i \in 1 .. l : m.queued[i] = q
        BY <1>2, <2>2, <4>1
      <4>3. q \in Nat /\ n \in Nat
        BY <2>5, PlansAre DEF KeyInv, CloudflareTypes
      <4>4. i = 1 \/ 1 < i
        BY <4>2
      <4>5. CASE i = 1
        BY <2>3, <2>8, <4>2, <4>3, <4>5
      <4>6. CASE 1 < i
        <5>1. n < q
          BY <1>2, <2>2, <2>3, <4>2, <4>6
        <5> QED BY <2>8, <4>3, <5>1
      <4> QED BY <4>4, <4>5, <4>6
    <3> QED BY <1>3, <3>1 DEF WaitsOrGoes
  <2>9. NumbersHold' /\ HopsHold'
    BY <1>1, <2>5, <2>6, NumbersUnmade
  <2>10. TurnsHold'
    <3>1. isolate.member.flushing => isolate'.member.flushing
      BY <2>4 DEF m
    <3>2. isolate'.member.flushing
      BY <1>1, <2>4 DEF m
    <3> QED BY <1>1, <2>3, <2>4, <2>5, <2>6, <2>7, <2>8, <3>1, <3>2, TurnsUnmade
  <2> QED BY <2>9, <2>10 DEF OrderInv
<1> QED BY <1>4, <1>5

\* With nothing published, all is in order.
LEMMA OrderStarts == CloudflareInit => OrderInv
<1> SUFFICES ASSUME CloudflareInit PROVE OrderInv
  OBVIOUS
<1>1. /\ authority.cache = 0 /\ authority.stored = 0 /\ isolate.run = 1
      /\ \A p \in CfPublishes : /\ requests[p].at = "none" /\ requests[p].run = 0
                                /\ ~requests[p].direct /\ requests[p].number = "none"
      /\ hops = [h \in Hops |-> NoCalls] /\ ears = [s \in Subscribers |-> <<>>]
  BY DEF CloudflareInit
<1>2. NumbersHold
  BY <1>1 DEF NumbersHold
<1>3. TurnsHold
  BY <1>1 DEF TurnsHold, Uncalled, WaitsOrGoes, Entered
<1>4. HopsHold
  <2>1. \A h \in Hops : hops[h] = NoCalls
    BY <1>1
  <2>2. \A s \in Subscribers : ears[s] = <<>> /\ cf.owners[s] \in Hops
    BY <1>1 DEF Hops, Owners
  <2>3. hops \in [Hops -> LineStates] /\ ears \in [Subscribers -> Seq(CfPublishes)]
    <3>1. <<>> \in Seq(CfPublishes)
      OBVIOUS
    <3> QED BY <1>1, <3>1, NoCallsHold
  <2>4. "coordinator" \in Hops /\ Owners \subseteq Hops
    BY DEF Hops
  <2>5. SubscribersHearBySeq
    BY <2>2 DEF SubscribersHearBySeq
  <2> QED BY <2>1, <2>2, <2>3, <2>4, <2>5, NoCallsHold DEF HopsHold
<1> QED BY <1>2, <1>3, <1>4 DEF OrderInv

\* Each step keeps the order.
LEMMA OrderSteps == KeyInv /\ OrderInv /\ [CloudflareNext]_cloudflareVars => OrderInv'
<1> SUFFICES ASSUME KeyInv, OrderInv, [CloudflareNext]_cloudflareVars PROVE OrderInv'
  OBVIOUS
<1>1. CASE \/ UNCHANGED cloudflareVars
           \/ \E s \in Subscribers : AddSubscriber(s) \/ RemoveSubscriber(s)
           \/ \E w \in writes : WriteEnds(w)
           \/ Refresh
           \/ \E o \in Owners : Expires(o)
  BY <1>1, PresencesInOrder
<1>2. CASE AuthorityRestarts
  BY <1>2, RestartsInOrder
<1>3. CASE \E p \in CfPublishes : IsolatePublishes(p) \/ PublishElsewhere(p) \/ ListFails(p)
  BY <1>3, PublishesInOrder, ElsewhereInOrder, FailsInOrder
<1>4. CASE \E h \in Hops : StubBreaks(h)
  BY <1>4, LinesInOrder
<1>5. CASE PublishStep
  <2>1. CASE \E p \in CfPublishes : AuthorityStep(p)
    BY <2>1, ArrivesInOrder, NumbersInOrder, FansInOrder DEF AuthorityStep
  <2>2. CASE Flushes
    BY <2>2, FlushesInOrder
  <2>3. CASE CoordinatorTakes \/ CoordinatorAnswers
    BY <2>3, TakesInOrder, CoordinatorInOrder
  <2>4. CASE \E h \in Hops : HopStep(h)
    BY <2>4, RejectsInOrder, LinesInOrder, OwnersInOrder DEF HopStep
  <2> QED BY <1>5, <2>1, <2>2, <2>3, <2>4 DEF PublishStep
<1> QED BY <1>1, <1>2, <1>3, <1>4, <1>5 DEF CloudflareNext

\* For any subscribers, publishes and bounds: a subscriber hears a key's publishes by their seqs,
\* each once, whichever calls fail and however often the authority restarts; and the publishes of
\* one run, and those that waited, are numbered in the order they were made.
THEOREM PublishOrderKept == CloudflareSpec => []PublishOrderHolds
<1>1. KeyInv /\ OrderInv => PublishOrderHolds
  <2> SUFFICES ASSUME KeyInv, OrderInv PROVE PublishOrderHolds
    OBVIOUS
  <2>1. SubscribersHearBySeq
    BY DEF OrderInv, HopsHold
  <2>2. RunsKeepOrder
    <3>1. SUFFICES ASSUME NEW p \in CfPublishes, NEW q \in CfPublishes,
                          p < q, cf.publishes[p].own, cf.publishes[q].own,
                          ~requests[p].direct \/ requests[p].run = requests[q].run,
                          requests[p].number = "stored", requests[q].number = "stored"
                   PROVE  requests[p].seq < requests[q].seq
      BY DEF RunsKeepOrder
    <3>2. Ahead(p, q) /\ Entered(q)
      BY <3>1 DEF Ahead, Entered
    <3> QED BY <3>1, <3>2 DEF OrderInv, TurnsHold
  <2> QED BY <2>1, <2>2 DEF PublishOrderHolds
<1> QED BY <1>1, KeyStarts, KeySteps, OrderStarts, OrderSteps, PTL DEF CloudflareSpec
=============================================================================
