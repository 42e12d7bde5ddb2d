------------------------- MODULE GuestThreadsProofs -------------------------
(***************************************************************************)
(* For any threads and any plan: a stop is never slept through nor outrun, *)
(* and no thread outlives its process.  Inv is the inductive invariant.    *)
(* Each of its parts has a lemma of its own, with a step per action.       *)
(***************************************************************************)
EXTENDS GuestThreads, SequenceTheorems, TLAPS

----------------------------------------------------------------------------
(* The inductive invariant.                                                *)

Turning == {"look", "run", "spawning", "raising", "waits", "parked"}
Later == {"leaving", "closing", "ending", "awaiting", "reported"}
Pcs == Turning \cup Later
         \cup {"none", "admitted", "launched", "registered", "attaching", "named", "over",
               "gone", "published"}
Kinds == {"none", "end", "signal", "process", "kill"}
Boxes == All \cup {Process, Kill}

Guests ==
  [pc : Pcs, look : Nat \ {0}, at : {"poll", "callback", "complete", "waits"},
   call : {"instantiate", "start", "rewind"},
   result : {"none", "returns", "ends"} \cup {"ended", "signal", "process", "kill"},
   on : All \cup {NoCall, Host}, woken : BOOLEAN, unwound : BOOLEAN]
Jobs == [mark : Kinds, to : Seq(Boxes), stage : {"mark", "wake", "interrupt"}]

TypeOK ==
  /\ plan \in Plans
  /\ guest \in [All -> Guests]
  /\ stores \subseteq All /\ interrupt \subseteq All /\ named \subseteq All
  /\ ended \subseteq All /\ signalled \subseteq All
  /\ processSignal \in BOOLEAN /\ condemned \in BOOLEAN
  /\ table \in [open : BOOLEAN, threads : Seq(Threads), end : Threads \cup {NoEnd}]
  /\ exits \subseteq Threads /\ awaited \subseteq Threads
  /\ job \in [All \cup Outside -> Jobs] /\ raises \in Nat

\* What a job is, and who has one.
JobIs(a) ==
  /\ a \in All => (job[a].mark = "signal" /\ At(a, "raising"))
                    \/ (job[a].mark = "end" /\ At(a, "ending"))
  /\ a \in Outside => \/ job[a].mark = "process" /\ job[a].to = <<Process>>
                      \/ job[a].mark = "kill" /\ job[a].to = <<Kill>>
  /\ job[a].mark \in {"signal", "process"} => plan.raises > 0
  /\ job[a].mark = "kill" => plan.kill
  /\ job[a].mark \in {"signal", "end"} => job[a].to \in Seq(All)
JobsAre == \A a \in All \cup Outside : job[a].to # <<>> => JobIs(a)

\* Nothing is marked that a turn would leave out of its reads.
MarksPlanned ==
  /\ signalled # {} \/ processSignal => plan.raises > 0
  /\ condemned => plan.kill

\* A turn reads one of its marks.
InReads(g) == g.look \in 1 .. Len(Reads)
LooksInside == \A t \in All : InReads(guest[t])

\* A thread that is being spawned waits for its spawner.
SpawnsApart ==
  \A t \in All : At(t, "spawning") =>
    /\ guest[t].on \in Threads /\ At(guest[t].on, "admitted")
    /\ \A u \in All : At(u, "spawning") /\ guest[u].on = guest[t].on => u = t

\* A store is registered, and its mailbox has a target, while a call is driven.
StoresReached ==
  \A t \in All :
    /\ guest[t].pc \in Turning \cup {"registered", "attaching", "named", "over"} => t \in stores
    /\ guest[t].pc \in Turning \cup {"named", "over"} => t \in named

\* A guest that runs or is suspended has passed every mark, a turn that reads
\* those it has read and found unset.
Passed(g, mark) ==
  \/ g.pc \in Turning \ {"look"}
  \/ g.pc = "look" /\ \E k \in 1 .. g.look - 1 : Reads[k] = mark
Running(g) == g.pc \in {"run", "spawning", "raising"} \/ (g.pc = "look" /\ g.at = "poll")

\* A mark that was passed is behind a wake; if the guest runs, or is about to, it
\* is behind an interruption too.
WakesAreComing ==
  \A t \in All : \A mark \in Owed(t) :
    Passed(guest[t], mark) => guest[t].woken \/ UnderWay(t, mark, {"wake"})

InterruptsAreComing ==
  \A t \in All : \A mark \in Owed(t) :
    Passed(guest[t], mark) /\ Running(guest[t]) =>
      t \in interrupt \/ UnderWay(t, mark, {"wake", "interrupt"})

\* Main's mailbox carries an end only after a thread recorded one, which stays
\* until main takes it.
EndRecorded ==
  Main \in ended \/ (\E a \in Threads : job[a].to # <<>> /\ job[a].mark = "end") =>
    table.end \in Threads \/ guest[Main].pc \in Later

Alive(u) == guest[u].pc \notin {"none", "published"}

\* Every thread that has begun is in the table until main's end takes it over.
ThreadsKept ==
  /\ \A u \in exits : At(u, "published")
  /\ \A u \in Threads : Alive(u) => u \in ToSet(table.threads) \cup awaited
  /\ IF guest[Main].pc \in {"ending", "awaiting", "reported"}
     THEN ~table.open /\ table.threads = <<>>
     ELSE awaited = {}
  /\ At(Main, "reported") => awaited \subseteq exits
  /\ guest[Main].pc \in Turning \cup Later \cup {"over"}

Inv ==
  /\ TypeOK /\ LooksInside /\ JobsAre /\ MarksPlanned /\ SpawnsApart /\ StoresReached
  /\ WakesAreComing /\ InterruptsAreComing /\ EndRecorded /\ ThreadsKept

----------------------------------------------------------------------------
(* Lemmas on sequences and on what a turn reads.                           *)

\* Taking a thread out of the table leaves the others in.
LEMMA WithoutKeeps ==
  ASSUME NEW s \in Seq(Threads), NEW t
  PROVE  /\ Without(s, t) \in Seq(Threads)
         /\ ToSet(s) \ {t} \subseteq ToSet(Without(s, t))
         /\ s = <<>> => Without(s, t) = <<>>
<1>1. CASE t \notin ToSet(s)
  BY <1>1 DEF Without
<1>2. CASE t \in ToSet(s)
  <2> DEFINE i == CHOOSE j \in DOMAIN s : s[j] = t
             p == SubSeq(s, 1, i - 1)
             q == SubSeq(s, i + 1, Len(s))
  <2>1. i \in 1 .. Len(s) /\ s[i] = t
    BY <1>2 DEF ToSet
  <2>2. Without(s, t) = p \o q
    BY <1>2 DEF Without, RemoveAt
  <2> HIDE DEF i
  <2>3. /\ p \in Seq(Threads) /\ Len(p) = i - 1
        /\ \A j \in 1 .. i - 1 : p[j] = s[j]
    <3>1. \A j \in 1 .. i - 1 : s[j] \in Threads
      BY <2>1
    <3>2. i - 1 \in Int /\ 1 \in Int /\ i - 1 >= 0
      BY <2>1
    <3>3. /\ p \in Seq(Threads) /\ Len(p) = IF 1 <= i - 1 THEN i - 1 - 1 + 1 ELSE 0
          /\ \A j \in 1 .. i - 1 - 1 + 1 : p[j] = s[1 + j - 1]
      BY <3>1, <3>2, SubSeqProperties
    <3> QED BY <2>1, <3>2, <3>3
  <2>4. /\ q \in Seq(Threads) /\ Len(q) = Len(s) - i
        /\ \A j \in 1 .. Len(s) - i : q[j] = s[i + j]
    <3>1. \A j \in i + 1 .. Len(s) : s[j] \in Threads
      BY <2>1
    <3>2. i + 1 \in Int /\ Len(s) \in Int /\ Len(s) - i >= 0
      BY <2>1
    <3>3. /\ q \in Seq(Threads) /\ Len(q) = IF i + 1 <= Len(s) THEN Len(s) - (i + 1) + 1 ELSE 0
          /\ \A j \in 1 .. Len(s) - (i + 1) + 1 : q[j] = s[(i + 1) + j - 1]
      BY <3>1, <3>2, SubSeqProperties
    <3> QED BY <2>1, <3>2, <3>3
  <2> HIDE DEF p, q
  <2>6. /\ p \o q \in Seq(Threads) /\ Len(p \o q) = Len(s) - 1
        /\ \A j \in 1 .. Len(s) - 1 : (p \o q)[j] = IF j <= i - 1 THEN p[j] ELSE q[j - (i - 1)]
    <3>1. /\ p \o q \in Seq(Threads) /\ Len(p \o q) = Len(p) + Len(q)
          /\ \A j \in 1 .. Len(p) + Len(q) :
               (p \o q)[j] = IF j <= Len(p) THEN p[j] ELSE q[j - Len(p)]
      BY <2>3, <2>4, ConcatProperties
    <3>2. Len(p) + Len(q) = Len(s) - 1 /\ Len(p) = i - 1
      BY <2>1, <2>3, <2>4
    <3> QED BY <3>1, <3>2
  <2>7. ASSUME NEW j \in 1 .. Len(s), s[j] # t
        PROVE  s[j] \in ToSet(p \o q)
    <3>1. CASE j < i
      <4>1. j \in 1 .. Len(s) - 1 /\ (p \o q)[j] = s[j]
        BY <2>1, <2>3, <2>6, <3>1
      <4> QED BY <4>1, <2>6 DEF ToSet
    <3>2. CASE j > i
      <4> DEFINE k == j - i
      <4>1. /\ j - 1 \in 1 .. Len(s) - 1 /\ ~(j - 1 <= i - 1) /\ k \in 1 .. Len(s) - i
            /\ j - 1 - (i - 1) = k /\ i + k = j
        BY <2>1, <3>2
      <4> HIDE DEF k
      <4>2. (p \o q)[j - 1] = q[k]
        BY <2>6, <4>1
      <4>3. q[k] = s[j]
        <5>1. q[k] = s[i + k] BY <2>4, <4>1
        <5> QED BY <4>1, <5>1
      <4>4. j - 1 \in DOMAIN (p \o q) /\ (p \o q)[j - 1] = s[j]
        <5>1. (p \o q)[j - 1] = s[j] BY <4>2, <4>3
        <5> QED BY <5>1, <4>1, <2>6
      <4> QED BY <4>4 DEF ToSet
    <3> QED BY <3>1, <3>2, <2>1, <2>7
  <2>5. s # <<>>
    BY <2>1
  <2>8. ToSet(s) \ {t} \subseteq ToSet(p \o q)
    BY <2>7 DEF ToSet
  <2>9. /\ Without(s, t) \in Seq(Threads)
        /\ ToSet(s) \ {t} \subseteq ToSet(Without(s, t))
    BY <2>2, <2>6, <2>8, Zenon
  <2> QED BY <2>5, <2>9
<1> QED BY <1>1, <1>2

\* What is marked is among the marks a turn reads.
LEMMA ReadsCover ==
  ASSUME TypeOK, MarksPlanned, NEW t \in All, NEW mark \in Owed(t)
  PROVE  \E k \in 1 .. Len(Reads) : Reads[k] = mark
<1>1. plan.raises \in Nat /\ plan.kill \in BOOLEAN
  BY ThreadsAssumption DEF TypeOK
<1>2. mark \in {"ended", "signal", "process", "kill"}
  BY DEF Owed, ToSet, Marks
<1>3. /\ mark \in {"signal", "process"} => plan.raises > 0
      /\ mark = "kill" => plan.kill
  BY DEF Owed, Marked, MarksPlanned
<1>4. CASE plan.raises > 0 /\ plan.kill
  <2>1. Reads = Marks BY <1>4 DEF Reads
  <2> QED BY <1>2, <2>1 DEF Marks
<1>5. CASE plan.raises > 0 /\ ~plan.kill
  <2>1. Reads = <<"ended", "signal", "process">> BY <1>5 DEF Reads
  <2> QED BY <1>2, <1>3, <1>5, <2>1
<1>6. CASE ~(plan.raises > 0) /\ plan.kill
  <2>1. Reads = <<"ended", "kill">> BY <1>6 DEF Reads
  <2> QED BY <1>2, <1>3, <1>6, <2>1
<1>7. CASE ~(plan.raises > 0) /\ ~plan.kill
  <2>1. Reads = <<"ended">> BY <1>7 DEF Reads
  <2> QED BY <1>2, <1>3, <1>7, <2>1
<1> QED BY <1>1, <1>4, <1>5, <1>6, <1>7

\* The reads of a turn are marks.
LEMMA ReadsAreMarks ==
  ASSUME TypeOK
  PROVE  /\ Len(Reads) \in Nat \ {0}
         /\ \A k \in 1 .. Len(Reads) : Reads[k] \in {"ended", "signal", "process", "kill"}
<1>1. plan.raises \in Nat /\ plan.kill \in BOOLEAN
  BY ThreadsAssumption DEF TypeOK
<1>4. CASE plan.raises > 0 /\ plan.kill
  <2>1. Reads = Marks BY <1>4 DEF Reads
  <2> QED BY <2>1 DEF Marks
<1>5. CASE plan.raises > 0 /\ ~plan.kill
  <2>1. Reads = <<"ended", "signal", "process">> BY <1>5 DEF Reads
  <2> QED BY <2>1
<1>6. CASE ~(plan.raises > 0) /\ plan.kill
  <2>1. Reads = <<"ended", "kill">> BY <1>6 DEF Reads
  <2> QED BY <2>1
<1>7. CASE ~(plan.raises > 0) /\ ~plan.kill
  <2>1. Reads = <<"ended">> BY <1>7 DEF Reads
  <2> QED BY <2>1
<1> QED BY <1>1, <1>4, <1>5, <1>6, <1>7

LEMMA FirstRead == ASSUME TypeOK, NEW g, g.look = 1 PROVE InReads(g)
<1>1. Len(Reads) \in Nat \ {0} BY ReadsAreMarks
<1> QED BY <1>1 DEF InReads
----------------------------------------------------------------------------
(* Facts about the constants, and the initial state.                       *)

LEMMA Names ==
  /\ Main \in All /\ Main \notin Threads /\ Threads \subseteq All
  /\ \A p \in Plans : p.threads \in Seq(Threads) /\ p.raises \in Nat /\ p.kill \in BOOLEAN
  /\ \A t \in All : t \notin Outside /\ t \notin {Process, Kill, NoCall, Host}
BY ThreadsAssumption DEF All, Outside

LEMMA DrivingIsGuest ==
  \A call \in {"instantiate", "start", "rewind"} : Driving(call) \in Guests
BY DEF Driving, Guests, Pcs, Turning, Later

LEMMA GuestGoes == \A g \in Guests, p \in Pcs : [g EXCEPT !.pc = p] \in Guests
BY DEF Guests

LEMMA InitInv == Init => Inv
<1> SUFFICES ASSUME Init PROVE Inv
  OBVIOUS
<1> USE Names
<1>1. \A t \in All : guest[t] \in Guests
  <2>1. NotYet \in Guests
    BY DrivingIsGuest, GuestGoes DEF NotYet, Pcs
  <2> QED BY <2>1, DrivingIsGuest DEF Init
<1>2. \A a \in All \cup Outside : job[a] = NoJob
  BY DEF Init
<1>3. NoJob \in Jobs /\ NoJob.to = <<>>
  BY DEF NoJob, Bring, Jobs, Kinds
<1>4. TypeOK
  <2>1. guest \in [All -> Guests] /\ job \in [All \cup Outside -> Jobs]
    BY <1>1, <1>2, <1>3 DEF Init
  <2>2. table \in [open : BOOLEAN, threads : Seq(Threads), end : Threads \cup {NoEnd}]
    BY DEF Init
  <2> QED BY <2>1, <2>2 DEF Init, TypeOK
<1>5. JobsAre /\ MarksPlanned
  BY <1>2, <1>3 DEF Init, JobsAre, MarksPlanned
<1>6. \A t \in All : guest[t].pc \in {"look", "none"} /\ guest[t].look = 1
  BY DEF Init, Driving, NotYet
<1>12. LooksInside
  BY <1>4, <1>6, FirstRead DEF LooksInside
<1>7. \A t \in All : guest[t].pc = "look" => t = Main
  BY DEF Init, Driving, NotYet
<1>8. SpawnsApart /\ StoresReached
  BY <1>6, <1>7 DEF Init, SpawnsApart, StoresReached, At, Turning
<1>9. WakesAreComing /\ InterruptsAreComing
  BY <1>6 DEF WakesAreComing, InterruptsAreComing, Passed, Running, Turning
<1>10. EndRecorded
  BY <1>2, <1>3, Names DEF Init, EndRecorded
<1>11. ThreadsKept
  BY DEF Init, ThreadsKept, Alive, At, Driving, NotYet, All, Turning
<1> QED BY <1>4, <1>5, <1>8, <1>9, <1>10, <1>11, <1>12 DEF Inv
----------------------------------------------------------------------------
(* The steps of a turn.                                                    *)

Here == {"look", "run", "waits", "parked", "over"}

\* A step of a turn, that may take a signal and meet or ask for an
\* interruption, and whose join takes a thread out of the table, keeps the
\* invariant if it keeps what its own guest is owed.
LEMMA TurnKeeps ==
  ASSUME Inv, NEW t \in All, NEW g \in Guests,
         guest' = [guest EXCEPT ![t] = g],
         guest[t].pc \in Here, g.pc \in Here \cup {"leaving"}, InReads(g),
         UNCHANGED <<plan, stores, ended, condemned, named, exits, job, raises, awaited>>,
         interrupt' \in SUBSET All, interrupt \ {t} \subseteq interrupt',
         signalled' \subseteq signalled, processSignal' \in BOOLEAN,
         processSignal' => processSignal,
         table' \in [open : BOOLEAN, threads : Seq(Threads), end : Threads \cup {NoEnd}],
         table'.open = table.open, table'.end = table.end,
         ToSet(table.threads) \ exits \subseteq ToSet(table'.threads),
         table.threads = <<>> => table'.threads = <<>>,
         \A mark \in Owed(t)' : Passed(g, mark) => g.woken \/ UnderWay(t, mark, {"wake"}),
         \A mark \in Owed(t)' : Passed(g, mark) /\ Running(g) =>
           t \in interrupt' \/ UnderWay(t, mark, {"wake", "interrupt"})
  PROVE  Inv'
<1> USE Names DEF Here
<1>0. TypeOK /\ guest \in [All -> Guests]
  BY DEF Inv, TypeOK
<1>a. guest'[t] = g /\ \A u \in All : u # t => guest'[u] = guest[u]
  BY <1>0
<1>1. TypeOK'
  BY <1>0 DEF TypeOK
<1>11. LooksInside'
  BY <1>a DEF Inv, LooksInside, InReads, Reads
<1>2. JobsAre'
  <2>1. ASSUME NEW a \in All \cup Outside, job[a].to # <<>>
        PROVE  JobIs(a)'
    <3>1. JobIs(a) BY <2>1 DEF Inv, JobsAre
    <3> QED BY <1>a, <3>1 DEF JobIs, At
  <2> QED BY <2>1 DEF JobsAre
<1>3. MarksPlanned'
  BY DEF Inv, MarksPlanned
<1>4. SpawnsApart'
  BY <1>a DEF Inv, SpawnsApart, At
<1>5. StoresReached'
  BY <1>a DEF Inv, StoresReached, Turning
<1>6. \A u \in All : Owed(u)' \subseteq Owed(u)
  BY DEF Owed, Marked
<1>b. \A u \in All : \A mark, stages : UnderWay(u, mark, stages)' = UnderWay(u, mark, stages)
  BY DEF UnderWay
<1>c. \A h, mark : Passed(h, mark)' = Passed(h, mark)
  BY DEF Passed, Reads
<1>7. WakesAreComing'
  BY <1>a, <1>6, <1>b, <1>c DEF Inv, WakesAreComing
<1>8. InterruptsAreComing'
  BY <1>a, <1>6, <1>b, <1>c DEF Inv, InterruptsAreComing, Running
<1>9. EndRecorded'
  BY <1>a DEF Inv, EndRecorded, Later
<1>10. ThreadsKept'
  <2>1. ThreadsKept BY DEF Inv
  <2>2. \A u \in exits : At(u, "published")'
    BY <1>a, <2>1 DEF ThreadsKept, At, TypeOK
  <2>3. ASSUME NEW u \in Threads, Alive(u)'
        PROVE  u \in ToSet(table'.threads) \cup awaited'
    <3>1. Alive(u) BY <1>a, <2>3 DEF Alive
    <3>2. u \notin exits BY <3>1, <2>1 DEF ThreadsKept, Alive, At
    <3> QED BY <3>1, <3>2, <2>1 DEF ThreadsKept
  <2>4. /\ guest[Main].pc \in {"ending", "awaiting", "reported"}
             <=> guest'[Main].pc \in {"ending", "awaiting", "reported"}
        /\ guest'[Main].pc = "reported" => guest[Main].pc = "reported"
        /\ guest'[Main].pc \in Turning \cup Later \cup {"over"}
    BY <1>a, <2>1 DEF ThreadsKept, Turning, Later
  <2> QED BY <1>a, <2>1, <2>2, <2>3, <2>4 DEF ThreadsKept, At
<1> QED BY <1>1, <1>2, <1>3, <1>4, <1>5, <1>7, <1>8, <1>9, <1>10, <1>11 DEF Inv

\* A read that finds nothing leaves its mark passed.
LEMMA LastLookPasses ==
  ASSUME Inv, NEW t \in All, LastLookFindsNothing(t), NEW mark \in Owed(t)
  PROVE  Passed(guest[t], mark)
<1>1. TypeOK /\ MarksPlanned BY DEF Inv
<1>2. PICK k \in 1 .. Len(Reads) : Reads[k] = mark
  BY <1>1, ReadsCover
<1>3. guest[t].look = Len(Reads) /\ ~Marked(t, Reads[guest[t].look]) /\ guest[t].pc = "look"
  BY DEF LastLookFindsNothing, At
<1>4. Marked(t, mark) BY DEF Owed
<1>5. k # Len(Reads) BY <1>2, <1>3, <1>4
<1>6. Len(Reads) \in Nat BY <1>1, ReadsAreMarks
<1>7. k \in 1 .. guest[t].look - 1 BY <1>3, <1>5, <1>6
<1> QED BY <1>2, <1>3, <1>7 DEF Passed

\* The reads begin again: nothing is passed.
LEMMA LooksPassNothing ==
  ASSUME NEW g, g.pc = "look", g.look = 1, NEW mark
  PROVE  ~Passed(g, mark)
BY DEF Passed, Turning

\* What a step that leaves everything but a guest alone leaves alone.
LEMMA TurnMoves ==
  ASSUME Inv, NEW t \in All, NEW g \in Guests,
         guest' = [guest EXCEPT ![t] = g],
         guest[t].pc \in Here, g.pc \in Here \cup {"leaving"}, InReads(g),
         UNCHANGED <<plan, stores, interrupt, markVars, named, tableVars, raiseVars, awaited>>,
         \A mark \in Owed(t) : Passed(g, mark) => g.woken \/ UnderWay(t, mark, {"wake"}),
         \A mark \in Owed(t) : Passed(g, mark) /\ Running(g) =>
           t \in interrupt \/ UnderWay(t, mark, {"wake", "interrupt"})
  PROVE  Inv'
<1>1. TypeOK BY DEF Inv
<1>2. Owed(t)' = Owed(t)
  BY DEF Owed, Marked, markVars
<1> QED
  BY <1>1, <1>2, TurnKeeps DEF TypeOK, markVars, tableVars, raiseVars

LEMMA FindsNothingKeeps ==
  ASSUME Inv, NEW t \in All, FindsNothing(t)
  PROVE  Inv'
<1> DEFINE g == [guest[t] EXCEPT !.look = @ + 1]
<1>0. guest \in [All -> Guests] /\ TypeOK BY DEF Inv, TypeOK
<1>1. guest' = [guest EXCEPT ![t] = g]
  BY <1>0 DEF FindsNothing
<1>2. g \in Guests BY <1>0 DEF Guests
<1>3. g.pc = "look" /\ guest[t].pc = "look" /\ g.woken = guest[t].woken /\ g.at = guest[t].at
      /\ g.look = guest[t].look + 1 /\ guest[t].look \in Nat \ {0}
  BY <1>0 DEF Guests, FindsNothing, At
<1> HIDE DEF g
<1>4. ASSUME NEW mark \in Owed(t), Passed(g, mark)
      PROVE  Passed(guest[t], mark)
  <2>1. PICK k \in 1 .. g.look - 1 : Reads[k] = mark
    BY <1>3, <1>4 DEF Passed, Turning
  <2>2. k # guest[t].look
    BY <2>1 DEF FindsNothing, Owed
  <2>3. k \in 1 .. guest[t].look - 1 BY <1>3, <2>1, <2>2
  <2> QED BY <1>3, <2>1, <2>3 DEF Passed
<1>5. \A mark \in Owed(t) : Passed(g, mark) => g.woken \/ UnderWay(t, mark, {"wake"})
  BY <1>3, <1>4 DEF Inv, WakesAreComing
<1>6. \A mark \in Owed(t) : Passed(g, mark) /\ Running(g) =>
        t \in interrupt \/ UnderWay(t, mark, {"wake", "interrupt"})
  BY <1>3, <1>4 DEF Inv, InterruptsAreComing, Running
<1>7. InReads(g)
  <2>1. Len(Reads) \in Nat BY <1>0, ReadsAreMarks
  <2> QED BY <1>3, <2>1 DEF FindsNothing, InReads
<1> QED BY <1>1, <1>2, <1>3, <1>5, <1>6, <1>7, TurnMoves DEF FindsNothing, Here

\* What the guest is once its reads begin or end.
Moved(g, p, a) == [g EXCEPT !.pc = p, !.look = 1, !.at = a]
LEMMA PlaceChanges ==
  ASSUME NEW g \in Guests, NEW p \in Pcs, NEW a \in {"poll", "callback", "complete", "waits"}
  PROVE  /\ Moved(g, p, a) \in Guests /\ Moved(g, p, a).pc = p /\ Moved(g, p, a).look = 1
         /\ Moved(g, p, a).at = a /\ Moved(g, p, a).woken = g.woken
<1> DEFINE h == Moved(g, p, a)
           g1 == [g EXCEPT !.pc = p]
           g2 == [g1 EXCEPT !.look = 1]
<1>1. g1 \in Guests BY DEF Guests
<1>4. h = [g2 EXCEPT !.at = a] BY DEF Guests, Moved
<1>5. h.pc = p /\ h.look = 1 /\ h.at = a /\ h.woken = g.woken BY DEF Guests, Moved
<1> HIDE DEF g1
<1>2. g2 \in Guests BY <1>1 DEF Guests
<1> HIDE DEF g2
<1>3. [g2 EXCEPT !.at = a] \in Guests BY <1>2 DEF Guests
<1> QED BY <1>3, <1>4, <1>5

LEMMA LeavesIs ==
  ASSUME TypeOK, NEW t \in All, NEW p \in Pcs
  PROVE  /\ Leaves(t, p) \in Guests /\ Leaves(t, p).pc = p /\ Leaves(t, p).look = 1
         /\ Leaves(t, p).woken = guest[t].woken
<1>1. guest[t] \in Guests BY DEF TypeOK
<1>2. Leaves(t, p) = Moved(guest[t], p, "poll") BY DEF Leaves, Moved
<1> DEFINE g == guest[t]
<1> HIDE DEF g
<1>3. g \in Guests BY <1>1 DEF g
<1>4. Moved(g, p, "poll") \in Guests BY <1>3, PlaceChanges
<1>5. Moved(g, p, "poll").pc = p BY <1>3, PlaceChanges
<1>6. Moved(g, p, "poll").woken = g.woken BY <1>3, PlaceChanges
<1>7. Moved(g, p, "poll").look = 1 BY <1>3, PlaceChanges
<1> QED BY <1>2, <1>4, <1>5, <1>6, <1>7 DEF g

LEMMA LooksIs ==
  ASSUME TypeOK, NEW t \in All, NEW p \in {"poll", "callback", "complete", "waits"}
  PROVE  /\ Looks(t, p) \in Guests /\ Looks(t, p).pc = "look" /\ Looks(t, p).look = 1
         /\ Looks(t, p).at = p /\ Looks(t, p).woken = guest[t].woken
<1>1. guest[t] \in Guests /\ "look" \in Pcs BY DEF TypeOK, Pcs, Turning
<1>2. Looks(t, p) = Moved(guest[t], "look", p) BY DEF Looks, Moved
<1> DEFINE g == guest[t]
<1> HIDE DEF g
<1>3. g \in Guests BY <1>1 DEF g
<1>4. Moved(g, "look", p) \in Guests BY <1>1, <1>3, PlaceChanges
<1>5. Moved(g, "look", p).pc = "look" BY <1>1, <1>3, PlaceChanges
<1>6. Moved(g, "look", p).look = 1 BY <1>1, <1>3, PlaceChanges
<1>7. Moved(g, "look", p).at = p BY <1>1, <1>3, PlaceChanges
<1>8. Moved(g, "look", p).woken = g.woken BY <1>3 DEF Moved, Guests
<1> QED BY <1>2, <1>4, <1>5, <1>6, <1>7, <1>8 DEF g

\* A change of the other fields keeps a guest a guest, and where it is.
Kept(g, h) ==
  h \in Guests /\ h.pc = g.pc /\ h.look = g.look /\ h.at = g.at /\ h.woken = g.woken
LEMMA OnKeeps ==
  ASSUME NEW g \in Guests, NEW o \in All \cup {NoCall, Host}
  PROVE  Kept(g, [g EXCEPT !.on = o])
BY DEF Guests, Kept

LEMMA ResultKeeps ==
  ASSUME NEW g \in Guests,
         NEW r \in {"none", "returns", "ends", "ended", "signal", "process", "kill"}
  PROVE  /\ Kept(g, [g EXCEPT !.result = r])
         /\ Kept(g, [g EXCEPT !.result = r, !.unwound = TRUE])
BY DEF Guests, Kept

\* A turn that has read every mark and goes to where a suspended guest is.
LEMMA SuspendedKeeps ==
  ASSUME Inv, NEW t \in All, StaysSuspended(t) \/ Yields(t)
  PROVE  Inv'
<1>0. guest \in [All -> Guests] /\ TypeOK BY DEF Inv, TypeOK
<1>1. PICK g \in Guests : guest' = [guest EXCEPT ![t] = g] /\ g.pc = "waits"
                          /\ g.woken = guest[t].woken /\ g.look = 1
  <2> DEFINE l == Leaves(t, "waits")
  <2>0. l \in Guests /\ l.pc = "waits" /\ l.woken = guest[t].woken /\ l.look = 1
    BY <1>0, LeavesIs DEF Pcs, Turning
  <2> HIDE DEF l
  <2>1. CASE StaysSuspended(t)
    <3>1. guest' = [guest EXCEPT ![t] = l] BY <2>1 DEF StaysSuspended, l
    <3> QED BY <2>0, <3>1
  <2>2. CASE Yields(t)
    <3>1. guest' = [guest EXCEPT ![t] = [l EXCEPT !.on = Host]] BY <2>2 DEF Yields, l
    <3>2. Kept(l, [l EXCEPT !.on = Host]) BY <2>0, OnKeeps
    <3> QED BY <2>0, <3>1, <3>2 DEF Kept
  <2> QED BY <2>1, <2>2
<1>2. LastLookFindsNothing(t) /\ guest[t].pc = "look"
  BY DEF StaysSuspended, Yields, LastLookFindsNothing, At
<1>3. \A mark \in Owed(t) : guest[t].woken \/ UnderWay(t, mark, {"wake"})
  BY <1>2, LastLookPasses DEF Inv, WakesAreComing
<1>4. ~Running(g) /\ InReads(g) BY <1>0, <1>1, FirstRead DEF Running
<1> QED
  BY <1>1, <1>2, <1>3, <1>4, TurnMoves DEF StaysSuspended, Yields, Here

LEMMA ResumesKeeps ==
  ASSUME Inv, NEW t \in All, Resumes(t)
  PROVE  Inv'
<1> DEFINE l == Leaves(t, "run")
           g == [l EXCEPT !.on = NoCall]
<1>0. guest \in [All -> Guests] /\ TypeOK BY DEF Inv, TypeOK
<1>a. l \in Guests /\ l.pc = "run" /\ l.woken = guest[t].woken /\ l.look = 1
  BY <1>0, LeavesIs DEF Pcs, Turning
<1>b. guest' = [guest EXCEPT ![t] = g] BY DEF Resumes
<1> HIDE DEF l
<1>1. guest' = [guest EXCEPT ![t] = g] /\ g \in Guests /\ g.pc = "run" /\ g.woken = guest[t].woken
      /\ g.look = 1
  BY <1>a, <1>b, OnKeeps DEF Kept
<1> HIDE DEF g
<1>c. InReads(g) BY <1>0, <1>1, FirstRead
<1>2. LastLookFindsNothing(t) /\ guest[t].pc = "look" /\ guest[t].at = "poll"
  BY DEF Resumes, LastLookFindsNothing, At
<1>3. \A mark \in Owed(t) : /\ guest[t].woken \/ UnderWay(t, mark, {"wake"})
                            /\ t \in interrupt \/ UnderWay(t, mark, {"wake", "interrupt"})
  BY <1>2, LastLookPasses DEF Inv, WakesAreComing, InterruptsAreComing, Running
<1>4. Owed(t)' = Owed(t)
  BY DEF Resumes, Owed, Marked, markVars
<1> DEFINE on == guest[t].on
<1>5. /\ table.threads \in Seq(Threads)
      /\ table'.threads = Without(table.threads, on)
      /\ table'.open = table.open /\ table'.end = table.end
      /\ table' = [table EXCEPT !.threads = Without(table.threads, on)]
  BY <1>0 DEF Resumes, TypeOK
<1>6. on \in exits \/ on \notin ToSet(table.threads)
  BY <1>0, Names DEF Resumes, TypeOK, ToSet
<1> HIDE DEF on
<1>7. /\ Without(table.threads, on) \in Seq(Threads)
      /\ ToSet(table.threads) \ {on} \subseteq ToSet(Without(table.threads, on))
      /\ table.threads = <<>> => Without(table.threads, on) = <<>>
  BY <1>5, WithoutKeeps
<1>8. table' \in [open : BOOLEAN, threads : Seq(Threads), end : Threads \cup {NoEnd}]
  BY <1>0, <1>5, <1>7 DEF TypeOK
<1>9. ToSet(table.threads) \ exits \subseteq ToSet(table'.threads)
  BY <1>5, <1>6, <1>7
<1> QED
  BY <1>0, <1>1, <1>c, <1>2, <1>3, <1>4, <1>5, <1>7, <1>8, <1>9, TurnKeeps
  DEF Resumes, Here, TypeOK, markVars, raiseVars
\* A turn whose reads begin again, whatever it was at, passes nothing.
LEMMA LookingKeeps ==
  ASSUME Inv, NEW t \in All, NEW g \in Guests,
         guest' = [guest EXCEPT ![t] = g], guest[t].pc \in Here,
         g.pc = "look", g.look = 1,
         UNCHANGED <<plan, stores, interrupt, markVars, named, tableVars, raiseVars, awaited>>
  PROVE  Inv'
<1>1. \A mark : ~Passed(g, mark) BY LooksPassNothing
<1>2. g.pc \in Here \cup {"leaving"} BY DEF Here
<1>3. InReads(g) BY FirstRead DEF Inv
<1> QED BY <1>1, <1>2, <1>3, TurnMoves

\* A guest whose call is over has passed nothing it could sleep through.
LEMMA OverKeeps ==
  ASSUME Inv, NEW t \in All, NEW g \in Guests,
         guest' = [guest EXCEPT ![t] = g], guest[t].pc \in Here,
         g.pc \in {"over", "leaving"}, InReads(g),
         UNCHANGED <<plan, stores, interrupt, markVars, named, tableVars, raiseVars, awaited>>
  PROVE  Inv'
<1>1. \A mark : ~Passed(g, mark) BY DEF Passed, Turning
<1>2. g.pc \in Here \cup {"leaving"} BY DEF Here
<1> QED BY <1>1, <1>2, TurnMoves

LEMMA CompletesKeeps ==
  ASSUME Inv, NEW t \in All, Completes(t)
  PROVE  Inv'
<1> DEFINE g == Leaves(t, "over")
<1>0. TypeOK /\ guest[t].pc \in Here
  BY DEF Inv, Completes, LastLookFindsNothing, At, Here
<1>1. g \in Guests /\ g.pc = "over" /\ g.look = 1 BY <1>0, LeavesIs DEF Pcs
<1>2. guest' = [guest EXCEPT ![t] = g] BY DEF Completes
<1> HIDE DEF g
<1>3. InReads(g) BY <1>0, <1>1, FirstRead
<1> QED BY <1>0, <1>1, <1>2, <1>3, OverKeeps DEF Completes

LEMMA PollWaitsKeeps ==
  ASSUME Inv, NEW t \in All, PollWaits(t)
  PROVE  Inv'
<1>0. TypeOK /\ guest[t] \in Guests /\ guest[t].pc = "waits"
  BY DEF Inv, TypeOK, PollWaits, At
<1>1. CASE guest[t].woken
  <2> DEFINE l == Looks(t, "waits")
             g == [l EXCEPT !.woken = FALSE]
  <2>1. l \in Guests /\ l.pc = "look" /\ l.look = 1 BY <1>0, LooksIs
  <2>2. guest' = [guest EXCEPT ![t] = g]
    BY <1>0, <1>1 DEF PollWaits, Inv, TypeOK
  <2> HIDE DEF l
  <2>3. g \in Guests /\ g.pc = "look" /\ g.look = 1 BY <2>1 DEF Guests
  <2> HIDE DEF g
  <2> QED BY <1>0, <2>2, <2>3, LookingKeeps DEF PollWaits, Here
<1>2. CASE ~guest[t].woken
  <2> DEFINE g == [guest[t] EXCEPT !.pc = "parked"]
  <2>1. guest' = [guest EXCEPT ![t] = g]
    BY <1>0, <1>2 DEF PollWaits, Inv, TypeOK
  <2>2. g \in Guests /\ g.pc = "parked" /\ g.woken = guest[t].woken /\ g.look = guest[t].look
    BY <1>0 DEF Guests, Pcs, Turning
  <2>3. \A mark \in Owed(t) : guest[t].woken \/ UnderWay(t, mark, {"wake"})
    BY <1>0 DEF Inv, WakesAreComing, Passed, Turning
  <2>4. ~Running(g) BY <2>2 DEF Running
  <2> HIDE DEF g
  <2>5. InReads(g) BY <2>2 DEF Inv, LooksInside, InReads
  <2> QED BY <1>0, <2>1, <2>2, <2>3, <2>4, <2>5, TurnMoves DEF PollWaits, Here
<1> QED BY <1>1, <1>2

LEMMA NextCallKeeps ==
  ASSUME Inv, NEW t \in All, NextCall(t)
  PROVE  Inv'
<1> DEFINE g == Driving(IF guest[t].call = "start" THEN "rewind" ELSE "start")
<1>0. guest[t].pc \in Here BY DEF NextCall, At, Here
<1>1. g \in Guests BY DrivingIsGuest
<1>2. g.pc = "look" /\ g.look = 1 BY DEF Driving
<1>3. guest' = [guest EXCEPT ![t] = g] BY DEF NextCall
<1> HIDE DEF g
<1> QED BY <1>0, <1>1, <1>2, <1>3, LookingKeeps DEF NextCall

LEMMA WakeKeeps ==
  ASSUME Inv, NEW t \in All, Wake(t)
  PROVE  Inv'
<1> DEFINE g == Looks(t, "poll")
<1>0. TypeOK /\ guest[t].pc \in Here BY DEF Inv, Wake, At, Here
<1>1. g \in Guests /\ g.pc = "look" /\ g.look = 1 BY <1>0, LooksIs
<1>2. guest' = [guest EXCEPT ![t] = g] BY DEF Wake
<1> HIDE DEF g
<1> QED BY <1>0, <1>1, <1>2, LookingKeeps DEF Wake
LEMMA SuspendKeeps ==
  ASSUME Inv, NEW t \in All, Suspend(t)
  PROVE  Inv'
<1>0. TypeOK /\ guest[t] \in Guests /\ guest[t].pc = "run"
  BY DEF Inv, TypeOK, Suspend, At
<1>1. PICK on \in {h \in {Host} : plan.parks} \cup {u \in Threads \ {t} : u \in ToSet(table.threads)} :
        guest' = [guest EXCEPT ![t] = [@ EXCEPT !.pc = "waits", !.on = on]]
  BY DEF Suspend
<1> DEFINE g1 == [guest[t] EXCEPT !.pc = "waits"]
           g == [g1 EXCEPT !.on = on]
<1>2. guest' = [guest EXCEPT ![t] = g]
  BY <1>0, <1>1 DEF Inv, TypeOK, Guests
<1>3. g1 \in Guests /\ g1.pc = "waits" /\ g1.woken = guest[t].woken /\ g1.look = guest[t].look
  BY <1>0 DEF Guests, Pcs, Turning
<1> HIDE DEF g1
<1>4. Kept(g1, g) BY <1>1, <1>3, OnKeeps, Names
<1> HIDE DEF g
<1>5. \A mark \in Owed(t) : guest[t].woken \/ UnderWay(t, mark, {"wake"})
  BY <1>0 DEF Inv, WakesAreComing, Passed, Turning
<1>6. ~Running(g) /\ g.woken = guest[t].woken /\ g \in Guests /\ g.pc = "waits"
  BY <1>3, <1>4 DEF Running, Kept
<1>7. InReads(g) BY <1>3, <1>4 DEF Inv, LooksInside, InReads, Kept
<1> QED BY <1>0, <1>2, <1>5, <1>6, <1>7, TurnMoves DEF Suspend, Here

LEMMA ReturnKeeps ==
  ASSUME Inv, NEW t \in All, Return(t)
  PROVE  Inv'
<1>0. TypeOK /\ guest[t].pc \in Here BY DEF Inv, Return, At, Here
<1> DEFINE l == Looks(t, "complete")
<1>1. l \in Guests /\ l.pc = "look" /\ l.look = 1 BY <1>0, LooksIs
<1>2. PICK r \in {"returns", "ends"} : guest' = [guest EXCEPT ![t] = [l EXCEPT !.result = r]]
  BY DEF Return
<1> HIDE DEF l
<1> DEFINE g == [l EXCEPT !.result = r]
<1>3. Kept(l, g) BY <1>1, ResultKeeps
<1>4. guest' = [guest EXCEPT ![t] = g] BY <1>2
<1> HIDE DEF g
<1> QED BY <1>0, <1>1, <1>3, <1>4, LookingKeeps DEF Return, Kept

LEMMA UnwindKeeps ==
  ASSUME Inv, NEW t \in All, Unwind(t)
  PROVE  Inv'
<1>0. TypeOK /\ guest[t].pc \in Here BY DEF Inv, Unwind, At, Here
<1> DEFINE l == Looks(t, "complete")
           g == [l EXCEPT !.result = "returns", !.unwound = TRUE]
<1>1. l \in Guests /\ l.pc = "look" /\ l.look = 1 BY <1>0, LooksIs
<1>2. guest' = [guest EXCEPT ![t] = g]
  BY DEF Unwind
<1> HIDE DEF l
<1>3. Kept(l, g) BY <1>1, ResultKeeps
<1> HIDE DEF g
<1>4. g \in Guests /\ g.pc = "look" /\ g.look = 1 BY <1>1, <1>3 DEF Kept
<1>5. UNCHANGED <<plan, stores, interrupt, markVars, named, tableVars, raiseVars, awaited>>
  BY DEF Unwind
<1> QED BY <1>0, <1>2, <1>4, <1>5, LookingKeeps

\* A thread that ends alone, and one whose process has ended already.
LEMMA EndKeeps ==
  ASSUME Inv, NEW t \in All, EndThread(t) \/ EndDropped(t)
  PROVE  Inv'
<1>0. guest \in [All -> Guests] /\ guest[t] \in Guests /\ guest[t].pc \in Here
  BY DEF Inv, TypeOK, EndThread, EndDropped, EndsProcess, At, Here
<1> DEFINE g == [guest[t] EXCEPT !.pc = "leaving"]
<1>1. guest' = [guest EXCEPT ![t] = g]
  BY <1>0 DEF EndThread, EndDropped, Goes
<1>2. g \in Guests /\ g.pc = "leaving" /\ g.look = guest[t].look BY <1>0 DEF Guests, Pcs, Later
<1> HIDE DEF g
<1>4. InReads(g) BY <1>2 DEF Inv, LooksInside, InReads
<1>3. UNCHANGED <<plan, stores, interrupt, markVars, named, tableVars, raiseVars, awaited>>
  BY DEF EndThread, EndDropped
<1> QED BY <1>0, <1>1, <1>2, <1>3, <1>4, OverKeeps
\* A read that finds its mark takes a signal, and no mark is passed after it.
LEMMA FindsKeeps ==
  ASSUME Inv, NEW t \in All, Finds(t)
  PROVE  Inv'
<1> DEFINE mark == Reads[guest[t].look]
<1>0. TypeOK /\ guest \in [All -> Guests] /\ guest[t].pc = "look"
  BY DEF Inv, TypeOK, Finds, At
<1>1. mark \in {"ended", "signal", "process", "kill"}
  BY <1>0, ReadsAreMarks DEF Inv, LooksInside, InReads
<1>2. /\ guest' = [guest EXCEPT ![t] =
           IF guest[t].at = "callback" THEN [Looks(t, "complete") EXCEPT !.result = mark]
                                       ELSE [Leaves(t, "over") EXCEPT !.result = mark]]
      /\ signalled' \subseteq signalled
      /\ processSignal' = (processSignal /\ mark # "process")
      /\ UNCHANGED <<plan, stores, interrupt, ended, condemned, named, table, exits, job, raises,
                     awaited>>
  BY <1>0 DEF Finds, tableVars, raiseVars
<1> HIDE DEF mark
<1>3. PICK g \in Guests : /\ guest' = [guest EXCEPT ![t] = g] /\ g.look = 1
                          /\ g.pc \in {"look", "over"}
  <2>1. CASE guest[t].at = "callback"
    <3> DEFINE l == Looks(t, "complete")
    <3>1. l \in Guests /\ l.pc = "look" /\ l.look = 1 BY <1>0, LooksIs
    <3>2. guest' = [guest EXCEPT ![t] = [l EXCEPT !.result = mark]] BY <1>2, <2>1
    <3> HIDE DEF l
    <3>3. Kept(l, [l EXCEPT !.result = mark]) BY <1>1, <3>1, ResultKeeps
    <3> QED BY <3>1, <3>2, <3>3 DEF Kept
  <2>2. CASE guest[t].at # "callback"
    <3> DEFINE l == Leaves(t, "over")
    <3>1. l \in Guests /\ l.pc = "over" /\ l.look = 1 BY <1>0, LeavesIs DEF Pcs
    <3>2. guest' = [guest EXCEPT ![t] = [l EXCEPT !.result = mark]] BY <1>2, <2>2
    <3> HIDE DEF l
    <3>3. Kept(l, [l EXCEPT !.result = mark]) BY <1>1, <3>1, ResultKeeps
    <3> QED BY <3>1, <3>2, <3>3 DEF Kept
  <2> QED BY <2>1, <2>2
<1>4. \A m : ~Passed(g, m)
  BY <1>3 DEF Passed, Turning
<1>5. g.pc \in Here /\ guest[t].pc \in Here /\ InReads(g)
  BY <1>0, <1>3, FirstRead DEF Here
<1>6. processSignal' \in BOOLEAN /\ (processSignal' => processSignal)
  BY <1>0, <1>2 DEF TypeOK
<1>7. /\ table' \in [open : BOOLEAN, threads : Seq(Threads), end : Threads \cup {NoEnd}]
      /\ interrupt' \in SUBSET All /\ interrupt' = interrupt
  BY <1>0, <1>2 DEF TypeOK
<1> QED BY <1>2, <1>3, <1>4, <1>5, <1>6, <1>7, TurnKeeps

\* The interruption a guest meets is followed by its reads.
LEMMA OnInterruptKeeps ==
  ASSUME Inv, NEW t \in All, OnInterrupt(t)
  PROVE  Inv'
<1> DEFINE g == Looks(t, "callback")
<1>0. TypeOK /\ guest[t].pc \in Here BY DEF Inv, OnInterrupt, At, Here
<1>1. g \in Guests /\ g.pc = "look" /\ g.look = 1 BY <1>0, LooksIs
<1>2. guest' = [guest EXCEPT ![t] = g] BY DEF OnInterrupt
<1> HIDE DEF g
<1>3. \A mark : ~Passed(g, mark) BY <1>1, LooksPassNothing
<1>4. /\ UNCHANGED <<plan, stores, ended, condemned, named, exits, job, raises, awaited>>
      /\ UNCHANGED <<signalled, processSignal, table>>
      /\ interrupt' = interrupt \ {t}
  BY DEF OnInterrupt, markVars, tableVars, raiseVars
<1>5. g.pc \in Here /\ InReads(g) BY <1>0, <1>1, FirstRead DEF Here
<1>6. interrupt' \in SUBSET All /\ interrupt \ {t} \subseteq interrupt'
  BY <1>0, <1>4 DEF TypeOK
<1>7. /\ table' \in [open : BOOLEAN, threads : Seq(Threads), end : Threads \cup {NoEnd}]
      /\ processSignal' \in BOOLEAN
  BY <1>0, <1>4 DEF TypeOK
<1> QED BY <1>0, <1>1, <1>2, <1>3, <1>4, <1>5, <1>6, <1>7, TurnKeeps

LEMMA TimeSliceKeeps ==
  ASSUME Inv, NEW t \in All, TimeSlice(t)
  PROVE  Inv'
<1> DEFINE g == guest[t]
<1>0. TypeOK /\ guest[t].pc = "run" BY DEF Inv, TimeSlice, At
<1>1. g \in Guests /\ guest' = [guest EXCEPT ![t] = g]
  BY <1>0 DEF TypeOK, TimeSlice
<1>4. /\ UNCHANGED <<plan, stores, ended, condemned, named, exits, job, raises, awaited>>
      /\ UNCHANGED <<signalled, processSignal, table>>
      /\ interrupt' = interrupt \cup {t}
  BY DEF TimeSlice, markVars, tableVars, raiseVars
<1>2. g.pc \in Here /\ InReads(g) BY <1>0 DEF Here, Inv, LooksInside
<1>3. Owed(t)' = Owed(t) BY <1>4 DEF Owed, Marked
<1>5. \A mark \in Owed(t) : Passed(g, mark) => g.woken \/ UnderWay(t, mark, {"wake"})
  BY DEF Inv, WakesAreComing
<1>6. interrupt' \in SUBSET All /\ interrupt \ {t} \subseteq interrupt' /\ t \in interrupt'
  BY <1>0, <1>4 DEF TypeOK
<1>7. /\ table' \in [open : BOOLEAN, threads : Seq(Threads), end : Threads \cup {NoEnd}]
      /\ processSignal' \in BOOLEAN
  BY <1>0, <1>4 DEF TypeOK
<1> HIDE DEF g
<1> QED BY <1>0, <1>1, <1>2, <1>3, <1>4, <1>5, <1>6, <1>7, TurnKeeps DEF g
----------------------------------------------------------------------------
(* The life of a spawned thread's task, outside its turns.                 *)

Outer == {"launched", "registered", "attaching", "named", "leaving", "gone"}

\* A step of a task that drives no call, which may register or drop its store,
\* name its target, publish its end and interrupt stores.
LEMMA LifeKeeps ==
  ASSUME Inv, NEW t \in All, NEW g \in Guests,
         guest' = [guest EXCEPT ![t] = g], InReads(g),
         guest[t].pc \in Outer, \A mark : ~Passed(g, mark),
         g.pc \in {"registered", "attaching", "named", "look", "gone", "closing", "published"},
         t = Main => guest[t].pc = "leaving" /\ g.pc = "closing",
         UNCHANGED <<plan, ended, signalled, processSignal, condemned, table, job, raises, awaited>>,
         stores' \in SUBSET All, stores \ {t} \subseteq stores',
         g.pc \in {"registered", "attaching", "named", "look"} => t \in stores',
         named' \in SUBSET All, named \subseteq named', g.pc \in {"named", "look"} => t \in named',
         interrupt' \in SUBSET All, (interrupt \cap stores) \ {t} \subseteq interrupt',
         exits \subseteq exits', exits' \subseteq exits \cup {t}, exits' \subseteq Threads,
         g.pc = "published" <=> t \in exits'
  PROVE  Inv'
<1> USE Names
<1>0. TypeOK /\ guest \in [All -> Guests]
  BY DEF Inv, TypeOK
<1>a. guest'[t] = g /\ \A u \in All : u # t => guest'[u] = guest[u]
  BY <1>0
<1>1. TypeOK'
  BY <1>0 DEF TypeOK
<1>11. LooksInside'
  BY <1>a DEF Inv, LooksInside, InReads, Reads
<1>2. JobsAre'
  <2>1. ASSUME NEW a \in All \cup Outside, job[a].to # <<>>
        PROVE  JobIs(a)'
    <3>1. JobIs(a) BY <2>1 DEF Inv, JobsAre
    <3> QED BY <1>a, <3>1 DEF JobIs, At, Outer
  <2> QED BY <2>1 DEF JobsAre
<1>3. MarksPlanned'
  BY DEF Inv, MarksPlanned
<1>4. SpawnsApart'
  BY <1>a DEF Inv, SpawnsApart, At, Outer
<1>5. StoresReached'
  BY <1>a DEF Inv, StoresReached, Turning
<1>6. \A u \in All : Owed(u)' = Owed(u)
  BY DEF Owed, Marked
<1>b. \A u \in All : \A mark, stages : UnderWay(u, mark, stages)' = UnderWay(u, mark, stages)
  BY DEF UnderWay
<1>c. \A h, mark : Passed(h, mark)' = Passed(h, mark)
  BY DEF Passed, Reads
<1>7. WakesAreComing'
  BY <1>a, <1>6, <1>b, <1>c DEF Inv, WakesAreComing
<1>8. InterruptsAreComing'
  <2>1. ASSUME NEW u \in All, NEW mark \in Owed(u), Passed(guest[u], mark), u # t,
               u \in interrupt
        PROVE  u \in interrupt'
    <3>1. u \in stores BY <2>1 DEF Inv, StoresReached, Passed, Turning
    <3> QED BY <2>1, <3>1
  <2> QED BY <1>a, <1>6, <1>b, <1>c, <2>1 DEF Inv, InterruptsAreComing, Running
<1>9. EndRecorded'
  BY <1>a DEF Inv, EndRecorded, Later
<1>10. ThreadsKept'
  <2>1. ThreadsKept BY DEF Inv
  <2>2. \A u \in exits' : At(u, "published")'
    BY <1>a, <2>1 DEF ThreadsKept, At, Outer
  <2>3. ASSUME NEW u \in Threads, Alive(u)'
        PROVE  u \in ToSet(table'.threads) \cup awaited'
    <3>1. Alive(u) BY <1>a, <2>3 DEF Alive, Outer
    <3> QED BY <3>1, <2>1 DEF ThreadsKept
  <2>4. /\ guest[Main].pc \in {"ending", "awaiting", "reported"}
             <=> guest'[Main].pc \in {"ending", "awaiting", "reported"}
        /\ guest'[Main].pc = "reported" => guest[Main].pc = "reported"
        /\ guest'[Main].pc \in Turning \cup Later \cup {"over"}
    BY <1>a, <2>1 DEF ThreadsKept, Turning, Later
  <2> QED BY <1>a, <2>1, <2>2, <2>3, <2>4 DEF ThreadsKept, At
<1> QED BY <1>1, <1>2, <1>3, <1>4, <1>5, <1>7, <1>8, <1>9, <1>10, <1>11 DEF Inv
LEMMA GoesTo ==
  ASSUME Inv, NEW t \in All, NEW p \in Pcs, Goes(t, p)
  PROVE  \E g \in Guests :
           /\ guest' = [guest EXCEPT ![t] = g] /\ InReads(g) /\ g.pc = p
           /\ g.look = guest[t].look /\ g.at = guest[t].at /\ g.on = guest[t].on
           /\ g.woken = guest[t].woken
<1> DEFINE g == [guest[t] EXCEPT !.pc = p]
<1>0. guest \in [All -> Guests] /\ guest[t] \in Guests BY DEF Inv, TypeOK
<1>1. guest' = [guest EXCEPT ![t] = g] BY <1>0 DEF Goes
<1>2. g \in Guests BY <1>0, GuestGoes
<1>3. /\ g.pc = p /\ g.look = guest[t].look /\ g.at = guest[t].at /\ g.on = guest[t].on
      /\ g.woken = guest[t].woken
  BY <1>0 DEF Guests
<1> HIDE DEF g
<1>4. InReads(g) BY <1>3 DEF Inv, LooksInside, InReads
<1> QED BY <1>1, <1>2, <1>3, <1>4

LEMMA OuterIsThread ==
  ASSUME Inv, NEW t \in All, guest[t].pc \in Outer, guest[t].pc # "leaving"
  PROVE  t \in Threads
BY Names DEF All, Inv, ThreadsKept, Outer, Turning, Later

LEMMA RegisterKeeps ==
  ASSUME Inv, NEW t \in All, Register(t)
  PROVE  Inv'
<1>0. TypeOK /\ guest[t].pc = "launched" /\ guest[t].pc \in Outer
  BY DEF Inv, Register, At, Outer
<1>1. PICK g \in Guests : guest' = [guest EXCEPT ![t] = g] /\ InReads(g) /\ g.pc = "registered"
  BY GoesTo DEF Register, Pcs
<1>2. t \in Threads /\ t # Main BY <1>0, OuterIsThread, Names
<1>3. \A mark : ~Passed(g, mark) BY <1>1 DEF Passed, Turning
<1>4. /\ UNCHANGED <<plan, ended, signalled, processSignal, condemned, table, job, raises, awaited>>
      /\ UNCHANGED <<interrupt, named, exits>>
      /\ stores' = stores \cup {t}
  BY DEF Register, markVars, tableVars, raiseVars
<1>5. t \notin exits BY <1>0 DEF Inv, ThreadsKept, At
<1> QED BY <1>0, <1>1, <1>2, <1>3, <1>4, <1>5, LifeKeeps DEF TypeOK

LEMMA AttachProcessKeeps ==
  ASSUME Inv, NEW t \in All, AttachProcess(t)
  PROVE  Inv'
<1>0. TypeOK /\ guest[t].pc = "registered" /\ guest[t].pc \in Outer
  BY DEF Inv, AttachProcess, At, Outer
<1>1. PICK g \in Guests : guest' = [guest EXCEPT ![t] = g] /\ InReads(g) /\ g.pc = "attaching"
  BY GoesTo DEF AttachProcess, Pcs
<1>2. t \in Threads /\ t # Main BY <1>0, OuterIsThread, Names
<1>3. \A mark : ~Passed(g, mark) BY <1>1 DEF Passed, Turning
<1>4. /\ UNCHANGED <<plan, ended, signalled, processSignal, condemned, table, job, raises, awaited>>
      /\ UNCHANGED <<stores, named, exits>>
      /\ interrupt' \in {stores, interrupt}
  BY DEF AttachProcess, markVars, tableVars, raiseVars
<1>5. t \notin exits /\ t \in stores BY <1>0 DEF Inv, ThreadsKept, At, StoresReached
<1> QED BY <1>0, <1>1, <1>2, <1>3, <1>4, <1>5, LifeKeeps DEF TypeOK

LEMMA NameTargetKeeps ==
  ASSUME Inv, NEW t \in All, NameTarget(t)
  PROVE  Inv'
<1>0. TypeOK /\ guest[t].pc = "attaching" /\ guest[t].pc \in Outer
  BY DEF Inv, NameTarget, At, Outer
<1>1. PICK g \in Guests : guest' = [guest EXCEPT ![t] = g] /\ InReads(g) /\ g.pc = "named"
  BY GoesTo DEF NameTarget, Pcs
<1>2. t \in Threads /\ t # Main BY <1>0, OuterIsThread, Names
<1>3. \A mark : ~Passed(g, mark) BY <1>1 DEF Passed, Turning
<1>4. /\ UNCHANGED <<plan, ended, signalled, processSignal, condemned, table, job, raises, awaited>>
      /\ UNCHANGED <<stores, interrupt, exits>>
      /\ named' = named \cup {t}
  BY DEF NameTarget, markVars, tableVars, raiseVars
<1>5. t \notin exits /\ t \in stores BY <1>0 DEF Inv, ThreadsKept, At, StoresReached
<1> QED BY <1>0, <1>1, <1>2, <1>3, <1>4, <1>5, LifeKeeps DEF TypeOK

LEMMA AttachedKeeps ==
  ASSUME Inv, NEW t \in All, Attached(t)
  PROVE  Inv'
<1> DEFINE g == Driving("instantiate")
<1>0. TypeOK /\ guest[t].pc = "named" /\ guest[t].pc \in Outer
  BY DEF Inv, Attached, At, Outer
<1>1. g \in Guests /\ g.pc = "look" /\ g.look = 1
  BY DrivingIsGuest DEF Driving
<1>6. guest' = [guest EXCEPT ![t] = g] BY DEF Attached
<1> HIDE DEF g
<1>2. t \in Threads /\ t # Main BY <1>0, OuterIsThread, Names
<1>3. InReads(g) /\ \A mark : ~Passed(g, mark) BY <1>0, <1>1, FirstRead, LooksPassNothing
<1>4. /\ UNCHANGED <<plan, ended, signalled, processSignal, condemned, table, job, raises, awaited>>
      /\ UNCHANGED <<stores, named, exits>>
      /\ interrupt' \in {stores, interrupt}
  BY DEF Attached, markVars, tableVars, raiseVars
<1>5. t \notin exits /\ t \in stores /\ t \in named
  BY <1>0 DEF Inv, ThreadsKept, At, StoresReached
<1> QED BY <1>0, <1>1, <1>2, <1>3, <1>4, <1>5, <1>6, LifeKeeps DEF TypeOK

LEMMA DropStoreKeeps ==
  ASSUME Inv, NEW t \in All, DropStore(t)
  PROVE  Inv'
<1>0. TypeOK /\ guest[t].pc = "leaving" /\ guest[t].pc \in Outer
  BY DEF Inv, DropStore, At, Outer
<1>1. PICK g \in Guests : /\ guest' = [guest EXCEPT ![t] = g] /\ InReads(g)
                          /\ g.pc = IF t = Main THEN "closing" ELSE "gone"
  BY GoesTo DEF DropStore, Pcs, Later
<1>3. \A mark : ~Passed(g, mark) BY <1>1 DEF Passed, Turning
<1>4. /\ UNCHANGED <<plan, ended, signalled, processSignal, condemned, table, job, raises, awaited>>
      /\ UNCHANGED <<named, exits>>
      /\ stores' = stores \ {t} /\ interrupt' = interrupt \ {t}
  BY DEF DropStore, markVars, tableVars, raiseVars
<1>5. t \notin exits BY <1>0 DEF Inv, ThreadsKept, At
<1> QED BY <1>0, <1>1, <1>3, <1>4, <1>5, LifeKeeps DEF TypeOK

LEMMA PublishKeeps ==
  ASSUME Inv, NEW t \in All, Publish(t)
  PROVE  Inv'
<1>0. TypeOK /\ guest[t].pc = "gone" /\ guest[t].pc \in Outer
  BY DEF Inv, Publish, At, Outer
<1>1. PICK g \in Guests : guest' = [guest EXCEPT ![t] = g] /\ InReads(g) /\ g.pc = "published"
  BY GoesTo DEF Publish, Pcs
<1>2. t \in Threads /\ t # Main BY <1>0, OuterIsThread, Names
<1>3. \A mark : ~Passed(g, mark) BY <1>1 DEF Passed, Turning
<1>4. /\ UNCHANGED <<plan, ended, signalled, processSignal, condemned, table, job, raises, awaited>>
      /\ UNCHANGED <<stores, interrupt, named>>
      /\ exits' = exits \cup {t}
  BY DEF Publish, markVars, tableVars, raiseVars
<1> QED BY <1>0, <1>1, <1>2, <1>3, <1>4, LifeKeeps DEF TypeOK
----------------------------------------------------------------------------
(* Spawning: a step of the spawner and of the thread it spawns.            *)

LEMMA PairKeeps ==
  ASSUME Inv, NEW t \in All, NEW u \in Threads, t # u, NEW g \in Guests, NEW h \in Guests,
         guest'[t] = g, guest'[u] = h, guest' \in [All -> Guests],
         \A v \in All \ {t, u} : guest'[v] = guest[v],
         guest[t].pc \in {"run", "spawning"}, g.pc \in {"run", "spawning"},
         g.look = guest[t].look, g.woken = guest[t].woken,
         guest[u].pc \in {"none", "admitted"}, h.pc \in {"admitted", "launched", "published"},
         h.look = guest[u].look,
         UNCHANGED <<plan, stores, interrupt, markVars, named, raiseVars, awaited>>,
         table' \in [open : BOOLEAN, threads : Seq(Threads), end : Threads \cup {NoEnd}],
         table'.open = table.open, table'.end = table.end,
         exits \subseteq exits', exits' \subseteq exits \cup {u},
         h.pc = "published" <=> u \in exits',
         ToSet(table.threads) \ {u} \subseteq ToSet(table'.threads),
         h.pc # "published" => u \in ToSet(table'.threads) \cup awaited,
         table.threads = <<>> /\ ~table.open => table'.threads = <<>>,
         SpawnsApart'
  PROVE  Inv'
<1> USE Names
<1>0. TypeOK /\ guest \in [All -> Guests]
  BY DEF Inv, TypeOK
<1>1. TypeOK'
  BY <1>0 DEF TypeOK, markVars, raiseVars
<1>2. LooksInside'
  BY DEF Inv, LooksInside, InReads, Reads
<1>3. JobsAre'
  <2>1. ASSUME NEW a \in All \cup Outside, job[a].to # <<>>
        PROVE  JobIs(a)'
    <3>1. JobIs(a) BY <2>1 DEF Inv, JobsAre
    <3>2. a # t /\ a # u BY <3>1 DEF JobIs, At
    <3> QED BY <3>1, <3>2 DEF JobIs, At, raiseVars
  <2> QED BY <2>1 DEF JobsAre, raiseVars
<1>4. MarksPlanned'
  BY DEF Inv, MarksPlanned, markVars
<1>5. StoresReached'
  BY DEF Inv, StoresReached, Turning
<1>6. \A v \in All : Owed(v)' = Owed(v)
  BY DEF Owed, Marked, markVars
<1>7. \A v \in All : \A mark, stages : UnderWay(v, mark, stages)' = UnderWay(v, mark, stages)
  BY DEF UnderWay, raiseVars
<1>8. \A f, mark : Passed(f, mark)' = Passed(f, mark)
  BY DEF Passed, Reads
<1>9. \A mark : /\ Passed(g, mark) /\ Passed(guest[t], mark) /\ ~Passed(h, mark)
                /\ Running(guest[t])
  BY DEF Passed, Running, Turning
<1>10. WakesAreComing'
  <2> SUFFICES ASSUME NEW v \in All, NEW mark \in Owed(v), Passed(guest'[v], mark)
               PROVE  guest'[v].woken \/ UnderWay(v, mark, {"wake"})
    BY <1>6, <1>7, <1>8 DEF WakesAreComing
  <2>1. v # u BY <1>9
  <2>2. Passed(guest[v], mark) /\ guest'[v].woken = guest[v].woken BY <1>9, <2>1
  <2> QED BY <2>2 DEF Inv, WakesAreComing
<1>11. InterruptsAreComing'
  <2> SUFFICES ASSUME NEW v \in All, NEW mark \in Owed(v),
                      Passed(guest'[v], mark), Running(guest'[v])
               PROVE  v \in interrupt \/ UnderWay(v, mark, {"wake", "interrupt"})
    BY <1>6, <1>7, <1>8 DEF InterruptsAreComing, Running
  <2>1. v # u BY <1>9
  <2>2. Passed(guest[v], mark) /\ Running(guest[v]) BY <1>9, <2>1
  <2> QED BY <2>2 DEF Inv, InterruptsAreComing
<1>12. EndRecorded'
  BY DEF Inv, EndRecorded, Later, markVars, raiseVars
<1>13. ThreadsKept'
  <2>1. ThreadsKept BY DEF Inv
  <2>2. \A v \in exits' : At(v, "published")'
    <3>1. ASSUME NEW v \in exits' PROVE guest'[v].pc = "published"
      <4>1. CASE v = u BY <4>1
      <4>2. CASE v # u
        <5>1. v \in exits /\ v \in All BY <1>0, <4>2 DEF TypeOK
        <5>2. guest[v].pc = "published" BY <5>1, <2>1 DEF ThreadsKept, At
        <5>3. v # t BY <5>2
        <5> QED BY <4>2, <5>1, <5>2, <5>3
      <4> QED BY <4>1, <4>2
    <3> QED BY <3>1 DEF At
  <2>3. ASSUME NEW v \in Threads, Alive(v)'
        PROVE  v \in ToSet(table'.threads) \cup awaited'
    <3>1. CASE v = u
      BY <2>3, <3>1 DEF Alive
    <3>2. CASE v # u
      <4>1. Alive(v) BY <2>3, <3>2 DEF Alive
      <4> QED BY <4>1, <3>2, <2>1 DEF ThreadsKept
    <3> QED BY <3>1, <3>2
  <2>4. /\ guest[Main].pc \in {"ending", "awaiting", "reported"}
             <=> guest'[Main].pc \in {"ending", "awaiting", "reported"}
        /\ guest'[Main].pc = "reported" => guest[Main].pc = "reported"
        /\ guest'[Main].pc \in Turning \cup Later \cup {"over"}
    BY <2>1 DEF ThreadsKept, Turning, Later
  <2> QED BY <2>1, <2>2, <2>3, <2>4 DEF ThreadsKept, At
<1> QED BY <1>1, <1>2, <1>3, <1>4, <1>5, <1>10, <1>11, <1>12, <1>13 DEF Inv
LEMMA SpawnKeeps ==
  ASSUME Inv, NEW t \in All, NEW u \in Threads, Spawn(t, u)
  PROVE  Inv'
<1> USE Names
<1>0. /\ TypeOK /\ guest \in [All -> Guests] /\ guest[t] \in Guests /\ guest[u] \in Guests
      /\ u \in All
  BY DEF Inv, TypeOK
<1>1. guest[t].pc = "run" /\ guest[u].pc = "none" /\ t # u /\ table.open
  <2>1. guest[t].pc = "run" /\ table.open BY DEF Spawn, At, Admits
  <2>2. PICK i \in DOMAIN plan.threads :
          /\ plan.threads[i] = u
          /\ \A j \in DOMAIN plan.threads : At(plan.threads[j], "none") <=> j >= i
    BY DEF Spawn, IsNextTid
  <2>3. i \in Int BY <1>0, <2>2, Names DEF TypeOK
  <2>4. At(u, "none") BY <2>2, <2>3
  <2> QED BY <2>1, <2>4 DEF At
<1> DEFINE g1 == [guest[t] EXCEPT !.pc = "spawning"]
           g == [g1 EXCEPT !.on = u]
           h == [guest[u] EXCEPT !.pc = "admitted"]
<1>2. guest' = [guest EXCEPT ![t] = g, ![u] = h]
  <2>1. [guest[t] EXCEPT !.pc = "spawning", !.on = u] = g BY <1>0 DEF Guests
  <2>2. guest' = [guest EXCEPT ![t] = [guest[t] EXCEPT !.pc = "spawning", !.on = u], ![u].pc = "admitted"]
    BY <1>0 DEF Spawn
  <2> HIDE DEF g
  <2> QED BY <1>0, <1>1, <2>1, <2>2
<1>3. g1 \in Guests /\ g1.pc = "spawning" /\ g1.look = guest[t].look /\ g1.woken = guest[t].woken
  BY <1>0 DEF Guests, Pcs, Turning
<1>4. h \in Guests /\ h.pc = "admitted" /\ h.look = guest[u].look
  BY <1>0 DEF Guests, Pcs
<1> HIDE DEF g1, h
<1>5. Kept(g1, g) /\ g.on = u BY <1>0, <1>3, OnKeeps DEF Guests
<1> HIDE DEF g
<1>6. /\ g \in Guests /\ g.pc = "spawning" /\ g.look = guest[t].look /\ g.woken = guest[t].woken
      /\ g.on = u
  BY <1>3, <1>5 DEF Kept
<1>7. /\ guest'[t] = g /\ guest'[u] = h /\ guest' \in [All -> Guests]
      /\ \A v \in All \ {t, u} : guest'[v] = guest[v]
  BY <1>0, <1>1, <1>2, <1>4, <1>6
<1>8. /\ table' = [table EXCEPT !.threads = Append(table.threads, u)]
      /\ UNCHANGED <<plan, stores, interrupt, markVars, named, exits, raiseVars, awaited>>
  BY DEF Spawn
<1>9. /\ table' \in [open : BOOLEAN, threads : Seq(Threads), end : Threads \cup {NoEnd}]
      /\ table'.open = table.open /\ table'.end = table.end
      /\ table'.threads = Append(table.threads, u) /\ table.threads \in Seq(Threads)
  <2>1. table.threads \in Seq(Threads) BY <1>0 DEF TypeOK
  <2>2. Append(table.threads, u) \in Seq(Threads) BY <2>1, AppendProperties
  <2> DEFINE s == Append(table.threads, u)
  <2> HIDE DEF s
  <2>3. table' = [table EXCEPT !.threads = s] /\ s \in Seq(Threads) BY <1>8, <2>2 DEF s
  <2>4. /\ table' \in [open : BOOLEAN, threads : Seq(Threads), end : Threads \cup {NoEnd}]
        /\ table'.open = table.open /\ table'.end = table.end /\ table'.threads = s
    BY <1>0, <2>3 DEF TypeOK
  <2> QED BY <2>1, <2>4 DEF s
<1>10. ToSet(table.threads) \cup {u} \subseteq ToSet(table'.threads)
  BY <1>9, AppendProperties DEF ToSet
<1>11. u \notin exits BY <1>1 DEF Inv, ThreadsKept, At
<1>12. SpawnsApart'
  <2> SUFFICES ASSUME NEW v \in All, guest'[v].pc = "spawning"
               PROVE  /\ guest'[v].on \in Threads /\ guest'[guest'[v].on].pc = "admitted"
                      /\ \A w \in All : guest'[w].pc = "spawning" /\ guest'[w].on = guest'[v].on => w = v
    BY DEF SpawnsApart, At
  <2>1. SpawnsApart BY DEF Inv
  <2>2. \A w \in All \ {t} : guest'[w].pc = "spawning" =>
          /\ w # u /\ guest[w] = guest'[w] /\ guest[w].on \in Threads
          /\ guest[guest[w].on].pc = "admitted"
    BY <1>4, <1>7, <2>1 DEF SpawnsApart, At
  <2>3. \A w \in All \ {t} : guest'[w].pc = "spawning" => guest'[w].on \notin {t, u}
    BY <1>1, <2>2
  <2>4. CASE v = t
    BY <1>4, <1>6, <1>7, <2>3, <2>4
  <2>5. CASE v # t
    <3>1. guest'[v].on \in Threads /\ guest'[guest'[v].on].pc = "admitted"
      BY <1>7, <2>2, <2>3, <2>5
    <3>2. ASSUME NEW w \in All, guest'[w].pc = "spawning", guest'[w].on = guest'[v].on
          PROVE  w = v
      <4>1. w # t BY <1>6, <1>7, <2>3, <2>5, <3>2
      <4> QED BY <2>1, <2>2, <2>5, <3>2, <4>1 DEF SpawnsApart, At
    <3> QED BY <3>1, <3>2
  <2> QED BY <2>4, <2>5
<1>13. /\ UNCHANGED <<plan, stores, interrupt, markVars, named, raiseVars, awaited>>
       /\ exits' = exits
  BY <1>8
<1>14. /\ ToSet(table.threads) \ {u} \subseteq ToSet(table'.threads)
       /\ u \in ToSet(table'.threads) \cup awaited
  BY <1>10
<1> QED BY <1>1, <1>4, <1>6, <1>7, <1>9, <1>11, <1>12, <1>13, <1>14, PairKeeps

\* What both ends of a spawn share.
LEMMA SpawnEnds ==
  ASSUME Inv, NEW t \in All, guest[t].pc = "spawning", NEW p \in {"launched", "published"},
         guest' = [guest EXCEPT ![t] = Returned(t), ![guest[t].on].pc = p]
  PROVE  /\ guest[t].on \in Threads /\ t # guest[t].on /\ guest[guest[t].on].pc = "admitted"
         /\ guest' \in [All -> Guests]
         /\ \A v \in All \ {t, guest[t].on} : guest'[v] = guest[v]
         /\ guest'[t].pc = "run" /\ guest'[t].look = guest[t].look
         /\ guest'[t].woken = guest[t].woken
         /\ guest'[guest[t].on].pc = p /\ guest'[guest[t].on].look = guest[guest[t].on].look
         /\ SpawnsApart'
<1> USE Names
<1> DEFINE u == guest[t].on
<1>1. /\ u \in Threads /\ guest[u].pc = "admitted" /\ t # u /\ u \in All
      /\ \A w \in All : At(w, "spawning") /\ guest[w].on = u => w = t
  BY DEF Inv, SpawnsApart, At
<1>0. guest \in [All -> Guests] /\ guest[t] \in Guests /\ guest[u] \in Guests
  BY <1>1 DEF Inv, TypeOK
<1> DEFINE g1 == [guest[t] EXCEPT !.pc = "run"]
           g == [g1 EXCEPT !.on = NoCall]
           h == [guest[u] EXCEPT !.pc = p]
<1>2. guest' = [guest EXCEPT ![t] = g, ![u] = h]
  <2>1. Returned(t) = g BY <1>0 DEF Guests, Returned
  <2> HIDE DEF g
  <2> QED BY <1>0, <1>1, <2>1
<1>3. g1 \in Guests /\ g1.pc = "run" /\ g1.look = guest[t].look /\ g1.woken = guest[t].woken
  BY <1>0 DEF Guests, Pcs, Turning
<1>4. h \in Guests /\ h.pc = p /\ h.look = guest[u].look
  BY <1>0 DEF Guests, Pcs
<1> HIDE DEF g1, h
<1>5. Kept(g1, g) BY <1>0, <1>3, OnKeeps
<1> HIDE DEF g
<1>6. g \in Guests /\ g.pc = "run" /\ g.look = guest[t].look /\ g.woken = guest[t].woken
  BY <1>3, <1>5 DEF Kept
<1> HIDE DEF u
<1>7. /\ guest'[t] = g /\ guest'[u] = h /\ guest' \in [All -> Guests]
      /\ \A v \in All \ {t, u} : guest'[v] = guest[v]
  BY <1>0, <1>1, <1>2, <1>4, <1>6
<1>8. SpawnsApart'
  <2>1. ASSUME NEW v \in All, guest'[v].pc = "spawning"
        PROVE  v # t /\ v # u /\ guest'[v] = guest[v]
    BY <1>4, <1>6, <1>7, <2>1
  <2>2. ASSUME NEW v \in All, guest'[v].pc = "spawning"
        PROVE  /\ guest'[v].on \in Threads /\ guest'[guest'[v].on].pc = "admitted"
    <3>1. guest[v].on \in Threads /\ guest[guest[v].on].pc = "admitted"
      BY <2>1, <2>2 DEF Inv, SpawnsApart, At
    <3>2. guest[v].on # u BY <1>1, <2>1, <2>2 DEF At
    <3>3. guest[v].on # t BY <3>1
    <3> QED BY <1>7, <2>1, <2>2, <3>1, <3>2, <3>3
  <2>3. ASSUME NEW v \in All, guest'[v].pc = "spawning", NEW w \in All,
               guest'[w].pc = "spawning", guest'[w].on = guest'[v].on
        PROVE  w = v
    <3>1. guest[v] = guest'[v] /\ guest[w] = guest'[w] BY <2>1, <2>3
    <3> QED BY <2>3, <3>1 DEF Inv, SpawnsApart, At
  <2> QED BY <2>2, <2>3 DEF SpawnsApart, At
<1>9. /\ u \in Threads /\ t # u /\ guest[u].pc = "admitted"
      /\ guest' \in [All -> Guests]
      /\ \A v \in All \ {t, u} : guest'[v] = guest[v]
      /\ guest'[t].pc = "run" /\ guest'[t].look = guest[t].look /\ guest'[t].woken = guest[t].woken
      /\ guest'[u].pc = p /\ guest'[u].look = guest[u].look
      /\ SpawnsApart'
  BY <1>1, <1>4, <1>6, <1>7, <1>8
<1> QED BY <1>9 DEF u

LEMMA SpawnedKeeps ==
  ASSUME Inv, NEW t \in All, Spawned(t)
  PROVE  Inv'
<1> DEFINE u == guest[t].on
<1>0. TypeOK /\ guest[t].pc = "spawning" BY DEF Inv, Spawned, At
<1>1. /\ u \in Threads /\ t # u /\ guest[u].pc = "admitted"
      /\ guest' \in [All -> Guests]
      /\ \A v \in All \ {t, u} : guest'[v] = guest[v]
      /\ guest'[t].pc = "run" /\ guest'[t].look = guest[t].look /\ guest'[t].woken = guest[t].woken
      /\ guest'[u].pc = "launched" /\ guest'[u].look = guest[u].look
      /\ SpawnsApart'
  <2>1. guest' = [guest EXCEPT ![t] = Returned(t), ![guest[t].on].pc = "launched"]
    BY DEF Spawned
  <2> QED BY <1>0, <2>1, SpawnEnds
<1> HIDE DEF u
<1>2. UNCHANGED <<plan, stores, interrupt, markVars, named, raiseVars, awaited>> /\ UNCHANGED <<table, exits>>
  BY DEF Spawned, tableVars
<1>3. u \notin exits /\ u \in ToSet(table.threads) \cup awaited
  BY <1>1 DEF Inv, ThreadsKept, Alive, At
<1>4. table \in [open : BOOLEAN, threads : Seq(Threads), end : Threads \cup {NoEnd}]
  BY <1>0 DEF TypeOK
<1>5. guest'[t] \in Guests /\ guest'[u] \in Guests BY <1>1, Names
<1> QED BY <1>0, <1>1, <1>2, <1>3, <1>4, <1>5, PairKeeps

LEMMA SpawnRefusedKeeps ==
  ASSUME Inv, NEW t \in All, SpawnRefused(t)
  PROVE  Inv'
<1> DEFINE u == guest[t].on
<1>0. TypeOK /\ guest[t].pc = "spawning" BY DEF Inv, SpawnRefused, At
<1>1. /\ u \in Threads /\ t # u /\ guest[u].pc = "admitted"
      /\ guest' \in [All -> Guests]
      /\ \A v \in All \ {t, u} : guest'[v] = guest[v]
      /\ guest'[t].pc = "run" /\ guest'[t].look = guest[t].look /\ guest'[t].woken = guest[t].woken
      /\ guest'[u].pc = "published" /\ guest'[u].look = guest[u].look
      /\ SpawnsApart'
  <2>1. guest' = [guest EXCEPT ![t] = Returned(t), ![guest[t].on].pc = "published"]
    BY DEF SpawnRefused
  <2> QED BY <1>0, <2>1, SpawnEnds
<1>2. /\ UNCHANGED <<plan, stores, interrupt, markVars, named, raiseVars, awaited>>
      /\ table' = [table EXCEPT !.threads = Without(table.threads, u)]
      /\ exits' = exits \cup {u}
  BY DEF SpawnRefused
<1> HIDE DEF u
<1>3. table.threads \in Seq(Threads) BY <1>0 DEF TypeOK
<1>4. /\ Without(table.threads, u) \in Seq(Threads)
      /\ ToSet(table.threads) \ {u} \subseteq ToSet(Without(table.threads, u))
      /\ table.threads = <<>> => Without(table.threads, u) = <<>>
  BY <1>3, WithoutKeeps
<1>5. /\ table' \in [open : BOOLEAN, threads : Seq(Threads), end : Threads \cup {NoEnd}]
      /\ table'.open = table.open /\ table'.end = table.end
      /\ table'.threads = Without(table.threads, u)
  BY <1>0, <1>2, <1>4 DEF TypeOK
<1>6. guest'[t] \in Guests /\ guest'[u] \in Guests BY <1>1, Names
<1> QED BY <1>0, <1>1, <1>2, <1>4, <1>5, <1>6, PairKeeps
----------------------------------------------------------------------------
(* The steps that begin something: a signal, a kill, the process's end.    *)

\* A guest that runs, or whose call or store is over, brings nothing.
LEMMA Idle ==
  ASSUME Inv, NEW t \in All, guest[t].pc \notin {"raising", "ending"}
  PROVE  job[t].to = <<>>
BY DEF Inv, JobsAre, JobIs, At

LEMMA BeginKeeps ==
  ASSUME Inv, NEW a \in All \cup Outside, NEW j \in Jobs,
         job' = [job EXCEPT ![a] = j], job[a].to = <<>>, j.stage = "mark",
         guest' \in [All -> Guests], \A v \in All : v # a => guest'[v] = guest[v],
         a \in All => /\ guest'[a].look = guest[a].look /\ guest'[a].woken = guest[a].woken
                      /\ \/ guest[a].pc = "run" /\ guest'[a].pc = "raising"
                         \/ guest[a].pc \in {"over", "closing"} /\ guest'[a].pc = "ending",
         JobIs(a)',
         UNCHANGED <<plan, stores, interrupt, markVars, named, exits>>, raises' \in Nat,
         table' \in [open : BOOLEAN, threads : Seq(Threads), end : Threads \cup {NoEnd}],
         awaited' \in SUBSET Threads, EndRecorded', ThreadsKept'
  PROVE  Inv'
<1> USE Names
<1>0. TypeOK /\ guest \in [All -> Guests] /\ job \in [All \cup Outside -> Jobs]
  BY DEF Inv, TypeOK
<1>1. job'[a] = j /\ \A b \in All \cup Outside : b # a => job'[b] = job[b]
  BY <1>0
<1>2. TypeOK'
  BY <1>0 DEF TypeOK, markVars
<1>3. LooksInside'
  BY DEF Inv, LooksInside, InReads, Reads
<1>4. JobsAre'
  <2>1. ASSUME NEW b \in All \cup Outside, b # a, job'[b].to # <<>>
        PROVE  JobIs(b)'
    <3>1. JobIs(b) /\ job'[b] = job[b] BY <1>1, <2>1 DEF Inv, JobsAre
    <3> QED BY <2>1, <3>1 DEF JobIs, At
  <2> QED BY <2>1 DEF JobsAre
<1>5. MarksPlanned'
  BY DEF Inv, MarksPlanned, markVars
<1>6. SpawnsApart'
  <2>1. \A v \in All : guest[v].pc = "spawning" <=> guest'[v].pc = "spawning"
    OBVIOUS
  <2>2. \A v \in All : guest[v].pc = "admitted" => guest'[v].pc = "admitted"
    OBVIOUS
  <2>3. \A v \in All : guest'[v].pc = "spawning" => guest'[v] = guest[v]
    OBVIOUS
  <2> QED BY <2>1, <2>2, <2>3 DEF Inv, SpawnsApart, At
<1>7. StoresReached'
  BY DEF Inv, StoresReached, Turning
<1>8. \A v \in All : Owed(v)' = Owed(v)
  BY DEF Owed, Marked, markVars
<1>9. \A v \in All : \A mark : \A stages \in {{"wake"}, {"wake", "interrupt"}} :
        UnderWay(v, mark, stages) => UnderWay(v, mark, stages)'
  BY <1>1 DEF UnderWay, Mailbox
<1>10. \A v \in All : \A mark : Passed(guest[v], mark)' =>
         /\ Passed(guest[v], mark) /\ guest'[v].woken = guest[v].woken
         /\ Running(guest[v])' => Running(guest[v])
  BY DEF Passed, Reads, Running, Turning
<1>11. WakesAreComing'
  BY <1>8, <1>9, <1>10 DEF Inv, WakesAreComing
<1>12. InterruptsAreComing'
  BY <1>8, <1>9, <1>10 DEF Inv, InterruptsAreComing, Running
<1> QED BY <1>2, <1>3, <1>4, <1>5, <1>6, <1>7, <1>11, <1>12 DEF Inv

\* Main's steps after its call, that bring nothing.
LEMMA MainKeeps ==
  ASSUME Inv, NEW g \in Guests, guest' = [guest EXCEPT ![Main] = g], InReads(g),
         guest[Main].pc \in {"over", "closing", "awaiting"},
         g.pc \in {"leaving", "awaiting", "reported"},
         UNCHANGED <<plan, stores, interrupt, markVars, named, exits, raiseVars>>,
         table' \in [open : BOOLEAN, threads : Seq(Threads), end : Threads \cup {NoEnd}],
         awaited' \in SUBSET Threads, ThreadsKept'
  PROVE  Inv'
<1> USE Names
<1>0. TypeOK /\ guest \in [All -> Guests]
  BY DEF Inv, TypeOK
<1>a. guest'[Main] = g /\ \A u \in All : u # Main => guest'[u] = guest[u]
  BY <1>0
<1>1. TypeOK'
  BY <1>0 DEF TypeOK, markVars, raiseVars
<1>2. LooksInside'
  BY <1>a DEF Inv, LooksInside, InReads, Reads
<1>3. JobsAre'
  <2>1. ASSUME NEW b \in All \cup Outside, job[b].to # <<>>
        PROVE  JobIs(b)'
    <3>1. JobIs(b) BY <2>1 DEF Inv, JobsAre
    <3> QED BY <1>a, <3>1 DEF JobIs, At, raiseVars
  <2> QED BY <2>1 DEF JobsAre, raiseVars
<1>4. MarksPlanned'
  BY DEF Inv, MarksPlanned, markVars
<1>5. SpawnsApart'
  BY <1>a DEF Inv, SpawnsApart, At
<1>6. StoresReached'
  BY <1>a DEF Inv, StoresReached, Turning
<1>7. \A v \in All : Owed(v)' = Owed(v)
  BY DEF Owed, Marked, markVars
<1>8. \A v \in All : \A mark, stages : UnderWay(v, mark, stages)' = UnderWay(v, mark, stages)
  BY DEF UnderWay, raiseVars
<1>9. /\ \A mark : ~Passed(g, mark)'
      /\ \A f, mark : Passed(f, mark)' = Passed(f, mark)
  BY DEF Passed, Reads, Turning
<1>10. WakesAreComing'
  BY <1>a, <1>7, <1>8, <1>9 DEF Inv, WakesAreComing
<1>11. InterruptsAreComing'
  BY <1>a, <1>7, <1>8, <1>9 DEF Inv, InterruptsAreComing, Running
<1>12. EndRecorded'
  BY <1>a DEF EndRecorded, Later
<1> QED BY <1>1, <1>2, <1>3, <1>4, <1>5, <1>6, <1>10, <1>11, <1>12 DEF Inv
LEMMA ThreadSignalKeeps ==
  ASSUME Inv, NEW t \in All, NEW u \in Threads, ThreadSignal(t, u)
  PROVE  Inv'
<1> USE Names
<1> DEFINE j == Bring("signal", <<u>>)
<1>0. /\ TypeOK /\ guest \in [All -> Guests] /\ guest[t].pc = "run" /\ plan \in Plans
      /\ raises \in Nat /\ job \in [All \cup Outside -> Jobs]
  BY DEF Inv, TypeOK, ThreadSignal, At
<1>1. PICK g \in Guests : /\ guest' = [guest EXCEPT ![t] = g] /\ g.pc = "raising"
                          /\ g.look = guest[t].look /\ g.woken = guest[t].woken
  BY GoesTo DEF ThreadSignal, Pcs, Turning
<1>2. guest'[t] = g /\ guest' \in [All -> Guests] /\ \A v \in All : v # t => guest'[v] = guest[v]
  BY <1>0, <1>1
<1>3. /\ j.mark = "signal" /\ j.to = <<u>> /\ j.stage = "mark" /\ <<u>> \in Seq(All) /\ j \in Jobs
  <2>1. j = [mark |-> "signal", to |-> <<u>>, stage |-> "mark"] BY DEF Bring
  <2>2. <<u>> \in Seq(All) /\ <<u>> \in Seq(Boxes) BY DEF Boxes
  <2> HIDE DEF j
  <2>3. j \in Jobs BY <2>1, <2>2 DEF Jobs, Kinds
  <2>4. j.mark = "signal" /\ j.to = <<u>> /\ j.stage = "mark" BY <2>1
  <2> QED BY <2>2, <2>3, <2>4
<1>4. /\ job' = [job EXCEPT ![t] = j] /\ plan.raises > 0 /\ raises' \in Nat
      /\ UNCHANGED <<plan, stores, interrupt, markVars, named, exits>>
      /\ UNCHANGED <<table, awaited>>
  BY <1>0 DEF ThreadSignal, tableVars
<1> HIDE DEF j
<1>5. job[t].to = <<>> BY <1>0, Idle
<1>6. job'[t] = j /\ \A b \in All \cup Outside : b # t => job'[b] = job[b]
  BY <1>0, <1>4
<1>7. JobIs(t)' BY <1>1, <1>2, <1>3, <1>4, <1>6 DEF JobIs, At
<1>8. EndRecorded'
  BY <1>0, <1>1, <1>2, <1>3, <1>4, <1>6 DEF Inv, EndRecorded, Later, markVars
<1>9. ThreadsKept'
  BY <1>0, <1>1, <1>2, <1>4 DEF Inv, ThreadsKept, Alive, At, Turning, TypeOK
<1>10. /\ table' \in [open : BOOLEAN, threads : Seq(Threads), end : Threads \cup {NoEnd}]
       /\ awaited' \in SUBSET Threads
  BY <1>0, <1>4 DEF TypeOK
<1> QED BY <1>0, <1>1, <1>2, <1>3, <1>4, <1>5, <1>7, <1>8, <1>9, <1>10, BeginKeeps

LEMMA EndFromThreadKeeps ==
  ASSUME Inv, NEW t \in All, EndFromThread(t)
  PROVE  Inv'
<1> USE Names
<1> DEFINE to == <<Main>> \o Without(table.threads, t)
           j == Bring("end", to)
<1>0. /\ TypeOK /\ guest \in [All -> Guests] /\ guest[t].pc = "over" /\ plan \in Plans
      /\ raises \in Nat /\ job \in [All \cup Outside -> Jobs] /\ t # Main /\ t \in Threads
  BY DEF Inv, TypeOK, EndFromThread, EndsProcess, At, All
<1>1. PICK g \in Guests : /\ guest' = [guest EXCEPT ![t] = g] /\ g.pc = "ending"
                          /\ g.look = guest[t].look /\ g.woken = guest[t].woken
  BY GoesTo DEF EndFromThread, Pcs, Later
<1>2. guest'[t] = g /\ guest' \in [All -> Guests] /\ \A v \in All : v # t => guest'[v] = guest[v]
  BY <1>0, <1>1
<1>a. to \in Seq(All)
  <2>1. table.threads \in Seq(Threads) BY <1>0 DEF TypeOK
  <2>2. Without(table.threads, t) \in Seq(Threads) BY <2>1, WithoutKeeps
  <2>3. Without(table.threads, t) \in Seq(All) /\ <<Main>> \in Seq(All) BY <2>2
  <2> QED BY <2>3, ConcatProperties
<1> HIDE DEF to
<1>b. to \in Seq(Boxes) BY <1>a DEF Boxes
<1>3. j.mark = "end" /\ j.to = to /\ j.stage = "mark" /\ j \in Jobs
  BY <1>b DEF NoJob, Bring, Jobs, Kinds
<1>4. /\ job' = [job EXCEPT ![t] = j] /\ raises' \in Nat
      /\ UNCHANGED <<plan, stores, interrupt, markVars, named, exits>>
      /\ table' = [table EXCEPT !.open = FALSE, !.end = t] /\ awaited' = awaited
  BY <1>0 DEF EndFromThread, to
<1> HIDE DEF j
<1>5. job[t].to = <<>> BY <1>0, Idle
<1>6. job'[t] = j /\ \A b \in All \cup Outside : b # t => job'[b] = job[b]
  BY <1>0, <1>4
<1>7. JobIs(t)' BY <1>1, <1>2, <1>3, <1>a, <1>6 DEF JobIs, At
<1>10. /\ table' \in [open : BOOLEAN, threads : Seq(Threads), end : Threads \cup {NoEnd}]
       /\ awaited' \in SUBSET Threads /\ table'.threads = table.threads
       /\ table'.end = t /\ ~table'.open
  BY <1>0, <1>4 DEF TypeOK
<1>8. EndRecorded' BY <1>0, <1>10 DEF EndRecorded
<1>9. ThreadsKept'
  BY <1>0, <1>1, <1>2, <1>4, <1>10 DEF Inv, ThreadsKept, Alive, At, TypeOK
<1> QED BY <1>0, <1>1, <1>2, <1>3, <1>4, <1>5, <1>7, <1>8, <1>9, <1>10, BeginKeeps

\* The parent's signal and the kill.
LEMMA OutsideBegins ==
  ASSUME Inv, NEW a \in Outside, NEW j \in Jobs, job[a] = NoJob, job' = [job EXCEPT ![a] = j],
         \/ j = [mark |-> "process", to |-> <<Process>>, stage |-> "mark"] /\ plan.raises > 0
         \/ j = [mark |-> "kill", to |-> <<Kill>>, stage |-> "mark"] /\ plan.kill,
         UNCHANGED <<plan, guest, stores, interrupt, markVars, named, tableVars, awaited>>,
         raises' \in Nat
  PROVE  Inv'
<1> USE Names
<1>0. TypeOK /\ job \in [All \cup Outside -> Jobs] BY DEF Inv, TypeOK
<1>1. job[a].to = <<>> /\ j.stage = "mark" /\ a \notin All BY DEF NoJob, Bring
<1>2. job'[a] = j /\ \A b \in All \cup Outside : b # a => job'[b] = job[b]
  BY <1>0
<1>3. JobIs(a)' BY <1>1, <1>2 DEF JobIs
<1>4. EndRecorded'
  BY <1>1, <1>2 DEF Inv, EndRecorded, markVars, tableVars
<1>5. ThreadsKept'
  BY DEF Inv, ThreadsKept, Alive, At, tableVars
<1>6. /\ table' \in [open : BOOLEAN, threads : Seq(Threads), end : Threads \cup {NoEnd}]
      /\ awaited' \in SUBSET Threads /\ exits' = exits
      /\ guest' \in [All -> Guests] /\ \A v \in All : guest'[v] = guest[v]
  BY <1>0 DEF TypeOK, tableVars
<1> QED BY <1>1, <1>3, <1>4, <1>5, <1>6, BeginKeeps

LEMMA RaiseKeeps ==
  ASSUME Inv, Raise
  PROVE  Inv'
<1> DEFINE j == [mark |-> "process", to |-> <<Process>>, stage |-> "mark"]
<1>0. raises \in Nat /\ plan.raises \in Nat BY Names DEF Inv, TypeOK
<1>1. j \in Jobs BY DEF Jobs, Kinds, Boxes
<1>2. /\ job["parent"] = NoJob /\ job' = [job EXCEPT !["parent"] = j]
      /\ plan.raises > 0 /\ raises' \in Nat
      /\ UNCHANGED <<plan, guest, stores, interrupt, markVars, named, tableVars, awaited>>
  <2>1. j = Bring("process", <<Process>>) BY DEF Bring
  <2> HIDE DEF j
  <2> QED BY <1>0, <2>1 DEF Raise
<1> QED BY <1>1, <1>2, OutsideBegins DEF Outside

LEMMA CondemnKeeps ==
  ASSUME Inv, Condemn
  PROVE  Inv'
<1> DEFINE j == [mark |-> "kill", to |-> <<Kill>>, stage |-> "mark"]
<1>0. raises \in Nat BY DEF Inv, TypeOK
<1>1. j \in Jobs BY DEF Jobs, Kinds, Boxes
<1>2. /\ job["killer"] = NoJob /\ job' = [job EXCEPT !["killer"] = j]
      /\ plan.kill /\ raises' \in Nat
      /\ UNCHANGED <<plan, guest, stores, interrupt, markVars, named, tableVars, awaited>>
  <2>1. j = Bring("kill", <<Kill>>) BY DEF Bring
  <2> HIDE DEF j
  <2> QED BY <1>0, <2>1 DEF Condemn
<1> QED BY <1>1, <1>2, OutsideBegins DEF Outside
----------------------------------------------------------------------------
(* Main after its call.                                                    *)

LEMMA MainOverKeeps ==
  ASSUME Inv, MainOver
  PROVE  Inv'
<1> USE Names
<1>0. TypeOK /\ guest \in [All -> Guests] /\ guest[Main].pc = "over"
  BY DEF Inv, TypeOK, MainOver, At
<1>1. PICK g \in Guests : guest' = [guest EXCEPT ![Main] = g] /\ InReads(g) /\ g.pc = "leaving"
  BY GoesTo DEF MainOver, Pcs, Later
<1>2. /\ UNCHANGED <<plan, stores, interrupt, markVars, named, exits, raiseVars>>
      /\ awaited' = awaited
      /\ table' = table \/ table' = [table EXCEPT !.end = NoEnd]
  BY DEF MainOver
<1>3. /\ table' \in [open : BOOLEAN, threads : Seq(Threads), end : Threads \cup {NoEnd}]
      /\ table'.threads = table.threads /\ table'.open = table.open
      /\ awaited' \in SUBSET Threads
  BY <1>0, <1>2 DEF TypeOK
<1>4. guest'[Main] = g /\ \A v \in All : v # Main => guest'[v] = guest[v]
  BY <1>0, <1>1
<1>5. ThreadsKept'
  BY <1>0, <1>1, <1>2, <1>3, <1>4 DEF Inv, ThreadsKept, Alive, At, TypeOK, Later
<1> QED BY <1>0, <1>1, <1>2, <1>3, <1>5, MainKeeps

LEMMA ReportKeeps ==
  ASSUME Inv, Report
  PROVE  Inv'
<1> USE Names
<1>0. TypeOK /\ guest \in [All -> Guests] /\ guest[Main].pc = "awaiting"
  BY DEF Inv, TypeOK, Report, At
<1>1. PICK g \in Guests : guest' = [guest EXCEPT ![Main] = g] /\ InReads(g) /\ g.pc = "reported"
  BY GoesTo DEF Report, Pcs, Later
<1>2. /\ UNCHANGED <<plan, stores, interrupt, markVars, named, exits, raiseVars>>
      /\ awaited' = awaited /\ table' = table /\ awaited \subseteq exits
  BY DEF Report, tableVars
<1>3. /\ table' \in [open : BOOLEAN, threads : Seq(Threads), end : Threads \cup {NoEnd}]
      /\ awaited' \in SUBSET Threads
  BY <1>0, <1>2 DEF TypeOK
<1>4. guest'[Main] = g /\ \A v \in All : v # Main => guest'[v] = guest[v]
  BY <1>0, <1>1
<1>5. ThreadsKept'
  BY <1>0, <1>1, <1>2, <1>3, <1>4 DEF Inv, ThreadsKept, Alive, At, TypeOK, Later
<1> QED BY <1>0, <1>1, <1>2, <1>3, <1>5, MainKeeps

LEMMA CloseKeeps ==
  ASSUME Inv, Close
  PROVE  Inv'
<1> USE Names
<1>0. TypeOK /\ guest \in [All -> Guests] /\ guest[Main].pc = "closing"
      /\ table.threads \in Seq(Threads) /\ job \in [All \cup Outside -> Jobs]
  BY DEF Inv, TypeOK, Close, At
<1>1. PICK g \in Guests : /\ guest' = [guest EXCEPT ![Main] = g] /\ InReads(g)
                          /\ g.pc = IF table.threads = <<>> THEN "awaiting" ELSE "ending"
                          /\ g.look = guest[Main].look /\ g.woken = guest[Main].woken
  BY GoesTo DEF Close, Pcs, Later
<1>2. /\ UNCHANGED <<plan, stores, interrupt, markVars, named, exits, raises>>
      /\ awaited' = ToSet(table.threads)
      /\ table' = [table EXCEPT !.open = FALSE, !.threads = <<>>]
  BY DEF Close
<1>3. /\ table' \in [open : BOOLEAN, threads : Seq(Threads), end : Threads \cup {NoEnd}]
      /\ table'.threads = <<>> /\ ~table'.open
      /\ awaited' \in SUBSET Threads
  <2>1. ToSet(table.threads) \subseteq Threads BY <1>0 DEF ToSet
  <2>2. <<>> \in Seq(Threads) OBVIOUS
  <2>3. /\ table' \in [open : BOOLEAN, threads : Seq(Threads), end : Threads \cup {NoEnd}]
        /\ table'.threads = <<>> /\ ~table'.open
    BY <1>0, <1>2, <2>2 DEF TypeOK
  <2> QED BY <1>2, <2>1, <2>3
<1>4. /\ guest'[Main] = g /\ guest' \in [All -> Guests]
      /\ \A v \in All : v # Main => guest'[v] = guest[v]
  BY <1>0, <1>1
<1>5. ThreadsKept'
  BY <1>0, <1>1, <1>2, <1>3, <1>4 DEF Inv, ThreadsKept, Alive, At, TypeOK, Later
<1>6. CASE table.threads = <<>>
  <2>1. job' = job BY <1>6 DEF Close
  <2> QED BY <1>0, <1>1, <1>2, <1>3, <1>5, <1>6, <2>1, MainKeeps DEF raiseVars
<1>7. CASE table.threads # <<>>
  <2> DEFINE to == table.threads
             j == Bring("end", to)
  <2>1. job' = [job EXCEPT ![Main] = j] BY <1>7 DEF Close
  <2>2. to \in Seq(All) /\ to \in Seq(Boxes) BY <1>0 DEF Boxes
  <2> HIDE DEF to
  <2>3. j.mark = "end" /\ j.to = to /\ j.stage = "mark" /\ j \in Jobs
    BY <2>2 DEF NoJob, Bring, Jobs, Kinds
  <2> HIDE DEF j
  <2>4. job[Main].to = <<>> BY <1>0, Idle
  <2>5. job'[Main] = j BY <1>0, <2>1
  <2>6. JobIs(Main)' BY <1>1, <1>4, <1>7, <2>2, <2>3, <2>5 DEF JobIs, At
  <2>7. EndRecorded' BY <1>1, <1>4, <1>7 DEF EndRecorded, Later
  <2>8. raises' \in Nat BY <1>0, <1>2 DEF TypeOK
  <2>9. guest'[Main].pc = "ending" /\ guest'[Main].look = guest[Main].look
        /\ guest'[Main].woken = guest[Main].woken
    BY <1>1, <1>4, <1>7
  <2>10. UNCHANGED <<plan, stores, interrupt, markVars, named, exits>> BY <1>2
  <2> QED BY <1>0, <1>3, <1>4, <1>5, <2>1, <2>3, <2>4, <2>6, <2>7, <2>8, <2>9, <2>10, BeginKeeps
<1> QED BY <1>6, <1>7
----------------------------------------------------------------------------
(* What is brought: the mark, the wake, the interruption.                  *)

LEMMA HeadsOf ==
  ASSUME NEW S, NEW q \in Seq(S), q # <<>>
  PROVE  Head(q) \in S /\ Tail(q) \in Seq(S)
OBVIOUS

LEMMA StoreMarkKeeps ==
  ASSUME Inv, NEW a \in All \cup Outside, StoreMark(a)
  PROVE  Inv'
<1> USE Names
<1> DEFINE m == Head(job[a].to)
           j == [job[a] EXCEPT !.stage = "wake"]
<1>0. TypeOK /\ job \in [All \cup Outside -> Jobs] /\ job[a] \in Jobs BY DEF Inv, TypeOK
<1>1. job[a].to # <<>> /\ job[a].stage = "mark" /\ JobIs(a)
  BY DEF Inv, JobsAre, StoreMark, Busy
<1>2. j \in Jobs /\ j.to = job[a].to /\ j.mark = job[a].mark /\ j.stage = "wake"
  BY <1>0 DEF Jobs
<1>3. job' = [job EXCEPT ![a] = j] BY <1>0 DEF StoreMark
<1> HIDE DEF j
<1>4. job'[a] = j /\ \A b \in All \cup Outside : b # a => job'[b] = job[b]
  BY <1>0, <1>3
<1>5. /\ ended' = IF job[a].mark = "end" THEN ended \cup {m} ELSE ended
      /\ signalled' = IF job[a].mark = "signal" THEN signalled \cup {m} ELSE signalled
      /\ processSignal' = (processSignal \/ job[a].mark = "process")
      /\ condemned' = (condemned \/ job[a].mark = "kill")
      /\ UNCHANGED <<plan, guest, stores, interrupt, named, table, exits, raises, awaited>>
  BY DEF StoreMark, tableVars
<1>6. /\ job[a].mark \in {"end", "signal"} => m \in All
      /\ job[a].mark = "process" => m = Process
      /\ job[a].mark = "kill" => m = Kill
  <2>1. job[a].mark \in {"end", "signal"} => job[a].to \in Seq(All) BY <1>1 DEF JobIs
  <2>2. job[a].mark \in {"end", "signal"} => m \in All BY <1>1, <2>1, HeadsOf
  <2>3. /\ job[a].mark = "process" => job[a].to = <<Process>>
        /\ job[a].mark = "kill" => job[a].to = <<Kill>>
    BY <1>1 DEF JobIs
  <2> QED BY <2>2, <2>3
<1> HIDE DEF m
<1>7. TypeOK'
  <2>1. job' \in [All \cup Outside -> Jobs] BY <1>0, <1>2, <1>3
  <2>2. /\ ended' \subseteq All /\ signalled' \subseteq All
        /\ processSignal' \in BOOLEAN /\ condemned' \in BOOLEAN
    BY <1>0, <1>5, <1>6 DEF TypeOK
  <2> QED BY <1>0, <1>5, <2>1, <2>2 DEF TypeOK
<1>8. LooksInside'
  BY <1>5 DEF Inv, LooksInside, InReads, Reads
<1>9. JobsAre'
  <2>1. ASSUME NEW b \in All \cup Outside, job'[b].to # <<>>
        PROVE  JobIs(b)'
    <3>1. job'[b].to = job[b].to /\ job'[b].mark = job[b].mark BY <1>2, <1>4
    <3>2. JobIs(b) BY <2>1, <3>1 DEF Inv, JobsAre
    <3> QED BY <1>5, <3>1, <3>2 DEF JobIs, At
  <2> QED BY <2>1 DEF JobsAre
<1>10. MarksPlanned'
  BY <1>1, <1>5 DEF Inv, MarksPlanned, JobIs
<1>11. SpawnsApart' /\ StoresReached'
  BY <1>5 DEF Inv, SpawnsApart, StoresReached, At
<1>12. \A v \in All : \A mark : \A stages \in {{"wake"}, {"wake", "interrupt"}} :
         UnderWay(v, mark, stages) => UnderWay(v, mark, stages)'
  BY <1>1, <1>4 DEF UnderWay, Mailbox
<1>13. ASSUME NEW v \in All, NEW mark \in Owed(v)', mark \notin Owed(v),
              NEW stages \in {{"wake"}, {"wake", "interrupt"}}
       PROVE  UnderWay(v, mark, stages)'
  <2>1. mark \in {"ended", "signal", "process", "kill"} /\ Marked(v, mark)' /\ ~Marked(v, mark)
    BY <1>13 DEF Owed, ToSet, Marks
  <2>2. m = Mailbox(v, mark)
    BY <1>5, <1>6, <2>1 DEF Marked, Mailbox
  <2>3. job'[a].to # <<>> /\ Head(job'[a].to) = Mailbox(v, mark) /\ job'[a].stage \in stages
    BY <1>1, <1>2, <1>4, <1>13, <2>2 DEF m
  <2> QED BY <2>3 DEF UnderWay, Mailbox
<1>14. \A f, mark : Passed(f, mark)' = Passed(f, mark)
  BY <1>5 DEF Passed, Reads
<1>15. WakesAreComing'
  BY <1>5, <1>12, <1>13, <1>14 DEF Inv, WakesAreComing
<1>16. InterruptsAreComing'
  BY <1>5, <1>12, <1>13, <1>14 DEF Inv, InterruptsAreComing, Running
<1>17. EndRecorded'
  <2>1. CASE a \in Threads
    BY <1>1, <1>2, <1>4, <1>5, <2>1 DEF Inv, EndRecorded
  <2>2. CASE a = Main /\ job[a].mark = "end"
    <3>1. guest[Main].pc = "ending" BY <1>1, <2>2 DEF JobIs, At
    <3> QED BY <1>5, <3>1 DEF EndRecorded, Later
  <2>3. CASE a \notin Threads /\ job[a].mark # "end"
    <3>1. ended' = ended BY <1>5, <2>3
    <3> QED BY <1>4, <1>5, <2>3, <3>1 DEF Inv, EndRecorded
  <2>4. a \in Outside => job[a].mark # "end" BY <1>1 DEF JobIs
  <2> QED BY <2>1, <2>2, <2>3, <2>4 DEF All
<1>18. ThreadsKept'
  BY <1>5 DEF Inv, ThreadsKept, Alive, At
<1> QED BY <1>7, <1>8, <1>9, <1>10, <1>11, <1>15, <1>16, <1>17, <1>18 DEF Inv

LEMMA WakeTurnsKeeps ==
  ASSUME Inv, NEW a \in All \cup Outside, WakeTurns(a)
  PROVE  Inv'
<1> USE Names
<1> DEFINE m == Head(job[a].to)
           j == [job[a] EXCEPT !.stage = "interrupt"]
<1>0. /\ TypeOK /\ job \in [All \cup Outside -> Jobs] /\ job[a] \in Jobs
      /\ guest \in [All -> Guests]
  BY DEF Inv, TypeOK
<1>1. job[a].to # <<>> /\ job[a].stage = "wake"
  BY DEF WakeTurns, Busy
<1>2. j \in Jobs /\ j.to = job[a].to /\ j.mark = job[a].mark /\ j.stage = "interrupt"
  BY <1>0 DEF Jobs
<1>3. job' = [job EXCEPT ![a] = j] BY <1>0 DEF WakeTurns
<1> HIDE DEF j
<1>4. job'[a] = j /\ \A b \in All \cup Outside : b # a => job'[b] = job[b]
  BY <1>0, <1>3
<1>5. /\ guest' = [t \in All |-> IF m \in Heard(t) /\ Armed(t)
                                  THEN [guest[t] EXCEPT !.woken = TRUE] ELSE guest[t]]
      /\ UNCHANGED <<plan, stores, interrupt, ended, signalled, processSignal, condemned, named,
                     table, exits, raises, awaited>>
  BY DEF WakeTurns, Broadcast, markVars, tableVars
<1>6. ASSUME NEW t \in All
      PROVE  /\ guest'[t] \in Guests
             /\ guest'[t].pc = guest[t].pc /\ guest'[t].look = guest[t].look
             /\ guest'[t].at = guest[t].at /\ guest'[t].on = guest[t].on
             /\ guest[t].woken => guest'[t].woken
             /\ m \in Heard(t) /\ Armed(t) => guest'[t].woken
  <2> DEFINE g == guest[t]
             h == [g EXCEPT !.woken = TRUE]
  <2>1. g \in Guests /\ guest'[t] = IF m \in Heard(t) /\ Armed(t) THEN h ELSE g
    BY <1>0, <1>5
  <2> HIDE DEF g
  <2>2. /\ h \in Guests /\ h.pc = g.pc /\ h.look = g.look /\ h.at = g.at /\ h.on = g.on
        /\ h.woken
    BY <2>1 DEF Guests
  <2> HIDE DEF h
  <2> QED BY <2>1, <2>2 DEF g
<1>7. TypeOK'
  <2>1. job' \in [All \cup Outside -> Jobs] BY <1>0, <1>2, <1>3
  <2>2. guest' \in [All -> Guests] BY <1>5, <1>6
  <2> QED BY <1>0, <1>5, <2>1, <2>2 DEF TypeOK
<1>8. LooksInside'
  BY <1>5, <1>6 DEF Inv, LooksInside, InReads, Reads
<1>9. JobsAre'
  <2>1. ASSUME NEW b \in All \cup Outside, job'[b].to # <<>>
        PROVE  JobIs(b)'
    <3>1. job'[b].to = job[b].to /\ job'[b].mark = job[b].mark BY <1>2, <1>4
    <3>2. JobIs(b) BY <2>1, <3>1 DEF Inv, JobsAre
    <3> QED BY <1>5, <1>6, <3>1, <3>2 DEF JobIs, At
  <2> QED BY <2>1 DEF JobsAre
<1>10. MarksPlanned'
  BY <1>5 DEF Inv, MarksPlanned
<1>11. SpawnsApart'
  <2>1. \A t \in Threads : t \in All OBVIOUS
  <2> QED BY <1>6, <2>1 DEF Inv, SpawnsApart, At
<1>12. StoresReached'
  BY <1>5, <1>6 DEF Inv, StoresReached
<1>13. \A v \in All : Owed(v)' = Owed(v)
  BY <1>5 DEF Owed, Marked
<1>14. ASSUME NEW v \in All, NEW mark, Passed(guest[v], mark)'
       PROVE  Passed(guest[v], mark) /\ Armed(v) /\ (Running(guest[v])' => Running(guest[v]))
  BY <1>5, <1>6, <1>14 DEF Passed, Reads, Running, Armed, Turning
<1>15. WakesAreComing'
  <2> SUFFICES ASSUME NEW v \in All, NEW mark \in Owed(v), Passed(guest[v], mark)'
               PROVE  guest'[v].woken \/ UnderWay(v, mark, {"wake"})'
    BY <1>13 DEF WakesAreComing
  <2>1. Passed(guest[v], mark) /\ Armed(v) BY <1>14
  <2>2. guest[v].woken \/ UnderWay(v, mark, {"wake"}) BY <2>1 DEF Inv, WakesAreComing
  <2>3. CASE guest[v].woken BY <1>6, <2>3
  <2>4. CASE UnderWay(v, mark, {"wake"})
    <3>1. PICK b \in All \cup Outside :
            job[b].to # <<>> /\ Head(job[b].to) = Mailbox(v, mark) /\ job[b].stage \in {"wake"}
      BY <2>4 DEF UnderWay
    <3>2. CASE b = a
      <4>1. m \in Heard(v) BY <3>1, <3>2 DEF Heard, Mailbox
      <4> QED BY <1>6, <2>1, <4>1
    <3>3. CASE b # a
      <4>1. job'[b] = job[b] BY <1>4, <3>3
      <4> QED BY <3>1, <4>1 DEF UnderWay, Mailbox
    <3> QED BY <3>2, <3>3
  <2> QED BY <2>2, <2>3, <2>4
<1>16. InterruptsAreComing'
  <2>1. \A v \in All : \A mark :
          UnderWay(v, mark, {"wake", "interrupt"}) => UnderWay(v, mark, {"wake", "interrupt"})'
    BY <1>2, <1>4 DEF UnderWay, Mailbox
  <2> QED BY <1>5, <1>13, <1>14, <2>1 DEF Inv, InterruptsAreComing
<1>17. EndRecorded'
  BY <1>2, <1>4, <1>5, <1>6 DEF Inv, EndRecorded
<1>18. ThreadsKept'
  BY <1>0, <1>5, <1>6 DEF Inv, ThreadsKept, Alive, At, TypeOK
<1> QED BY <1>7, <1>8, <1>9, <1>10, <1>11, <1>12, <1>15, <1>16, <1>17, <1>18 DEF Inv
LEMMA InterruptStoresKeeps ==
  ASSUME Inv, NEW a \in All \cup Outside, InterruptStores(a)
  PROVE  Inv'
<1> USE Names
<1> DEFINE m == Head(job[a].to)
           left == Tail(job[a].to)
           j == IF left = <<>> THEN NoJob ELSE [job[a] EXCEPT !.to = left, !.stage = "mark"]
<1>0. /\ TypeOK /\ job \in [All \cup Outside -> Jobs] /\ job[a] \in Jobs
      /\ guest \in [All -> Guests]
  BY DEF Inv, TypeOK
<1>1. job[a].to # <<>> /\ job[a].stage = "interrupt" /\ JobIs(a)
  BY DEF Inv, JobsAre, InterruptStores, Busy
<1>2. /\ job' = [job EXCEPT ![a] = j] /\ GoesOn(a, left)
      /\ interrupt' = IF HasTarget(m) THEN stores ELSE interrupt
      /\ UNCHANGED <<plan, stores, ended, signalled, processSignal, condemned, named,
                     table, exits, raises, awaited>>
  BY <1>0 DEF InterruptStores, markVars, tableVars
<1>3. left \in Seq(Boxes) /\ (job[a].mark \in {"signal", "end"} => left \in Seq(All))
  <2>1. job[a].to \in Seq(Boxes) BY <1>0 DEF Jobs
  <2>2. job[a].mark \in {"signal", "end"} => job[a].to \in Seq(All) BY <1>1 DEF JobIs
  <2> QED BY <1>1, <2>1, <2>2, HeadsOf
<1>4. a \in Outside => left = <<>>
  <2>1. a \in Outside => job[a].to = <<Process>> \/ job[a].to = <<Kill>> BY <1>1 DEF JobIs
  <2>2. Tail(<<Process>>) = <<>> /\ Tail(<<Kill>>) = <<>> OBVIOUS
  <2> QED BY <2>1, <2>2
<1>5. /\ j \in Jobs /\ j.to = left
      /\ j.to # <<>> => j.mark = job[a].mark /\ j.stage = "mark" /\ a \in All
  <2> HIDE DEF left
  <2>1. CASE left = <<>>
    BY <2>1 DEF NoJob, Bring, Jobs, Kinds
  <2>2. CASE left # <<>>
    <3> DEFINE f == job[a]
    <3>1. f \in Jobs /\ j = [f EXCEPT !.to = left, !.stage = "mark"] BY <1>0, <2>2
    <3> HIDE DEF f, j
    <3>2. j \in Jobs /\ j.to = left /\ j.mark = f.mark /\ j.stage = "mark"
      BY <1>3, <3>1 DEF Jobs
    <3> QED BY <1>4, <2>2, <3>2 DEF f
  <2> QED BY <2>1, <2>2
<1> HIDE DEF j
<1>6. job'[a] = j /\ \A b \in All \cup Outside : b # a => job'[b] = job[b]
  BY <1>0, <1>2
<1>7. /\ guest' \in [All -> Guests]
      /\ \A v \in All : v # a => guest'[v] = guest[v]
      /\ \/ a \in All /\ left = <<>> /\ guest'[a].look = guest[a].look
            /\ guest'[a].woken = guest[a].woken
            /\ \/ guest[a].pc = "raising" /\ guest'[a].pc = "run"
               \/ guest[a].pc = "ending" /\ a = Main /\ guest'[a].pc = "awaiting"
               \/ guest[a].pc = "ending" /\ a # Main /\ guest'[a].pc = "leaving"
         \/ guest' = guest /\ (a \in All => left # <<>>)
  <2> HIDE DEF left
  <2>1. CASE a \in All /\ left = <<>>
    <3>1. guest[a].pc \in {"raising", "ending"} BY <1>1, <2>1 DEF JobIs, At
    <3> DEFINE p == IF guest[a].pc = "raising" THEN "run"
                    ELSE IF a = Main THEN "awaiting" ELSE "leaving"
    <3>2. Goes(a, p) BY <1>2, <2>1, <3>1 DEF GoesOn, At
    <3>3. p \in Pcs BY DEF Pcs, Turning, Later
    <3> HIDE DEF p
    <3>4. PICK g \in Guests : /\ guest' = [guest EXCEPT ![a] = g] /\ g.pc = p
                              /\ g.look = guest[a].look /\ g.woken = guest[a].woken
      BY <2>1, <3>2, <3>3, GoesTo
    <3>5. guest'[a] = g /\ guest' \in [All -> Guests] /\ \A v \in All : v # a => guest'[v] = guest[v]
      BY <1>0, <2>1, <3>4
    <3> QED BY <2>1, <3>1, <3>4, <3>5 DEF p
  <2>2. CASE ~(a \in All /\ left = <<>>)
    BY <1>0, <1>2, <2>2 DEF GoesOn
  <2> QED BY <2>1, <2>2
<1>8. TypeOK'
  <2>1. job' \in [All \cup Outside -> Jobs] BY <1>0, <1>2, <1>5
  <2>2. interrupt' \subseteq All BY <1>0, <1>2 DEF TypeOK
  <2> QED BY <1>0, <1>2, <1>7, <2>1, <2>2 DEF TypeOK
<1>9. LooksInside'
  BY <1>2, <1>7 DEF Inv, LooksInside, InReads, Reads
<1>10. JobsAre'
  <2>1. ASSUME NEW b \in All \cup Outside, b # a, job'[b].to # <<>>
        PROVE  JobIs(b)'
    <3>1. JobIs(b) /\ job'[b] = job[b] BY <1>6, <2>1 DEF Inv, JobsAre
    <3> QED BY <1>2, <1>7, <2>1, <3>1 DEF JobIs, At
  <2>2. ASSUME job'[a].to # <<>>
        PROVE  JobIs(a)'
    <3>1. /\ a \in All /\ left # <<>> /\ job'[a].mark = job[a].mark /\ job'[a].to = left
      BY <1>5, <1>6, <2>2
    <3>2. guest' = guest BY <1>7, <3>1
    <3> QED BY <1>1, <1>2, <1>3, <3>1, <3>2 DEF JobIs, At
  <2> QED BY <2>1, <2>2 DEF JobsAre
<1>11. MarksPlanned'
  BY <1>2 DEF Inv, MarksPlanned
<1>12. SpawnsApart'
  <2>1. \A v \in All : guest'[v].pc = "spawning" => guest'[v] = guest[v]
    BY <1>7
  <2>2. \A v \in All : guest[v].pc = "admitted" => guest'[v].pc = "admitted"
    BY <1>7
  <2> QED BY <2>1, <2>2 DEF Inv, SpawnsApart, At
<1>13. StoresReached'
  BY <1>2, <1>7 DEF Inv, StoresReached, Turning
<1>14. \A v \in All : Owed(v)' = Owed(v)
  BY <1>2 DEF Owed, Marked
<1>15. \A v \in All : \A mark : Passed(guest[v], mark)' =>
         /\ Passed(guest[v], mark) /\ guest'[v].woken = guest[v].woken
         /\ Running(guest[v])' => Running(guest[v])
  BY <1>2, <1>7 DEF Passed, Reads, Running, Turning
<1>16. WakesAreComing'
  <2>1. \A v \in All : \A mark : UnderWay(v, mark, {"wake"}) => UnderWay(v, mark, {"wake"})'
    BY <1>1, <1>6 DEF UnderWay, Mailbox
  <2> QED BY <1>14, <1>15, <2>1 DEF Inv, WakesAreComing
<1>17. InterruptsAreComing'
  <2> SUFFICES ASSUME NEW v \in All, NEW mark \in Owed(v),
                      Passed(guest[v], mark)', Running(guest[v])'
               PROVE  v \in interrupt' \/ UnderWay(v, mark, {"wake", "interrupt"})'
    BY <1>14 DEF InterruptsAreComing
  <2>1. Passed(guest[v], mark) /\ Running(guest[v]) BY <1>15
  <2>2. v \in stores /\ v \in named
    BY <2>1 DEF Inv, StoresReached, Passed, Turning
  <2>3. v \in interrupt \/ UnderWay(v, mark, {"wake", "interrupt"})
    BY <2>1 DEF Inv, InterruptsAreComing
  <2>4. CASE v \in interrupt BY <1>2, <2>2, <2>4
  <2>5. CASE UnderWay(v, mark, {"wake", "interrupt"})
    <3>1. PICK b \in All \cup Outside :
            /\ job[b].to # <<>> /\ Head(job[b].to) = Mailbox(v, mark)
            /\ job[b].stage \in {"wake", "interrupt"}
      BY <2>5 DEF UnderWay
    <3>2. CASE b = a
      <4>1. HasTarget(m) BY <2>2, <3>1, <3>2 DEF HasTarget, Mailbox
      <4> QED BY <1>2, <2>2, <4>1
    <3>3. CASE b # a
      <4>1. job'[b] = job[b] BY <1>6, <3>3
      <4> QED BY <3>1, <4>1 DEF UnderWay, Mailbox
    <3> QED BY <3>2, <3>3
  <2> QED BY <2>3, <2>4, <2>5
<1>18. EndRecorded'
  <2>1. \A b \in Threads : job'[b].to # <<>> => job[b].to # <<>> /\ job'[b].mark = job[b].mark
    BY <1>1, <1>5, <1>6
  <2>2. guest[Main].pc \in Later => guest'[Main].pc \in Later
    BY <1>7 DEF Later
  <2> QED BY <1>2, <2>1, <2>2 DEF Inv, EndRecorded
<1>19. ThreadsKept'
  <2>1. ThreadsKept BY DEF Inv
  <2>2. \A u \in exits' : At(u, "published")'
    BY <1>0, <1>2, <1>7, <2>1 DEF ThreadsKept, At, TypeOK
  <2>3. \A u \in Threads : Alive(u)' => Alive(u)
    BY <1>7 DEF Alive
  <2>4. /\ guest[Main].pc \in {"ending", "awaiting", "reported"}
             <=> guest'[Main].pc \in {"ending", "awaiting", "reported"}
        /\ guest'[Main].pc = "reported" => guest[Main].pc = "reported"
        /\ guest'[Main].pc \in Turning \cup Later \cup {"over"}
    BY <1>7, <2>1 DEF ThreadsKept, Turning, Later
  <2> QED BY <1>2, <2>1, <2>2, <2>3, <2>4 DEF ThreadsKept, At
<1> QED
  BY <1>8, <1>9, <1>10, <1>11, <1>12, <1>13, <1>16, <1>17, <1>18, <1>19 DEF Inv
----------------------------------------------------------------------------
(* The invariant, and what follows from it.                                *)

LEMMA StutterInv ==
  ASSUME Inv, UNCHANGED vars
  PROVE  Inv'
<1>1. TypeOK' /\ LooksInside' /\ MarksPlanned'
  BY DEF Inv, TypeOK, LooksInside, InReads, Reads, MarksPlanned, vars
<1>2. JobsAre' /\ SpawnsApart' /\ StoresReached'
  BY DEF Inv, JobsAre, JobIs, SpawnsApart, StoresReached, At, vars
<1>3. \A v \in All : Owed(v)' = Owed(v) BY DEF Owed, Marked, vars
<1>4. \A v \in All : \A mark, stages : UnderWay(v, mark, stages)' = UnderWay(v, mark, stages)
  BY DEF UnderWay, vars
<1>5. \A f, mark : Passed(f, mark)' = Passed(f, mark) BY DEF Passed, Reads, vars
<1>6. WakesAreComing' /\ InterruptsAreComing'
  BY <1>3, <1>4, <1>5 DEF Inv, WakesAreComing, InterruptsAreComing, Running, vars
<1>7. EndRecorded' /\ ThreadsKept'
  BY DEF Inv, EndRecorded, ThreadsKept, Alive, At, vars
<1> QED BY <1>1, <1>2, <1>6, <1>7 DEF Inv

LEMMA NextInv ==
  ASSUME Inv, [Next]_vars
  PROVE  Inv'
<1>1. ASSUME NEW t \in All, TurnStep(t) PROVE Inv'
  BY <1>1, FindsKeeps, FindsNothingKeeps, ResumesKeeps, SuspendedKeeps, CompletesKeeps,
     PollWaitsKeeps, NextCallKeeps DEF TurnStep
<1>2. ASSUME NEW t \in All, LifeStep(t) PROVE Inv'
  BY <1>2, RegisterKeeps, AttachProcessKeeps, NameTargetKeeps, AttachedKeeps, EndKeeps,
     EndFromThreadKeeps, DropStoreKeeps, PublishKeeps DEF LifeStep
<1>3. ASSUME NEW t \in All, Runs(t) PROVE Inv'
  BY <1>3, TimeSliceKeeps, SuspendKeeps, ReturnKeeps, UnwindKeeps, SpawnKeeps,
     ThreadSignalKeeps DEF Runs
<1>4. ASSUME NEW a \in All \cup Outside, JobStep(a) PROVE Inv'
  BY <1>4, StoreMarkKeeps, WakeTurnsKeeps, InterruptStoresKeeps DEF JobStep
<1>5. ASSUME MainStep PROVE Inv'
  BY <1>5, MainOverKeeps, CloseKeeps, ReportKeeps DEF MainStep
<1> QED
  BY <1>1, <1>2, <1>3, <1>4, <1>5, WakeKeeps, OnInterruptKeeps, SpawnedKeeps,
     SpawnRefusedKeeps, RaiseKeeps, CondemnKeeps, StutterInv DEF Next

\* A stop is never slept through nor outrun (turn.rs): from the two parts of the
\* invariant that say what is behind a mark a turn has passed.
LEMMA InvStops == Inv => StopsAreComing
<1> SUFFICES ASSUME Inv, NEW t \in All, NEW mark \in Owed(t)
             PROVE  /\ At(t, "parked") => guest[t].woken \/ UnderWay(t, mark, {"wake"})
                    /\ At(t, "run") => t \in interrupt \/ UnderWay(t, mark, {"wake", "interrupt"})
  BY DEF StopsAreComing
<1>1. At(t, "parked") \/ At(t, "run") => Passed(guest[t], mark)
  BY DEF Passed, At, Turning
<1>2. At(t, "run") => Running(guest[t]) BY DEF Running, At
<1> QED BY <1>1, <1>2 DEF Inv, WakesAreComing, InterruptsAreComing

\* A call that the process's end stopped is one whose mailbox carries the end,
\* which stays there.
EndsMarked == \A t \in All : guest[t].result = "ended" => t \in ended

\* The steps that leave every result as it is.
LEMMA ResultsKept ==
  ASSUME Inv, EndsMarked, \A t \in All : guest'[t].result \in {guest[t].result, "none"},
         ended \subseteq ended'
  PROVE  EndsMarked'
BY DEF EndsMarked

LEMMA TurnResults ==
  ASSUME Inv, EndsMarked, NEW t \in All, TurnStep(t) \/ Wake(t) \/ OnInterrupt(t)
  PROVE  EndsMarked'
<1>0. guest \in [All -> Guests] /\ guest[t] \in Guests BY DEF Inv, TypeOK
<1>1. CASE Finds(t)
  <2> DEFINE mark == Reads[guest[t].look]
  <2>1. Marked(t, mark) /\ ended' = ended BY <1>1 DEF Finds
  <2>2. \A v \in All : v # t => guest'[v] = guest[v] BY <1>0, <1>1 DEF Finds
  <2>3. guest'[t].result = mark
    BY <1>0, <1>1 DEF Finds, Looks, Leaves, Guests
  <2> HIDE DEF mark
  <2>4. mark = "ended" => t \in ended BY <2>1 DEF Marked
  <2> QED BY <2>1, <2>2, <2>3, <2>4 DEF EndsMarked
<1>2. CASE FindsNothing(t)
  BY <1>0, <1>2, ResultsKept DEF FindsNothing, Guests, markVars
<1>3. CASE Resumes(t)
  BY <1>0, <1>3, ResultsKept DEF Resumes, Leaves, Guests, markVars
<1>4. CASE StaysSuspended(t)
  BY <1>0, <1>4, ResultsKept DEF StaysSuspended, Leaves, Guests, markVars
<1>5. CASE Yields(t)
  BY <1>0, <1>5, ResultsKept DEF Yields, Leaves, Guests, markVars
<1>6. CASE Completes(t)
  BY <1>0, <1>6, ResultsKept DEF Completes, Leaves, Guests, markVars
<1>7. CASE PollWaits(t)
  BY <1>0, <1>7, ResultsKept DEF PollWaits, Looks, Guests, markVars
<1>8. CASE NextCall(t)
  BY <1>0, <1>8, ResultsKept DEF NextCall, Driving, markVars
<1>9. CASE Wake(t)
  BY <1>0, <1>9, ResultsKept DEF Wake, Looks, Guests, markVars
<1>10. CASE OnInterrupt(t)
  BY <1>0, <1>10, ResultsKept DEF OnInterrupt, Looks, Guests, markVars
<1> QED
  BY <1>1, <1>2, <1>3, <1>4, <1>5, <1>6, <1>7, <1>8, <1>9, <1>10 DEF TurnStep

LEMMA LifeResults ==
  ASSUME Inv, EndsMarked, NEW t \in All, LifeStep(t)
  PROVE  EndsMarked'
<1>0. guest \in [All -> Guests] /\ guest[t] \in Guests BY DEF Inv, TypeOK
<1>1. CASE Attached(t)
  BY <1>0, <1>1, ResultsKept DEF Attached, Driving, markVars
<1>2. CASE \E p \in Pcs : Goes(t, p) /\ ended' = ended
  BY <1>0, <1>2, ResultsKept DEF Goes, Guests
<1>3. LifeStep(t) => Attached(t) \/ \E p \in Pcs : Goes(t, p) /\ ended' = ended
  BY DEF LifeStep, Register, AttachProcess, NameTarget, EndThread, EndFromThread, EndDropped,
         DropStore, Publish, markVars, Pcs, Later
<1> QED BY <1>1, <1>2, <1>3
LEMMA RunResults ==
  ASSUME Inv, EndsMarked, NEW t \in All, Runs(t) \/ Spawned(t) \/ SpawnRefused(t)
  PROVE  EndsMarked'
<1>0. guest \in [All -> Guests] /\ guest[t] \in Guests BY DEF Inv, TypeOK
<1>1. CASE TimeSlice(t)
  BY <1>1, ResultsKept DEF TimeSlice, markVars
<1>2. CASE Suspend(t)
  BY <1>0, <1>2, ResultsKept DEF Suspend, Guests, markVars
<1>3. CASE Return(t) \/ Unwind(t)
  <2>1. /\ guest'[t].result # "ended" /\ ended' = ended
        /\ \A v \in All : v # t => guest'[v] = guest[v]
    <3>1. CASE Return(t)
      <4>1. PICK r \in {"returns", "ends"} :
              guest' = [guest EXCEPT ![t] = [Looks(t, "complete") EXCEPT !.result = r]]
        BY <3>1 DEF Return
      <4>2. guest'[t].result = r BY <1>0, <4>1 DEF Looks, Guests
      <4> QED BY <1>0, <3>1, <4>1, <4>2 DEF Return, markVars
    <3>2. CASE Unwind(t)
      <4>1. guest' = [guest EXCEPT ![t] =
                        [Looks(t, "complete") EXCEPT !.result = "returns", !.unwound = TRUE]]
        BY <3>2 DEF Unwind
      <4>2. guest'[t].result = "returns" BY <1>0, <4>1 DEF Looks, Guests
      <4> QED BY <1>0, <3>2, <4>1, <4>2 DEF Unwind, markVars
    <3> QED BY <1>3, <3>1, <3>2
  <2> QED BY <2>1 DEF EndsMarked
<1>4. ASSUME NEW u \in Threads, Spawn(t, u) PROVE EndsMarked'
  <2>1. u \in All /\ guest[u] \in Guests BY <1>0, Names
  <2>2. \A v \in All : guest'[v].result = guest[v].result
    BY <1>0, <1>4, <2>1 DEF Spawn, Guests
  <2> QED BY <1>4, <2>2, ResultsKept DEF Spawn, markVars
<1>5. ASSUME NEW u \in Threads, ThreadSignal(t, u) PROVE EndsMarked'
  BY <1>0, <1>5, ResultsKept DEF ThreadSignal, Goes, Guests, markVars
<1>6. CASE Spawned(t) \/ SpawnRefused(t)
  <2>1. guest[t].on \in All /\ guest[guest[t].on] \in Guests
    BY <1>0, <1>6, Names DEF Inv, SpawnsApart, Spawned, SpawnRefused, At
  <2>2. \A v \in All : guest'[v].result = guest[v].result
    <3>1. PICK p \in {"launched", "published"} :
            guest' = [guest EXCEPT ![t] = Returned(t), ![guest[t].on].pc = p]
      BY <1>6 DEF Spawned, SpawnRefused
    <3>2. Returned(t).result = guest[t].result BY <1>0 DEF Returned, Guests
    <3>3. t # guest[t].on BY <1>6 DEF Inv, SpawnsApart, Spawned, SpawnRefused, At
    <3>4. guest'[t] = Returned(t) /\ guest'[guest[t].on].result = guest[guest[t].on].result
      BY <1>0, <2>1, <3>1, <3>3 DEF Guests
    <3> QED BY <1>0, <2>1, <3>1, <3>2, <3>3, <3>4
  <2> QED BY <1>6, <2>2, ResultsKept DEF Spawned, SpawnRefused, markVars
<1> QED BY <1>1, <1>2, <1>3, <1>4, <1>5, <1>6 DEF Runs

LEMMA OtherResults ==
  ASSUME Inv, EndsMarked,
         \/ \E a \in All \cup Outside : JobStep(a)
         \/ Raise \/ Condemn \/ MainStep \/ UNCHANGED vars
  PROVE  EndsMarked'
<1>0. guest \in [All -> Guests] BY DEF Inv, TypeOK
<1>1. ASSUME NEW a \in All \cup Outside, StoreMark(a) PROVE EndsMarked'
  BY <1>1, ResultsKept DEF StoreMark
<1>2. ASSUME NEW a \in All \cup Outside, WakeTurns(a) PROVE EndsMarked'
  <2>1. \A v \in All : guest'[v].result = guest[v].result
    BY <1>0, <1>2 DEF WakeTurns, Broadcast, Guests
  <2> QED BY <1>2, <2>1, ResultsKept DEF WakeTurns, markVars
<1>3. ASSUME NEW a \in All \cup Outside, InterruptStores(a) PROVE EndsMarked'
  <2>1. \A v \in All : guest'[v].result = guest[v].result
    BY <1>0, <1>3 DEF InterruptStores, GoesOn, Goes, Guests
  <2> QED BY <1>3, <2>1, ResultsKept DEF InterruptStores, markVars
<1>4. CASE Raise \/ Condemn \/ UNCHANGED vars
  BY <1>4, ResultsKept DEF Raise, Condemn, vars, markVars
<1>5. CASE MainStep
  <2>1. \A v \in All : guest'[v].result = guest[v].result
    BY <1>0, <1>5 DEF MainStep, MainOver, Close, Report, Goes, Guests
  <2>2. ended' = ended
    BY <1>5 DEF MainStep, MainOver, Close, Report, markVars
  <2> QED BY <2>1, <2>2, ResultsKept
<1> QED BY <1>1, <1>2, <1>3, <1>4, <1>5 DEF JobStep

LEMMA NextEndsMarked ==
  ASSUME Inv, EndsMarked, [Next]_vars
  PROVE  EndsMarked'
BY TurnResults, LifeResults, RunResults, OtherResults DEF Next

\* No thread outlives its process, and main stops on a recorded end.
LEMMA InvEnds == Inv /\ EndsMarked => EndsWhole
<1> SUFFICES ASSUME Inv, EndsMarked PROVE EndsWhole
  OBVIOUS
<1> USE Names
<1>1. ASSUME Reported, NEW t \in Threads
      PROVE  guest[t].pc \in {"none", "published"}
  <2>1. At(Main, "reported") BY <1>1 DEF Reported, At
  <2>2. table.threads = <<>> /\ awaited \subseteq exits
    BY <2>1 DEF Inv, ThreadsKept, At
  <2>3. ToSet(table.threads) = {} BY <2>2 DEF ToSet
  <2>4. Alive(t) => t \in exits BY <2>2, <2>3 DEF Inv, ThreadsKept
  <2> QED BY <2>4 DEF Inv, ThreadsKept, Alive, At
<1>2. ASSUME At(Main, "over"), MetTheEnd(Main)
      PROVE  table.end \in Threads
  <2>1. Main \in ended BY <1>2 DEF MetTheEnd, EndsMarked
  <2> QED BY <1>2, <2>1 DEF Inv, EndRecorded, At, Later
<1> QED BY <1>1, <1>2 DEF EndsWhole

\* For any threads and any plan, a guest that is suspended with a stop marked has
\* a wake behind it or under way, and one that runs an interruption (the waits
\* and the callback of component/turn.rs, the marks of descriptor.rs).
THEOREM StopsArrive == Spec => []StopsAreComing
<1>1. Init => Inv BY InitInv
<1>2. Inv /\ [Next]_vars => Inv' BY NextInv
<1>3. Inv => StopsAreComing BY InvStops
<1> QED BY <1>1, <1>2, <1>3, PTL DEF Spec

\* For any threads and any plan, a process whose end is reported has no thread
\* left, and main stops on its mailbox's end only with a recorded end to take
\* (finish_core_module_process and run_core_module_image of exec.rs).
THEOREM EndsAreWhole == Spec => []EndsWhole
<1>1. Init => Inv /\ EndsMarked
  <2>1. ASSUME Init PROVE EndsMarked
    BY <2>1 DEF Init, EndsMarked, Driving, NotYet
  <2> QED BY <2>1, InitInv
<1>2. Inv /\ EndsMarked /\ [Next]_vars => Inv' /\ EndsMarked' BY NextInv, NextEndsMarked
<1>3. Inv /\ EndsMarked => EndsWhole BY InvEnds
<1> QED BY <1>1, <1>2, <1>3, PTL DEF Spec
=============================================================================
