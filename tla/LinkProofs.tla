----------------------------- MODULE LinkProofs -----------------------------
(* What MCLink checks on a few messages, sessions and networks holds for    *)
(* any number of them: the sealed link from the handshake to the session,   *)
(* the negotiation of media, the captured screen, discovery and the state   *)
(* an external viewer is shown in.  Each part has an invariant of its own,  *)
(* and a step of the whole is a step of one of them.                        *)
EXTENDS MCLink, SequenceTheorems, TLAPS

-----------------------------------------------------------------------------
(* External viewers.                                                       *)

EngineInv ==
    /\ startAt = "looking" => child = "none"
    /\ child = "alive" => told \in {"starting", "running"}
    /\ child \in {"none", "alive", "unborn", "gone"}
    /\ stopping \in BOOLEAN /\ fatal \in BOOLEAN

LEMMA EngineInitInv == EngineInit => EngineInv
BY DEF EngineInit, EngineInv

LEMMA EngineKeeps ==
    ASSUME EngineInv, [EngineNext]_engineVars
    PROVE  EngineInv'
<1> USE DEF EngineInv
<1>1. CASE UNCHANGED engineVars
    BY <1>1 DEF engineVars
<1>2. CASE NotFound \/ NotPlanned \/ SpawnError \/ HangTimer \/ Settles
    BY <1>2 DEF NotFound, NotPlanned, SpawnError, HangTimer, Settles
<1>3. ASSUME NEW ok \in BOOLEAN, NEW d \in BOOLEAN, Spawn(ok, d) PROVE EngineInv'
    BY <1>3 DEF Spawn
<1>4. CASE Reports
    BY <1>4 DEF Reports
<1>5. ASSUME NEW clean, Exit(clean) PROVE EngineInv'
    BY <1>5 DEF Exit
<1>6. CASE Stops
    BY <1>6 DEF Stops, Stop
<1>7. CASE KillTimer
    BY <1>7 DEF KillTimer
<1>8. CASE Tick
    BY <1>8 DEF Tick
<1> QED
    BY <1>1, <1>2, <1>3, <1>4, <1>5, <1>6, <1>7, <1>8 DEF EngineNext, Obeys

LEMMA NoStepLies ==
    ASSUME EngineInv, [EngineNext]_engineVars
    PROVE  /\ told = "failed" /\ told' = "running" => child = "unborn"
           /\ fatal => told' # "running" \/ told = "running"
           /\ stopCalled /\ stopping /\ child = "alive" => told' # "failed" \/ told = "failed"
<1> USE DEF EngineInv
<1>1. CASE told' = told
    BY <1>1
<1>2. CASE NotFound \/ NotPlanned \/ SpawnError
    BY <1>2 DEF NotFound, NotPlanned, SpawnError
<1>3. ASSUME NEW ok \in BOOLEAN, NEW d \in BOOLEAN, Spawn(ok, d) PROVE told' = "starting"
    BY <1>3 DEF Spawn
<1>4. ASSUME NEW clean, Exit(clean)
      PROVE  told' \in {"exited", "failed"} /\ (stopping => told' = "exited")
    BY <1>4 DEF Exit
<1>5. CASE KillTimer
    BY <1>5 DEF KillTimer
<1>6. CASE Settles
    BY <1>6 DEF Settles
<1>7. UNCHANGED engineVars \/ Reports \/ HangTimer \/ Stops \/ Tick => told' = told
    BY DEF engineVars, Reports, HangTimer, Stops, Stop, Tick
<1> QED
    BY <1>1, <1>2, <1>3, <1>4, <1>5, <1>6, <1>7 DEF EngineNext, Obeys

-----------------------------------------------------------------------------
(* Searches.                                                               *)

(* Queries leave by networks this computer is on, and the one answer to a  *)
(* query is given by a host that announces itself, on the network it came  *)
(* by.                                                                     *)
DiscoveryInv ==
    /\ up \in [Machine -> {"no", "yes", "leaving"}]
    /\ mine # {} => route \in mine
    /\ toLeave \subseteq {Default} \cup mine
    /\ reached \subseteq mine
    /\ \A h \in Machine : up[h] = "yes" => h \notin silent
    /\ \A a \in replies \cup found : a.address \in mine /\ a.of \notin silent

LEMMA DiscoveryInitInv == DiscoveryInit => DiscoveryInv
BY DEF DiscoveryInit, DiscoveryInv

LEMMA DiscoveryKeeps ==
    ASSUME DiscoveryInv, [DiscoveryNext]_discoveryVars
    PROVE  DiscoveryInv'
<1> USE DEF DiscoveryInv
<1>1. CASE UNCHANGED discoveryVars
    BY <1>1 DEF discoveryVars, hosts, place, asking
<1>2. ASSUME NEW h \in Machine, Starts(h) \/ SaysGoodbye(h) \/ Gone(h)
      PROVE  DiscoveryInv'
    BY <1>2 DEF Starts, SaysGoodbye, Gone, place, asking
<1>3. ASSUME NEW h \in Machine, NEW to \in SUBSET Net, Moves(h, to)
      PROVE  DiscoveryInv'
    BY <1>3 DEF Moves, place, asking
<1>4. ASSUME NEW h \in Machine, NEW n \in Net, Responds(h, n)
      PROVE  DiscoveryInv'
    BY <1>4 DEF Responds, MayAnswer, AddressFor, hosts, place, asking
<1>5. ASSUME NEW who, Find(who) PROVE DiscoveryInv'
    BY <1>5 DEF Find, hosts, place
<1>6. CASE Bound \/ BindFails \/ Timer
    BY <1>6 DEF Bound, BindFails, Timer, hosts, place
<1>7. ASSUME NEW i, Leaves(i) PROVE DiscoveryInv'
    BY <1>7 DEF Leaves, hosts, place
<1>8. ASSUME NEW s, SecondQuery(s) PROVE DiscoveryInv'
    BY <1>8 DEF SecondQuery, hosts, place
<1>9. ASSUME NEW a, Hears(a) PROVE DiscoveryInv'
    BY <1>9 DEF Hears, Assembled, Collected, hosts, place
<1> QED
    BY <1>1, <1>2, <1>3, <1>4, <1>5, <1>6, <1>7, <1>8, <1>9 DEF DiscoveryNext, SearchGoesOn

-----------------------------------------------------------------------------
(* The screen that sessions share.                                         *)

Active == {"capturing", "constraining", "replacing"}
Places == {"none", "describing", "capturing", "constraining", "placing", "ready", "failed",
           "closed", "orphan"}

ScreenTypes ==
    /\ taken \in Nat /\ capture \in 0..taken /\ live \subseteq 1..taken
    /\ at \in [Watcher -> Places] /\ sends \in [Watcher -> Nat] /\ got \in [Watcher -> Nat]
    /\ change \in [Switcher -> {"none", "done"} \cup Active]
    /\ old \in [Switcher -> 0..taken] /\ fresh \in [Switcher -> 0..taken]
    /\ todo \in [Switcher -> SUBSET Watcher]
    /\ raced \in BOOLEAN /\ overtaken \subseteq Watcher

(* Who waits for the screen waits alone, finds none to share, and a change *)
(* has put the one there was aside.                                        *)
OneAsks ==
    ~raced =>
        /\ \A r, s \in Requesting : r = s
        /\ \A x, y \in Changing : x = y
        /\ Requesting = {} \/ Changing = {}
        /\ \A s \in Requesting : at[s] # "constraining" => capture \notin live
        /\ \A x \in Changing :
              /\ change[x] = "capturing" => capture = 0
              /\ change[x] = "constraining" => capture # old[x]
              /\ change[x] = "replacing" => fresh[x] # old[x]

(* Only a session that is ready sends; and while the screen is changed, of *)
(* those it has been to none sends the old one, but the overtaken.         *)
OnlyReadySend == \A s \in Watcher : at[s] # "ready" => sends[s] = 0
SendsAnew ==
    ~raced => \A x \in Changing, s \in Watcher \ overtaken :
        /\ s \notin Answering
        /\ change[x] = "replacing" /\ at[s] = "ready" /\ s \notin todo[x] /\ sends[s] # 0
           => sends[s] # old[x]

ScreenInv == ScreenTypes /\ OneScreen /\ OneAsks /\ OnlyReadySend /\ SendsAnew

LEMMA ScreenInitInv == ScreenInit => ScreenInv
<1> SUFFICES ASSUME ScreenInit PROVE ScreenInv
    OBVIOUS
<1>1. raced \in BOOLEAN
    BY Zenon DEF ScreenInit
<1>2. ScreenTypes
    BY <1>1 DEF ScreenInit, ScreenTypes, Places
<1>3. Requesting = {} /\ Changing = {} /\ live = {}
    BY DEF ScreenInit, Requesting, Changing
<1> QED
    BY <1>2, <1>3 DEF ScreenInv, OneScreen, OneAsks, OnlyReadySend, SendsAnew, ScreenInit

(* A session moves, and asks for the screen no more.                       *)
LEMMA SessionMoves ==
    ASSUME ScreenInv, NEW s \in Watcher, NEW to \in Places \ {"capturing", "constraining", "orphan"},
           at' = [at EXCEPT ![s] = to],
           to \in {"placing", "ready"} => at[s] \in {"constraining", "placing"},
           to # "ready" => sends' = sends /\ at[s] # "ready",
           to = "ready" => at[s] = "placing" /\ sends' = [sends EXCEPT ![s] = got[s]],
           got' \in [Watcher -> Nat],
           UNCHANGED <<live, capture, taken, change, old, fresh, todo, raced, overtaken>>
    PROVE  ScreenInv'
<1> USE DEF ScreenInv
<1>1. /\ at' \in [Watcher -> Places] /\ at'[s] = to
      /\ \A r \in Watcher \ {s} : at'[r] = at[r] /\ sends'[r] = sends[r]
    BY DEF ScreenTypes
<1>2. Requesting' = Requesting \ {s} /\ Changing' = Changing /\ Answering' \subseteq Answering
    BY <1>1 DEF Requesting, Changing, Answering
<1>3. ScreenTypes'
    <2>1. raced' \in BOOLEAN
        BY Zenon DEF ScreenTypes
    <2>2. sends' \in [Watcher -> Nat]
        BY DEF ScreenTypes
    <2> QED
        BY <1>1, <2>1, <2>2 DEF ScreenTypes
<1>4. OneScreen'
    BY <1>2 DEF OneScreen
<1>5. OneAsks'
    BY <1>1, <1>2 DEF OneAsks, Requesting
<1>6. OnlyReadySend'
    BY <1>1 DEF OnlyReadySend
<1>7. SendsAnew'
    <2> SUFFICES ASSUME ~raced, NEW x \in Changing, NEW r \in Watcher \ overtaken
                 PROVE  /\ r \notin Answering'
                        /\ change[x] = "replacing" /\ at'[r] = "ready" /\ r \notin todo[x]
                           /\ sends'[r] # 0 => sends'[r] # old[x]
        BY <1>2 DEF SendsAnew
    <2>1. r \notin Answering
        BY DEF SendsAnew
    <2>2. CASE r = s
        BY <1>1, <1>2, <2>1, <2>2 DEF Answering
    <2>3. CASE r # s
        BY <1>1, <1>2, <2>1, <2>3 DEF SendsAnew
    <2> QED
        BY <2>2, <2>3
<1> QED
    BY <1>3, <1>4, <1>5, <1>6, <1>7

LEMMA GetStreamKeeps ==
    ASSUME ScreenInv, NEW s \in Watcher, GetStream(s)
    PROVE  ScreenInv'
<1> USE DEF ScreenInv
<1>1. /\ at[s] = "describing"
      /\ UNCHANGED <<live, capture, taken, sends, change, old, fresh, todo>>
      /\ overtaken' = IF Changing # {} THEN overtaken \cup {s} ELSE overtaken
    BY DEF GetStream, tracks, switching
<1>2. /\ raced' \in BOOLEAN
      /\ ~raced' => ~raced /\ (HasScreen \/ Requesting \cup Changing = {})
    BY Zenon DEF GetStream, ScreenTypes
<1>3. PICK to \in {"placing", "capturing"} :
        /\ at' = [at EXCEPT ![s] = to]
        /\ to = "capturing" <=> ~HasScreen
    BY DEF GetStream
<1>4. got' \in [Watcher -> Nat]
    BY DEF GetStream, ScreenTypes
<1>5. /\ at' \in [Watcher -> Places] /\ at'[s] = to
      /\ \A r \in Watcher \ {s} : at'[r] = at[r]
    BY <1>3 DEF ScreenTypes, Places
<1>6. Changing' = Changing /\ Answering' = Answering \cup {s}
      /\ Requesting' = IF HasScreen THEN Requesting ELSE Requesting \cup {s}
    BY <1>1, <1>3, <1>5 DEF Requesting, Changing, Answering
<1>7. ScreenTypes'
    BY <1>1, <1>2, <1>4, <1>5 DEF ScreenTypes
<1>8. OneScreen'
    BY <1>1, <1>2, <1>6 DEF OneScreen
<1>9. OneAsks'
    <2> SUFFICES ASSUME ~raced' PROVE OneAsks'
        BY DEF OneAsks
    <2>1. CASE HasScreen
        BY <1>1, <1>2, <1>5, <1>6, <2>1 DEF OneAsks, Requesting
    <2>2. CASE ~HasScreen
        BY <1>1, <1>2, <1>3, <1>5, <1>6, <2>2 DEF OneAsks, HasScreen
    <2> QED
        BY <2>1, <2>2
<1>10. OnlyReadySend'
    BY <1>1, <1>5 DEF OnlyReadySend
<1>11. SendsAnew'
    BY <1>1, <1>2, <1>3, <1>5, <1>6 DEF SendsAnew
<1> QED
    BY <1>7, <1>8, <1>9, <1>10, <1>11

LEMMA GrantKeeps ==
    ASSUME ScreenInv, NEW s \in Watcher, Captured(s) \/ CapturedLate(s)
    PROVE  ScreenInv'
<1> USE DEF ScreenInv
<1>1. /\ taken' = taken + 1 /\ live' = live \cup {taken'} /\ capture' = taken'
      /\ UNCHANGED <<got, sends, change, old, fresh, todo, raced, overtaken>>
      /\ s \in Requesting /\ at[s] # "constraining"
    BY DEF Captured, CapturedLate, Granted, switching, Requesting
<1>2. PICK to \in {"constraining", "closed"} :
        /\ at' = [at EXCEPT ![s] = to]
        /\ to = "constraining" => at[s] = "capturing"
        /\ to = "closed" => at[s] = "orphan"
    BY DEF Captured, CapturedLate
<1>3. /\ at' \in [Watcher -> Places] /\ at'[s] = to
      /\ \A r \in Watcher \ {s} : at'[r] = at[r]
    BY <1>2 DEF ScreenTypes, Places
<1>4. Changing' = Changing /\ Answering' = Answering /\ Requesting' \subseteq Requesting
    BY <1>1, <1>2, <1>3 DEF Requesting, Changing, Answering
<1>5. taken \in Nat /\ capture \in 0..taken /\ live \subseteq 1..taken
    BY DEF ScreenTypes
<1>6. ScreenTypes'
    <2>1. raced' \in BOOLEAN
        BY <1>1, Zenon DEF ScreenTypes
    <2>2. (capture \in 0..taken /\ live \subseteq 1..taken /\ taken \in Nat)'
        BY <1>1, <1>5
    <2>3. (old \in [Switcher -> 0..taken] /\ fresh \in [Switcher -> 0..taken])'
        BY <1>1, <1>5 DEF ScreenTypes
    <2> QED
        BY <1>1, <1>3, <2>1, <2>2, <2>3 DEF ScreenTypes
<1>7. OneScreen'
    BY <1>1, <1>4, <1>5 DEF OneScreen, OneAsks
<1>8. OneAsks'
    <2> SUFFICES ASSUME ~raced PROVE OneAsks'
        BY <1>1 DEF OneAsks
    <2>1. Requesting = {s} /\ Changing = {}
        BY <1>1 DEF OneAsks
    <2> QED
        BY <1>1, <1>2, <1>3, <1>4, <2>1 DEF OneAsks, Requesting
<1>9. OnlyReadySend'
    BY <1>1, <1>2, <1>3 DEF OnlyReadySend
<1>10. SendsAnew'
    BY <1>1, <1>4, <1>2, <1>3 DEF SendsAnew, OneAsks
<1> QED
    BY <1>6, <1>7, <1>8, <1>9, <1>10

LEMMA CloseKeeps ==
    ASSUME ScreenInv, NEW s \in Watcher, Close(s)
    PROVE  ScreenInv'
<1> USE DEF ScreenInv
<1>1. /\ UNCHANGED <<taken, raced, overtaken>>
      /\ sends' = [sends EXCEPT ![s] = 0] /\ got' = [got EXCEPT ![s] = 0]
      /\ at[s] \notin {"none", "closed", "orphan"}
    BY DEF Close, Open
<1>2. raced' \in BOOLEAN
    BY <1>1, Zenon DEF ScreenTypes
<1>3. /\ sends' \in [Watcher -> Nat] /\ got' \in [Watcher -> Nat] /\ sends'[s] = 0
      /\ \A r \in Watcher \ {s} : sends'[r] = sends[r]
    BY <1>1 DEF ScreenTypes
<1>4. CASE \E r \in Watcher \ {s} : Open(r)
    <2>1. /\ live' = live \ {sends[s]}
          /\ UNCHANGED <<capture, change, old, fresh, todo>>
          /\ at' = [at EXCEPT ![s] = IF at[s] = "capturing" THEN "orphan" ELSE "closed"]
        BY <1>4 DEF Close, switching
    <2>2. PICK to \in {"orphan", "closed"} :
            /\ at' = [at EXCEPT ![s] = to]
            /\ to = "orphan" <=> at[s] = "capturing"
        BY <2>1
    <2>3. /\ at' \in [Watcher -> Places] /\ at'[s] = to
          /\ \A r \in Watcher \ {s} : at'[r] = at[r]
        BY <2>2 DEF ScreenTypes, Places
    <2>4. /\ Changing' = Changing /\ Answering' \subseteq Answering /\ Requesting' \subseteq Requesting
        BY <2>1, <2>2, <2>3 DEF Requesting, Changing, Answering
    <2>5. ScreenTypes'
        BY <1>1, <1>2, <1>3, <2>1, <2>3 DEF ScreenTypes
    <2>6. OneScreen'
        BY <1>1, <2>1, <2>4 DEF OneScreen
    <2>7. OneAsks'
        BY <1>1, <2>1, <2>2, <2>3, <2>4 DEF OneAsks, Requesting
    <2>8. OnlyReadySend'
        BY <1>3, <2>3 DEF OnlyReadySend
    <2>9. SendsAnew'
        BY <1>1, <1>3, <2>1, <2>2, <2>3, <2>4 DEF SendsAnew
    <2> QED
        BY <2>5, <2>6, <2>7, <2>8, <2>9
<1>5. CASE ~\E r \in Watcher \ {s} : Open(r)
    <2>1. /\ at' = [r \in Watcher |-> IF at[r] = "none" THEN "none" ELSE "closed"]
          /\ live' = {} /\ capture' = 0
          /\ change' = [x \in Switcher |-> IF change[x] = "none" THEN "none" ELSE "done"]
          /\ old' = [x \in Switcher |-> 0] /\ fresh' = [x \in Switcher |-> 0]
          /\ todo' = [x \in Switcher |-> {}]
        BY <1>5 DEF Close
    <2>2. Requesting' = {} /\ Changing' = {}
        BY <2>1 DEF Requesting, Changing
    <2>3. ScreenTypes'
        <3>1. 0 \in 0..taken' /\ taken' \in Nat
            BY <1>1 DEF ScreenTypes
        <3> QED
            BY <1>1, <1>2, <1>3, <2>1, <3>1 DEF ScreenTypes, Places, Active
    <2>4. OnlyReadySend'
        BY <1>3, <1>5, <2>1 DEF OnlyReadySend, Open
    <2> QED
        BY <2>1, <2>2, <2>3, <2>4 DEF OneScreen, OneAsks, SendsAnew
<1> QED
    BY <1>4, <1>5

LEMMA ChosenKeeps ==
    ASSUME ScreenInv, NEW x \in Switcher, Chosen(x)
    PROVE  ScreenInv'
<1> USE DEF ScreenInv
<1>1. /\ change[x] = "none"
      /\ change' = [change EXCEPT ![x] = "capturing"]
      /\ old' = [old EXCEPT ![x] = capture] /\ capture' = 0
      /\ overtaken' = overtaken \cup Answering
      /\ UNCHANGED <<live, taken, at, got, sends, fresh, todo>>
    BY DEF Chosen, answers
<1>2. /\ raced' \in BOOLEAN
      /\ ~raced' => ~raced /\ Requesting \cup Changing = {}
    BY Zenon DEF Chosen, ScreenTypes
<1>3. /\ change'[x] = "capturing" /\ old'[x] = capture
      /\ \A y \in Switcher \ {x} : change'[y] = change[y] /\ old'[y] = old[y]
    BY <1>1 DEF ScreenTypes
<1>4. Requesting' = Requesting /\ Answering' = Answering /\ Changing' = Changing \cup {x}
    BY <1>1, <1>3 DEF Requesting, Answering, Changing
<1>5. ScreenTypes'
    <2>1. Answering \subseteq Watcher
        BY DEF Answering
    <2> QED
        BY <1>1, <1>2, <2>1 DEF ScreenTypes, Active
<1>6. OneScreen'
    BY <1>1, <1>2, <1>3, <1>4 DEF OneScreen
<1>7. OneAsks'
    BY <1>1, <1>2, <1>3, <1>4 DEF OneAsks
<1>8. OnlyReadySend'
    BY <1>1 DEF OnlyReadySend
<1>9. SendsAnew'
    BY <1>1, <1>2, <1>3, <1>4 DEF SendsAnew
<1> QED
    BY <1>5, <1>6, <1>7, <1>8, <1>9

LEMMA ChangeKeeps ==
    ASSUME ScreenInv, NEW x \in Switcher,
           ChangeCaptured(x) \/ ChangeConstrained(x) \/ ChangeRefused(x) \/ ChangeEnds(x)
    PROVE  ScreenInv'
<1> USE DEF ScreenInv
<1>1. /\ UNCHANGED <<at, got, sends, raced, overtaken>>
      /\ x \in Changing
    BY DEF ChangeCaptured, ChangeConstrained, ChangeRefused, ChangeEnds, answers, tracks, Changing
<1>2. /\ raced' \in BOOLEAN
      /\ Requesting' = Requesting /\ Answering' = Answering
    BY <1>1, Zenon DEF ScreenTypes, Requesting, Answering
<1>3. taken \in Nat /\ capture \in 0..taken /\ live \subseteq 1..taken /\ old[x] \in 0..taken
    BY DEF ScreenTypes
<1>4. OnlyReadySend'
    BY <1>1 DEF OnlyReadySend
<1>5. ~raced => Changing = {x} /\ Requesting = {}
    BY <1>1 DEF OneAsks
<1>6. CASE ChangeCaptured(x)
    <2>1. /\ change[x] = "capturing" /\ change' = [change EXCEPT ![x] = "constraining"]
          /\ taken' = taken + 1 /\ live' = live \cup {taken'} /\ capture' = taken'
          /\ UNCHANGED <<old, fresh, todo>>
        BY <1>6 DEF ChangeCaptured, Granted
    <2>2. change'[x] = "constraining" /\ \A y \in Switcher \ {x} : change'[y] = change[y]
        BY <2>1 DEF ScreenTypes
    <2>3. Changing' = Changing
        BY <2>1, <2>2 DEF Changing
    <2>4. (old \in [Switcher -> 0..taken] /\ fresh \in [Switcher -> 0..taken])'
        BY <1>3, <2>1 DEF ScreenTypes
    <2>5. ScreenTypes'
        BY <1>1, <1>2, <1>3, <2>1, <2>4 DEF ScreenTypes, Active
    <2>6. OneScreen'
        BY <1>1, <1>3, <1>5, <2>1, <2>3 DEF OneScreen, OneAsks
    <2>7. OneAsks'
        BY <1>1, <1>2, <1>3, <1>5, <2>1, <2>2, <2>3 DEF OneAsks
    <2>8. SendsAnew'
        BY <1>1, <1>2, <1>5, <2>1, <2>2, <2>3 DEF SendsAnew
    <2> QED
        BY <1>4, <2>5, <2>6, <2>7, <2>8
<1>7. CASE ChangeConstrained(x)
    <2>1. /\ change[x] = "constraining" /\ change' = [change EXCEPT ![x] = "replacing"]
          /\ fresh' = [fresh EXCEPT ![x] = capture]
          /\ todo' = [todo EXCEPT ![x] = {s \in Watcher : Open(s)}]
          /\ UNCHANGED <<live, capture, taken, old>>
        BY <1>7 DEF ChangeConstrained, tracks
    <2>2. /\ change'[x] = "replacing" /\ fresh'[x] = capture /\ todo'[x] = {s \in Watcher : Open(s)}
          /\ \A y \in Switcher \ {x} : change'[y] = change[y]
        BY <2>1 DEF ScreenTypes
    <2>3. Changing' = Changing
        BY <2>1, <2>2 DEF Changing
    <2>4. ScreenTypes'
        BY <1>1, <1>2, <1>3, <2>1 DEF ScreenTypes, Active
    <2>5. OneScreen'
        BY <1>1, <2>1, <2>3 DEF OneScreen
    <2>6. OneAsks'
        BY <1>1, <1>2, <1>5, <2>1, <2>2, <2>3 DEF OneAsks
    <2>7. \A s \in Watcher : at[s] = "ready" => Open(s)
        BY DEF Open
    <2>8. SendsAnew'
        BY <1>1, <1>2, <1>5, <2>1, <2>2, <2>3, <2>7 DEF SendsAnew
    <2> QED
        BY <1>4, <2>4, <2>5, <2>6, <2>8
<1>8. CASE ChangeRefused(x)
    <2>1. /\ change[x] \in {"capturing", "constraining"} /\ change' = [change EXCEPT ![x] = "done"] /\ capture' = old[x]
          /\ old' = [old EXCEPT ![x] = 0] /\ UNCHANGED <<live, taken, fresh, todo>>
        BY <1>8 DEF ChangeRefused
    <2>2. /\ change'[x] = "done" /\ \A y \in Switcher \ {x} : change'[y] = change[y]
        BY <2>1 DEF ScreenTypes
    <2>3. Changing' = Changing \ {x}
        BY <2>1, <2>2 DEF Changing
    <2>4. ScreenTypes'
        <3>1. (capture \in 0..taken /\ live \subseteq 1..taken /\ taken \in Nat)'
            BY <1>3, <2>1
        <3>2. (old \in [Switcher -> 0..taken] /\ fresh \in [Switcher -> 0..taken])'
            BY <1>3, <2>1 DEF ScreenTypes
        <3>3. change' \in [Switcher -> {"none", "done"} \cup Active]
            BY <2>1 DEF ScreenTypes
        <3> QED
            BY <1>1, <1>2, <2>1, <3>1, <3>2, <3>3 DEF ScreenTypes
    <2>5. OneScreen'
        <3>1. ~raced => capture = 0
            BY <1>1, <1>8 DEF OneAsks, ChangeRefused
        <3>2. 0 \notin live
            BY DEF ScreenTypes
        <3> QED
            BY <1>1, <1>3, <1>5, <2>1, <2>3, <3>1, <3>2 DEF OneScreen
    <2>6. OneAsks'
        BY <1>1, <1>2, <1>5, <2>1, <2>2, <2>3 DEF OneAsks
    <2>7. SendsAnew'
        BY <1>1, <1>5, <2>3 DEF SendsAnew
    <2> QED
        BY <1>4, <2>4, <2>5, <2>6, <2>7
<1>9. CASE ChangeEnds(x)
    <2>1. /\ change[x] = "replacing" /\ change' = [change EXCEPT ![x] = "done"]
          /\ live' = live \ {old[x]} /\ old' = [old EXCEPT ![x] = 0]
          /\ fresh' = [fresh EXCEPT ![x] = 0] /\ UNCHANGED <<capture, taken, todo>>
        BY <1>9 DEF ChangeEnds
    <2>2. /\ change'[x] = "done" /\ \A y \in Switcher \ {x} : change'[y] = change[y]
        BY <2>1 DEF ScreenTypes
    <2>3. Changing' = Changing \ {x}
        BY <2>1, <2>2 DEF Changing
    <2>4. ScreenTypes'
        <3>1. (capture \in 0..taken /\ live \subseteq 1..taken /\ taken \in Nat)'
            BY <1>3, <2>1
        <3>2. (old \in [Switcher -> 0..taken] /\ fresh \in [Switcher -> 0..taken])'
            BY <1>3, <2>1 DEF ScreenTypes
        <3>3. change' \in [Switcher -> {"none", "done"} \cup Active]
            BY <2>1 DEF ScreenTypes
        <3> QED
            BY <1>1, <1>2, <2>1, <3>1, <3>2, <3>3 DEF ScreenTypes
    <2>5. OneScreen'
        BY <1>1, <1>3, <1>5, <2>1, <2>3 DEF OneScreen
    <2>6. OneAsks'
        BY <1>1, <1>2, <1>5, <2>1, <2>2, <2>3 DEF OneAsks
    <2>7. SendsAnew'
        BY <1>1, <1>5, <2>3 DEF SendsAnew
    <2> QED
        BY <1>4, <2>4, <2>5, <2>6, <2>7
<1> QED
    BY <1>6, <1>7, <1>8, <1>9

LEMMA ReplaceKeeps ==
    ASSUME ScreenInv, NEW x \in Switcher, NEW s \in Watcher, Replace(x, s)
    PROVE  ScreenInv'
<1> USE DEF ScreenInv
<1>1. /\ change[x] = "replacing"
      /\ UNCHANGED <<live, capture, taken, at, got, change, old, fresh, raced, overtaken>>
      /\ todo' = [todo EXCEPT ![x] = todo[x] \ {s}]
      /\ sends' = IF sends[s] # 0 THEN [sends EXCEPT ![s] = fresh[x]] ELSE sends
    BY DEF Replace, tracks
<1>2. /\ raced' \in BOOLEAN /\ fresh[x] \in Nat
    BY <1>1 DEF ScreenTypes
<1>3. /\ sends' \in [Watcher -> Nat]
      /\ \A r \in Watcher \ {s} : sends'[r] = sends[r]
      /\ sends'[s] = IF sends[s] # 0 THEN fresh[x] ELSE sends[s]
      /\ todo'[x] = todo[x] \ {s} /\ \A y \in Switcher \ {x} : todo'[y] = todo[y]
    BY <1>1, <1>2 DEF ScreenTypes
<1>4. Requesting' = Requesting /\ Answering' = Answering /\ Changing' = Changing /\ x \in Changing
    BY <1>1 DEF Requesting, Answering, Changing
<1>5. ScreenTypes'
    BY <1>1, <1>2, <1>3 DEF ScreenTypes
<1>6. OneScreen' /\ OneAsks'
    BY <1>1, <1>4 DEF OneScreen, OneAsks
<1>7. OnlyReadySend'
    BY <1>1, <1>3 DEF OnlyReadySend
<1>8. SendsAnew'
    <2> SUFFICES ASSUME ~raced, NEW y \in Changing, NEW r \in Watcher \ overtaken
                 PROVE  /\ r \notin Answering
                        /\ change[y] = "replacing" /\ at[r] = "ready" /\ r \notin todo'[y]
                           /\ sends'[r] # 0 => sends'[r] # old[y]
        BY <1>1, <1>4 DEF SendsAnew
    <2>1. y = x /\ fresh[x] # old[x]
        BY <1>1, <1>4 DEF OneAsks
    <2>2. CASE r = s
        BY <1>3, <2>1, <2>2 DEF SendsAnew
    <2>3. CASE r # s
        BY <1>3, <2>1, <2>3 DEF SendsAnew
    <2> QED
        BY <2>2, <2>3
<1> QED
    BY <1>5, <1>6, <1>7, <1>8

LEMMA ScreenKeeps ==
    ASSUME ScreenInv, [ScreenNext]_screenVars
    PROVE  ScreenInv'
<1>1. CASE UNCHANGED screenVars
    <2>1. UNCHANGED <<live, capture, taken, at, got, sends, change, old, fresh, todo, raced, overtaken>>
        BY <1>1 DEF screenVars, tracks, answers, switching
    <2> QED
        BY <2>1 DEF ScreenInv, ScreenTypes, OneScreen, OneAsks, OnlyReadySend, SendsAnew, Requesting,
                    Changing, Answering
<1>2. ASSUME NEW s \in Watcher, Begin(s) \/ Constrained(s) \/ CaptureRefused(s) \/ Placed(s)
      PROVE  ScreenInv'
    <2>1. UNCHANGED <<live, capture, taken, change, old, fresh, todo, raced, overtaken>>
        BY <1>2 DEF Begin, Constrained, CaptureRefused, Placed, tracks, switching
    <2>2. got' \in [Watcher -> Nat]
        BY <1>2 DEF Begin, Constrained, CaptureRefused, Placed, ScreenInv, ScreenTypes
    <2>3. PICK to \in {"describing", "placing", "failed", "ready"} :
            /\ at' = [at EXCEPT ![s] = to]
            /\ to \in {"placing", "ready"} => at[s] \in {"constraining", "placing"}
            /\ to # "ready" => sends' = sends /\ at[s] # "ready"
            /\ to = "ready" => at[s] = "placing" /\ sends' = [sends EXCEPT ![s] = got[s]]
        BY <1>2 DEF Begin, Constrained, CaptureRefused, Placed
    <2> QED
        BY <2>1, <2>2, <2>3, SessionMoves DEF Places
<1>3. ASSUME NEW t, t \in live, TrackEnds(t) PROVE ScreenInv'
    <2>1. /\ live' = live \ {t}
          /\ UNCHANGED <<capture, taken, at, got, sends, change, old, fresh, todo, raced, overtaken>>
        BY <1>3 DEF TrackEnds, answers, switching
    <2>2. raced' \in BOOLEAN
        BY <2>1, Zenon DEF ScreenInv, ScreenTypes
    <2>3. ScreenTypes'
        BY <2>1, <2>2 DEF ScreenInv, ScreenTypes
    <2>4. Requesting' = Requesting /\ Changing' = Changing /\ Answering' = Answering
        BY <2>1 DEF Requesting, Changing, Answering
    <2>5. OneScreen' /\ OneAsks'
        BY <2>1, <2>4 DEF ScreenInv, OneScreen, OneAsks
    <2>6. OnlyReadySend' /\ SendsAnew'
        BY <2>1, <2>4 DEF ScreenInv, OnlyReadySend, SendsAnew
    <2> QED
        BY <2>3, <2>5, <2>6 DEF ScreenInv
<1> QED
    BY <1>1, <1>2, <1>3, GetStreamKeeps, GrantKeeps, CloseKeeps, ChosenKeeps, ChangeKeeps, ReplaceKeeps
       DEF ScreenNext

LEMMA NoSwitchFreezes ==
    ASSUME ScreenInv, [ScreenNext]_screenVars, NEW x \in Switcher, NEW s \in Watcher \ overtaken,
           change'[x] # change[x], at[s] = "ready", at'[s] = "ready", ~raced', sends[s] \in live
    PROVE  sends'[s] \in live'
<1> USE DEF ScreenInv
<1>1. PICK y \in Switcher : \/ Chosen(y) \/ ChangeCaptured(y) \/ ChangeConstrained(y)
                            \/ ChangeRefused(y) \/ ChangeEnds(y)
    <2>1. ~UNCHANGED screenVars
        BY DEF screenVars, switching
    <2>2. ASSUME NEW r \in Watcher, Close(r) PROVE FALSE
        <3>1. Open(s)
            BY DEF Open
        <3>2. CASE r = s
            BY <2>2, <3>2 DEF Close, ScreenTypes
        <3>3. CASE r # s
            BY <2>2, <3>1, <3>3 DEF Close, switching
        <3> QED
            BY <3>2, <3>3
    <2>3. ASSUME NEW r \in Watcher,
                 \/ Begin(r) \/ GetStream(r) \/ Captured(r) \/ Constrained(r) \/ CaptureRefused(r)
                 \/ Placed(r) \/ CapturedLate(r) \/ \E y \in Switcher : Replace(y, r)
          PROVE  FALSE
        BY <2>3 DEF Begin, GetStream, Captured, Constrained, CaptureRefused, Placed, CapturedLate,
                    Replace, switching
    <2>4. ASSUME NEW t, TrackEnds(t) PROVE FALSE
        BY <2>4 DEF TrackEnds, switching
    <2> QED
        BY <2>1, <2>2, <2>3, <2>4 DEF ScreenNext
<1>2. sends' = sends
    BY <1>1 DEF Chosen, ChangeCaptured, ChangeConstrained, ChangeRefused, ChangeEnds, answers
<1>3. CASE ChangeEnds(y)
    <2>1. /\ change[y] = "replacing" /\ todo[y] = {} /\ live' = live \ {old[y]} /\ ~raced
        BY <1>3 DEF ChangeEnds
    <2>2. sends[s] # old[y]
        <3>1. y \in Changing /\ sends[s] # 0
            BY <2>1 DEF Changing, ScreenTypes
        <3> QED
            BY <2>1, <3>1 DEF SendsAnew
    <2> QED
        BY <1>2, <2>1, <2>2
<1>4. ASSUME Chosen(y) \/ ChangeCaptured(y) \/ ChangeConstrained(y) \/ ChangeRefused(y)
      PROVE  live \subseteq live'
    BY <1>4 DEF Chosen, ChangeCaptured, ChangeConstrained, ChangeRefused, Granted, tracks
<1> QED
    BY <1>1, <1>2, <1>3, <1>4

-----------------------------------------------------------------------------
(* The negotiation.                                                        *)

Mail == [kind : {"ice", "offer", "answer", "bye"}, n : Nat]
Tasks == {"nothing", "answer", "apply", "flush", "add"}

NegotiationTypes ==
    /\ mail \in [Role -> Seq(Mail)]
    /\ body \in [Role -> {"offering", "waiting", "ok", "failed"}]
    /\ broke \in [Role -> BOOLEAN] /\ described \in [Role -> BOOLEAN]
    /\ hasLocal \in [Role -> BOOLEAN] /\ hasRemote \in [Role -> BOOLEAN]
    /\ handling \in [Role -> Tasks] /\ adding \in [Role -> Nat] /\ gathered \in [Role -> Nat]
    /\ held \in [Role -> Seq(Nat)] /\ applied \in [Role -> Seq(Nat)]
    /\ linkUp \in BOOLEAN /\ cut \in BOOLEAN

(* A description is set when it was acceptable, and handed to the renderer *)
(* before any candidate is.                                                *)
DescribedFirst ==
    /\ body["host"] # "offering"
    /\ hasLocal["host"] => hasRemote["host"]
    /\ \A r \in Role :
          /\ hasRemote[r] \/ handling[r] \in {"answer", "apply"} => OtherSide(r) \notin bad
          /\ handling[r] = "answer" => r = "host"
          /\ handling[r] \in {"flush", "add"} => described[r]
          /\ described[r] => hasRemote[r]
          /\ applied[r] # <<>> => hasRemote[r]

(* The candidates of the other side, where each is: what was applied, is   *)
(* being added and waits are the first of them, and the rest come in turn. *)
AddingOne(r) == IF handling[r] = "add" THEN 1 ELSE 0
HadSoFar(r) == Len(applied[r]) + AddingOne(r) + Len(held[r])
InTurn(r) ==
    /\ \A i \in 1..Len(applied[r]) : applied[r][i] = i
    /\ handling[r] = "add" => adding[r] = Len(applied[r]) + 1
    /\ \A i \in 1..Len(held[r]) : held[r][i] = Len(applied[r]) + AddingOne(r) + i
    /\ HadSoFar(r) <= gathered[OtherSide(r)]
    /\ \A i \in Coming(r) : mail[r][i].n \in (HadSoFar(r) + 1)..gathered[OtherSide(r)]
    /\ \A k \in (HadSoFar(r) + 1)..gathered[OtherSide(r)] : \E i \in Coming(r) : mail[r][i].n = k
    /\ \A i, j \in Coming(r) : i < j => mail[r][i].n < mail[r][j].n
(* Nothing waits once the description is there and was followed up.        *)
NoneWaits(r) ==
    /\ described[r] /\ handling[r] # "flush" => held[r] = <<>>
    /\ handling[r] \in {"answer", "apply"} => ~described[r]

Good(r) == Running(r) /\ ~broke[r]
CandidatesInTurn ==
    \A r \in Role : Good(r) => NoneWaits(r) /\ (linkUp /\ ~cut => InTurn(r))

NegotiationInv == NegotiationTypes /\ DescribedFirst /\ CandidatesInTurn

LEMMA Roles == /\ \A r \in Role : OtherSide(r) \in Role /\ OtherSide(r) # r /\ OtherSide(OtherSide(r)) = r
               /\ "host" \in Role /\ "viewer" \in Role
BY DEF Role, OtherSide

LEMMA NegotiationInitInv == NegotiationInit => NegotiationInv
<1> SUFFICES ASSUME NegotiationInit PROVE NegotiationInv
    OBVIOUS
<1>1. linkUp \in BOOLEAN /\ cut \in BOOLEAN
    BY Zenon DEF NegotiationInit
<1>2. NegotiationTypes
    BY <1>1 DEF NegotiationInit, NegotiationTypes, Tasks
<1>3. DescribedFirst
    BY Roles DEF NegotiationInit, DescribedFirst
<1>4. ASSUME NEW r \in Role PROVE NoneWaits(r) /\ InTurn(r)
    <2>1. /\ mail[r] = <<>> /\ held[r] = <<>> /\ applied[r] = <<>> /\ handling[r] = "nothing"
          /\ gathered[OtherSide(r)] = 0 /\ ~described[r]
        BY Roles DEF NegotiationInit
    <2>2. Coming(r) = {} /\ HadSoFar(r) = 0
        BY <2>1 DEF Coming, HadSoFar, AddingOne
    <2> QED
        BY <2>1, <2>2 DEF NoneWaits, InTurn
<1> QED
    BY <1>2, <1>3, <1>4 DEF NegotiationInv, CandidatesInTurn

(* Nothing changes for the side r.                                         *)
LEMMA LeftAlone ==
    ASSUME NegotiationInv, NEW r \in Role,
           held'[r] = held[r], applied'[r] = applied[r], handling'[r] = handling[r],
           adding'[r] = adding[r], described'[r] = described[r], mail'[r] = mail[r],
           gathered'[OtherSide(r)] = gathered[OtherSide(r)],
           Good(r)' => Good(r), (linkUp /\ ~cut)' => linkUp /\ ~cut
    PROVE  Good(r)' => NoneWaits(r)' /\ ((linkUp /\ ~cut)' => InTurn(r)')
<1>1. Coming(r)' = Coming(r) /\ HadSoFar(r)' = HadSoFar(r) /\ AddingOne(r)' = AddingOne(r)
    BY DEF Coming, HadSoFar, AddingOne
<1>2. NoneWaits(r) => NoneWaits(r)'
    BY DEF NoneWaits
<1>3. InTurn(r) => InTurn(r)'
    BY <1>1 DEF InTurn
<1> QED
    BY <1>2, <1>3 DEF NegotiationInv, CandidatesInTurn

(* A message that is no candidate is put in the mail or taken out of it.   *)
LEMMA NoCandidate ==
    ASSUME NegotiationTypes, NEW r \in Role, InTurn(r), NEW m \in Mail, m.kind # "ice",
           mail'[r] = Append(mail[r], m),
           held'[r] = held[r], applied'[r] = applied[r], AddingOne(r)' = AddingOne(r),
           handling'[r] = "add" => handling[r] = "add" /\ adding'[r] = adding[r],
           gathered'[OtherSide(r)] = gathered[OtherSide(r)]
    PROVE  InTurn(r)'
<1>1. /\ mail[r] \in Seq(Mail) /\ Len(mail'[r]) = Len(mail[r]) + 1
      /\ \A i \in 1..Len(mail[r]) : mail'[r][i] = mail[r][i]
      /\ mail'[r][Len(mail[r]) + 1] = m
    BY DEF NegotiationTypes
<1>2. Len(mail[r]) \in Nat
    BY <1>1
<1>3. Coming(r)' = Coming(r)
    BY <1>1, <1>2 DEF Coming
<1>4. \A i \in Coming(r) : mail'[r][i] = mail[r][i]
    BY <1>1 DEF Coming
<1>5. HadSoFar(r)' = HadSoFar(r)
    BY DEF HadSoFar
<1> QED
    BY <1>3, <1>4, <1>5, ZenonT(60) DEF InTurn

LEMMA NoCandidateTaken ==
    ASSUME NegotiationTypes, NEW r \in Role, InTurn(r), mail[r] # <<>>, Head(mail[r]).kind # "ice",
           mail'[r] = Tail(mail[r]),
           held'[r] = held[r], applied'[r] = applied[r], AddingOne(r)' = AddingOne(r),
           handling'[r] = "add" => handling[r] = "add" /\ adding'[r] = adding[r],
           gathered'[OtherSide(r)] = gathered[OtherSide(r)]
    PROVE  InTurn(r)'
<1>1. /\ mail[r] \in Seq(Mail) /\ Len(mail'[r]) = Len(mail[r]) - 1 /\ Len(mail[r]) \in Nat
      /\ \A i \in 1..(Len(mail[r]) - 1) : mail'[r][i] = mail[r][i + 1]
      /\ mail[r][1] = Head(mail[r])
    BY DEF NegotiationTypes
<1>2. \A i : i \in Coming(r)' <=> i \in 1..(Len(mail[r]) - 1) /\ i + 1 \in Coming(r)
    BY <1>1 DEF Coming
<1>3. \A i \in Coming(r) : i \in Nat /\ i # 1 /\ i - 1 \in Coming(r)' /\ mail'[r][i - 1] = mail[r][i]
    <2>1. \A i \in Coming(r) : i \in 1..Len(mail[r]) /\ i # 1
        BY <1>1 DEF Coming
    <2>2. \A i \in Coming(r) : i - 1 \in 1..(Len(mail[r]) - 1) /\ (i - 1) + 1 = i
        BY <1>1, <2>1
    <2> QED
        BY <1>1, <1>2, <2>1, <2>2
<1>4. \A i \in Coming(r)' : i \in Nat /\ i + 1 \in Coming(r) /\ mail'[r][i] = mail[r][i + 1]
    BY <1>1, <1>2
<1>5. HadSoFar(r)' = HadSoFar(r)
    BY DEF HadSoFar
<1>6. \A i, j \in Coming(r)' : i < j => i + 1 < j + 1
    BY <1>4
<1>7. (\A i \in Coming(r) : mail[r][i].n \in (HadSoFar(r) + 1)..gathered[OtherSide(r)])'
    BY <1>4, <1>5 DEF InTurn
<1>8. (\A k \in (HadSoFar(r) + 1)..gathered[OtherSide(r)] : \E i \in Coming(r) : mail[r][i].n = k)'
    <2> SUFFICES ASSUME NEW k \in (HadSoFar(r) + 1)..gathered[OtherSide(r)]
                 PROVE  \E i \in Coming(r)' : mail'[r][i].n = k
        BY <1>5
    <2>1. PICK i \in Coming(r) : mail[r][i].n = k
        BY DEF InTurn
    <2>2. i - 1 \in Coming(r)' /\ mail'[r][i - 1].n = k
        BY <1>3, <2>1
    <2> QED
        BY <2>2
<1>9. (\A i, j \in Coming(r) : i < j => mail[r][i].n < mail[r][j].n)'
    BY <1>4, <1>6 DEF InTurn
<1> QED
    BY <1>5, <1>7, <1>8, <1>9 DEF InTurn

(* The candidate that comes is the next one.                               *)
LEMMA NextCandidate ==
    ASSUME NegotiationTypes, NEW r \in Role, InTurn(r), mail[r] # <<>>, Head(mail[r]).kind = "ice"
    PROVE  Head(mail[r]).n = HadSoFar(r) + 1 /\ HadSoFar(r) \in Nat
           /\ HadSoFar(r) + 1 <= gathered[OtherSide(r)]
<1>1. /\ mail[r] \in Seq(Mail) /\ mail[r][1] = Head(mail[r]) /\ Len(mail[r]) \in Nat
      /\ 1 \in 1..Len(mail[r])
    BY DEF NegotiationTypes
<1>2. 1 \in Coming(r)
    BY <1>1 DEF Coming
<1>3. HadSoFar(r) \in Nat /\ gathered[OtherSide(r)] \in Nat
    <2>1. Len(applied[r]) \in Nat /\ Len(held[r]) \in Nat /\ AddingOne(r) \in Nat
        BY DEF NegotiationTypes, AddingOne
    <2>2. \A a, b, c \in Nat : a + b + c \in Nat
        OBVIOUS
    <2> QED
        BY <2>1, <2>2, Roles DEF HadSoFar, NegotiationTypes
<1>4. mail[r][1].n \in (HadSoFar(r) + 1)..gathered[OtherSide(r)]
    BY <1>2 DEF InTurn
<1>5. PICK i \in Coming(r) : mail[r][i].n = HadSoFar(r) + 1
    BY <1>3, <1>4 DEF InTurn
<1>6. CASE i = 1
    BY <1>1, <1>3, <1>4, <1>5, <1>6
<1>7. CASE i # 1
    <2>1. i \in 1..Len(mail[r])
        BY DEF Coming
    <2>2. 1 < i
        BY <1>7, <2>1
    <2>3. mail[r][1].n < HadSoFar(r) + 1
        BY <1>2, <1>5, <2>2 DEF InTurn
    <2> QED
        BY <1>3, <1>4, <2>3
<1> QED
    BY <1>6, <1>7

(* It is taken out of the mail, and had.                                   *)
LEMMA CandidateTaken ==
    ASSUME NegotiationTypes, NEW r \in Role, InTurn(r), mail[r] # <<>>, Head(mail[r]).kind = "ice",
           mail'[r] = Tail(mail[r]), HadSoFar(r)' = HadSoFar(r) + 1,
           gathered'[OtherSide(r)] = gathered[OtherSide(r)]
    PROVE  /\ (HadSoFar(r) <= gathered[OtherSide(r)])'
           /\ (\A i \in Coming(r) : mail[r][i].n \in (HadSoFar(r) + 1)..gathered[OtherSide(r)])'
           /\ (\A k \in (HadSoFar(r) + 1)..gathered[OtherSide(r)] : \E i \in Coming(r) : mail[r][i].n = k)'
           /\ (\A i, j \in Coming(r) : i < j => mail[r][i].n < mail[r][j].n)'
<1>1. /\ mail[r] \in Seq(Mail) /\ Len(mail'[r]) = Len(mail[r]) - 1 /\ Len(mail[r]) \in Nat
      /\ \A i \in 1..(Len(mail[r]) - 1) : mail'[r][i] = mail[r][i + 1]
      /\ mail[r][1] = Head(mail[r]) /\ 1 \in 1..Len(mail[r])
    BY DEF NegotiationTypes
<1>2. \A i : i \in Coming(r)' <=> i \in 1..(Len(mail[r]) - 1) /\ i + 1 \in Coming(r)
    BY <1>1 DEF Coming
<1>3. \A i \in Coming(r) : i # 1 => i - 1 \in Coming(r)' /\ mail'[r][i - 1] = mail[r][i]
    <2>1. \A i \in Coming(r) : i \in 1..Len(mail[r])
        BY <1>1 DEF Coming
    <2>2. \A i \in Coming(r) : i # 1 => i - 1 \in 1..(Len(mail[r]) - 1) /\ (i - 1) + 1 = i
        BY <1>1, <2>1
    <2> QED
        BY <1>1, <1>2, <2>1, <2>2
<1>4. \A i \in Coming(r)' : i \in Nat \ {0} /\ i + 1 \in Coming(r) /\ mail'[r][i] = mail[r][i + 1]
    BY <1>1, <1>2
<1>5. /\ mail[r][1].n = HadSoFar(r) + 1 /\ HadSoFar(r) \in Nat /\ 1 \in Coming(r)
      /\ HadSoFar(r) + 1 <= gathered[OtherSide(r)]
    BY <1>1, NextCandidate DEF Coming
<1>6. (\A i \in Coming(r) : mail[r][i].n \in (HadSoFar(r) + 1)..gathered[OtherSide(r)])'
    <2>1. gathered[OtherSide(r)] \in Nat
        BY Roles DEF NegotiationTypes
    <2>2. \A i \in Coming(r)' : 1 < i + 1 /\ i + 1 \in Coming(r)
        BY <1>4
    <2>3. \A i \in Coming(r)' : mail[r][i + 1].n \in (HadSoFar(r) + 1)..gathered[OtherSide(r)]
        BY <2>2 DEF InTurn
    <2>4. \A i \in Coming(r)' : HadSoFar(r) + 1 < mail[r][i + 1].n
        BY <1>5, <2>2 DEF InTurn
    <2>5. \A i \in Coming(r)' : mail[r][i + 1].n \in (HadSoFar(r) + 1 + 1)..gathered[OtherSide(r)]
        BY <1>5, <2>1, <2>3, <2>4
    <2> QED
        BY <1>4, <2>5
<1>7. (\A k \in (HadSoFar(r) + 1)..gathered[OtherSide(r)] : \E i \in Coming(r) : mail[r][i].n = k)'
    <2> SUFFICES ASSUME NEW k \in (HadSoFar(r)' + 1)..gathered[OtherSide(r)]
                 PROVE  \E i \in Coming(r)' : mail'[r][i].n = k
        OBVIOUS
    <2>1. k \in (HadSoFar(r) + 1)..gathered[OtherSide(r)] /\ k # HadSoFar(r) + 1
        BY <1>5
    <2>2. PICK i \in Coming(r) : mail[r][i].n = k
        BY <2>1 DEF InTurn
    <2>3. i # 1
        BY <1>5, <2>1, <2>2
    <2>4. i - 1 \in Coming(r)' /\ mail'[r][i - 1].n = k
        BY <1>3, <2>2, <2>3
    <2> QED
        BY <2>4
<1>8. (\A i, j \in Coming(r) : i < j => mail[r][i].n < mail[r][j].n)'
    <2>1. \A i, j \in Coming(r)' : i < j => i + 1 < j + 1
        <3>1. \A i \in Coming(r)' : i \in Nat
            BY <1>4
        <3>2. \A i, j \in Nat : i < j => i + 1 < j + 1
            OBVIOUS
        <3> QED
            BY <3>1, <3>2
    <2> QED
        BY <1>4, <2>1, ZenonT(60) DEF InTurn
<1> QED
    BY <1>5, <1>6, <1>7, <1>8

(* The other side reports one more.                                        *)
LEMMA CandidateComes ==
    ASSUME NegotiationTypes, NEW r \in Role, InTurn(r),
           gathered'[OtherSide(r)] = gathered[OtherSide(r)] + 1,
           mail'[r] = Append(mail[r], Message("ice", gathered[OtherSide(r)] + 1)),
           held'[r] = held[r], applied'[r] = applied[r], handling'[r] = handling[r],
           adding'[r] = adding[r]
    PROVE  InTurn(r)'
<1>1. /\ mail[r] \in Seq(Mail) /\ Len(mail'[r]) = Len(mail[r]) + 1 /\ Len(mail[r]) \in Nat
      /\ \A i \in 1..Len(mail[r]) : mail'[r][i] = mail[r][i]
      /\ mail'[r][Len(mail[r]) + 1].kind = "ice"
      /\ mail'[r][Len(mail[r]) + 1].n = gathered[OtherSide(r)] + 1
    BY DEF NegotiationTypes, Message
<1>2. gathered[OtherSide(r)] \in Nat
    BY Roles DEF NegotiationTypes
<1>3. /\ Coming(r)' = Coming(r) \cup {Len(mail[r]) + 1}
      /\ \A i \in Coming(r) : i \in 1..Len(mail[r]) /\ mail'[r][i] = mail[r][i]
    BY <1>1 DEF Coming
<1>4. HadSoFar(r)' = HadSoFar(r) /\ AddingOne(r)' = AddingOne(r)
    BY DEF HadSoFar, AddingOne
<1>5. HadSoFar(r) \in Nat
    <2>1. Len(applied[r]) \in Nat /\ Len(held[r]) \in Nat /\ AddingOne(r) \in Nat
        BY DEF NegotiationTypes, AddingOne
    <2>2. \A a, b, c \in Nat : a + b + c \in Nat
        OBVIOUS
    <2> QED
        BY <2>1, <2>2 DEF HadSoFar
<1>6. \A i \in Coming(r) : mail[r][i].n \in (HadSoFar(r) + 1)..gathered[OtherSide(r)]
    BY DEF InTurn
<1>7. HadSoFar(r) <= gathered[OtherSide(r)]
    BY DEF InTurn
<1>8. (HadSoFar(r) <= gathered[OtherSide(r)])'
    BY <1>2, <1>4, <1>5, <1>7
<1>9. (\A i \in Coming(r) : mail[r][i].n \in (HadSoFar(r) + 1)..gathered[OtherSide(r)])'
    <2>1. \A i \in Coming(r) : mail'[r][i].n \in (HadSoFar(r) + 1)..(gathered[OtherSide(r)] + 1)
        BY <1>2, <1>3, <1>5, <1>6
    <2>2. gathered[OtherSide(r)] + 1 \in (HadSoFar(r) + 1)..(gathered[OtherSide(r)] + 1)
        BY <1>2, <1>5, <1>7
    <2> QED
        BY <1>1, <1>3, <1>4, <2>1, <2>2
<1>10. (\A k \in (HadSoFar(r) + 1)..gathered[OtherSide(r)] : \E i \in Coming(r) : mail[r][i].n = k)'
    <2> SUFFICES ASSUME NEW k \in (HadSoFar(r) + 1)..(gathered[OtherSide(r)] + 1)
                 PROVE  \E i \in Coming(r)' : mail'[r][i].n = k
        BY <1>4
    <2>1. CASE k = gathered[OtherSide(r)] + 1
        BY <1>1, <1>3, <2>1
    <2>2. CASE k # gathered[OtherSide(r)] + 1
        <3>1. k \in (HadSoFar(r) + 1)..gathered[OtherSide(r)]
            BY <1>2, <1>5, <2>2
        <3>2. PICK i \in Coming(r) : mail[r][i].n = k
            BY <3>1 DEF InTurn
        <3> QED
            BY <1>3, <3>2
    <2> QED
        BY <2>1, <2>2
<1>11. (\A i, j \in Coming(r) : i < j => mail[r][i].n < mail[r][j].n)'
    <2> SUFFICES ASSUME NEW i \in Coming(r)', NEW j \in Coming(r)', i < j
                 PROVE  mail'[r][i].n < mail'[r][j].n
        OBVIOUS
    <2>1. CASE i \in Coming(r) /\ j \in Coming(r)
        BY <1>3, <2>1 DEF InTurn
    <2>2. CASE i \in Coming(r) /\ j = Len(mail[r]) + 1
        <3>1. mail[r][i].n \in (HadSoFar(r) + 1)..gathered[OtherSide(r)]
            BY <1>6, <2>2
        <3>2. mail[r][i].n < gathered[OtherSide(r)] + 1
            BY <1>2, <1>5, <3>1
        <3> QED
            BY <1>1, <1>3, <2>2, <3>2
    <2>3. i # Len(mail[r]) + 1
        BY <1>1, <1>3
    <2> QED
        BY <1>3, <2>1, <2>2, <2>3
<1> QED
    BY <1>4, <1>8, <1>9, <1>10, <1>11 DEF InTurn

(* One that waited or was being added is applied.                          *)
LEMMA CandidateApplied ==
    ASSUME NegotiationTypes, NEW r \in Role, InTurn(r), mail'[r] = mail[r],
           gathered'[OtherSide(r)] = gathered[OtherSide(r)],
           \/ /\ handling[r] = "flush" /\ handling'[r] = "flush" /\ held[r] # <<>>
              /\ applied'[r] = Append(applied[r], Head(held[r])) /\ held'[r] = Tail(held[r])
           \/ /\ handling[r] = "add" /\ handling'[r] = "nothing" /\ held[r] = <<>>
              /\ applied'[r] = Append(applied[r], adding[r]) /\ held'[r] = held[r]
    PROVE  InTurn(r)'
<1>1. /\ held[r] \in Seq(Nat) /\ applied[r] \in Seq(Nat)
      /\ Len(held[r]) \in Nat /\ Len(applied[r]) \in Nat
    BY DEF NegotiationTypes
<1>2. CASE handling[r] = "flush"
    <2>1. /\ handling'[r] = "flush" /\ held[r] # <<>> /\ Head(held[r]) = held[r][1]
          /\ 1 \in 1..Len(held[r])
          /\ applied'[r] = Append(applied[r], held[r][1]) /\ held'[r] = Tail(held[r])
        BY <1>1, <1>2
    <2>2. held[r][1] = Len(applied[r]) + 1
        BY <1>1, <1>2, <2>1 DEF InTurn, AddingOne
    <2>3. /\ Len(applied'[r]) = Len(applied[r]) + 1 /\ Len(held'[r]) = Len(held[r]) - 1
          /\ \A i \in 1..Len(applied[r]) : applied'[r][i] = applied[r][i]
          /\ applied'[r][Len(applied[r]) + 1] = Len(applied[r]) + 1
          /\ \A i \in 1..(Len(held[r]) - 1) : held'[r][i] = held[r][i + 1] /\ i + 1 \in 1..Len(held[r])
        BY <1>1, <2>1, <2>2
    <2>4. AddingOne(r) = 0 /\ AddingOne(r)' = 0
        BY <1>2, <2>1 DEF AddingOne
    <2>5. HadSoFar(r)' = HadSoFar(r)
        <3>1. \A a, b \in Nat : (a + 1) + 0 + (b - 1) = a + 0 + b
            OBVIOUS
        <3> QED
            BY <1>1, <2>3, <2>4, <3>1 DEF HadSoFar
    <2>6. \A i \in 1..Len(applied'[r]) : applied'[r][i] = i
        <3>1. \A i \in 1..Len(applied'[r]) : i \in 1..Len(applied[r]) \/ i = Len(applied[r]) + 1
            BY <1>1, <2>3
        <3>2. \A i \in 1..Len(applied[r]) : applied[r][i] = i
            BY DEF InTurn
        <3> QED
            BY <2>3, <3>1, <3>2
    <2>7. \A i \in 1..Len(held'[r]) : held'[r][i] = Len(applied'[r]) + 0 + i
        <3>1. \A i \in 1..Len(held[r]) : held[r][i] = Len(applied[r]) + 0 + i
            BY <2>4 DEF InTurn
        <3>2. \A i \in 1..Len(held'[r]) : held'[r][i] = Len(applied[r]) + 0 + (i + 1)
            BY <2>3, <3>1
        <3>3. \A i \in 1..Len(held'[r]) : i \in Nat
            OBVIOUS
        <3>4. \A a, i \in Nat : a + 0 + (i + 1) = (a + 1) + 0 + i
            OBVIOUS
        <3> QED
            BY <1>1, <2>3, <3>2, <3>3, <3>4, ZenonT(60)
    <2>8. Coming(r)' = Coming(r)
        BY DEF Coming
    <2> QED
        BY <2>1, <2>4, <2>5, <2>6, <2>7, <2>8 DEF InTurn
<1>3. CASE handling[r] = "add"
    <2>1. /\ handling'[r] = "nothing" /\ held[r] = <<>> /\ held'[r] = held[r]
          /\ applied'[r] = Append(applied[r], adding[r]) /\ adding[r] = Len(applied[r]) + 1
        BY <1>3 DEF InTurn
    <2>2. /\ Len(applied'[r]) = Len(applied[r]) + 1
          /\ \A i \in 1..Len(applied[r]) : applied'[r][i] = applied[r][i]
          /\ applied'[r][Len(applied[r]) + 1] = Len(applied[r]) + 1
        BY <1>1, <2>1
    <2>3. AddingOne(r) = 1 /\ AddingOne(r)' = 0
        BY <1>3, <2>1 DEF AddingOne
    <2>4. HadSoFar(r)' = HadSoFar(r)
        <3>1. \A a, b \in Nat : (a + 1) + 0 + b = a + 1 + b
            OBVIOUS
        <3> QED
            BY <1>1, <2>1, <2>2, <2>3, <3>1 DEF HadSoFar
    <2>5. \A i \in 1..Len(applied'[r]) : applied'[r][i] = i
        <3>1. \A i \in 1..Len(applied'[r]) : i \in 1..Len(applied[r]) \/ i = Len(applied[r]) + 1
            BY <1>1, <2>2
        <3>2. \A i \in 1..Len(applied[r]) : applied[r][i] = i
            BY DEF InTurn
        <3> QED
            BY <2>2, <3>1, <3>2
    <2>6. Coming(r)' = Coming(r)
        BY DEF Coming
    <2>7. Len(held'[r]) = 0
        BY <2>1
    <2> QED
        BY <2>1, <2>3, <2>4, <2>5, <2>6, <2>7 DEF InTurn
<1> QED
    BY <1>2, <1>3

(* Of its own step a side keeps the order of what it has.                  *)
LEMMA HandlingMoves ==
    ASSUME NEW r \in Role, InTurn(r), handling[r] # "add", handling'[r] # "add",
           mail'[r] = mail[r], held'[r] = held[r], applied'[r] = applied[r],
           gathered'[OtherSide(r)] = gathered[OtherSide(r)]
    PROVE  InTurn(r)'
<1>1. Coming(r)' = Coming(r) /\ AddingOne(r)' = AddingOne(r)
    BY DEF Coming, AddingOne
<1>2. HadSoFar(r)' = HadSoFar(r)
    BY <1>1 DEF HadSoFar
<1> QED
    BY <1>1, <1>2 DEF InTurn

LEMMA CandidateHeld ==
    ASSUME NegotiationTypes, NEW r \in Role, InTurn(r), mail[r] # <<>>, Head(mail[r]).kind = "ice",
           mail'[r] = Tail(mail[r]), handling[r] = "nothing", handling'[r] = "nothing",
           held'[r] = Append(held[r], Head(mail[r]).n), applied'[r] = applied[r],
           gathered'[OtherSide(r)] = gathered[OtherSide(r)]
    PROVE  InTurn(r)'
<1>1. AddingOne(r) = 0 /\ AddingOne(r)' = 0
    BY DEF AddingOne
<1>2. /\ Len(held[r]) \in Nat /\ Len(applied[r]) \in Nat
      /\ Len(held'[r]) = Len(held[r]) + 1
      /\ \A i \in 1..Len(held[r]) : held'[r][i] = held[r][i]
      /\ held'[r][Len(held[r]) + 1] = Head(mail[r]).n
    <2>1. Head(mail[r]) \in Mail
        BY DEF NegotiationTypes
    <2>2. Head(mail[r]).n \in Nat
        BY <2>1 DEF Mail
    <2> QED
        BY <2>2 DEF NegotiationTypes
<1>3. HadSoFar(r)' = HadSoFar(r) + 1
    <2>1. \A a, b \in Nat : a + 0 + (b + 1) = (a + 0 + b) + 1
        OBVIOUS
    <2> QED
        BY <1>1, <1>2, <2>1 DEF HadSoFar
<1>4. Head(mail[r]).n = Len(applied[r]) + 0 + (Len(held[r]) + 1)
    <2>1. \A a, b \in Nat : a + 0 + (b + 1) = (a + 0 + b) + 1
        OBVIOUS
    <2> QED
        BY <1>1, <1>2, <2>1, NextCandidate DEF HadSoFar
<1>5. \A i \in 1..Len(held'[r]) : held'[r][i] = Len(applied[r]) + 0 + i
    <2>1. \A i \in 1..Len(held'[r]) : i \in 1..Len(held[r]) \/ i = Len(held[r]) + 1
        BY <1>2
    <2>2. \A i \in 1..Len(held[r]) : held[r][i] = Len(applied[r]) + 0 + i
        BY <1>1 DEF InTurn
    <2> QED
        BY <1>2, <1>4, <2>1, <2>2
<1>6. \A i \in 1..Len(applied'[r]) : applied'[r][i] = i
    BY DEF InTurn
<1> QED
    BY <1>1, <1>3, <1>5, <1>6, CandidateTaken DEF InTurn

LEMMA CandidateIsAdded ==
    ASSUME NegotiationTypes, NEW r \in Role, InTurn(r), mail[r] # <<>>, Head(mail[r]).kind = "ice",
           mail'[r] = Tail(mail[r]), handling[r] = "nothing", handling'[r] = "add",
           adding'[r] = Head(mail[r]).n, held[r] = <<>>,
           held'[r] = held[r], applied'[r] = applied[r],
           gathered'[OtherSide(r)] = gathered[OtherSide(r)]
    PROVE  InTurn(r)'
<1>1. AddingOne(r) = 0 /\ AddingOne(r)' = 1 /\ Len(held[r]) = 0 /\ Len(applied[r]) \in Nat
    BY DEF AddingOne, NegotiationTypes
<1>2. HadSoFar(r)' = HadSoFar(r) + 1 /\ HadSoFar(r) = Len(applied[r])
    <2>1. \A a \in Nat : a + 0 + 0 = a /\ a + 1 + 0 = a + 1
        OBVIOUS
    <2> QED
        BY <1>1, <2>1 DEF HadSoFar
<1>3. adding'[r] = Len(applied'[r]) + 1
    BY <1>2, NextCandidate
<1>4. \A i \in 1..Len(applied'[r]) : applied'[r][i] = i
    BY DEF InTurn
<1>5. \A i \in 1..Len(held'[r]) : held'[r][i] = Len(applied'[r]) + 1 + i
    BY <1>1
<1> QED
    BY <1>1, <1>2, <1>3, <1>4, <1>5, CandidateTaken DEF InTurn

(* The channel is down, and nothing is asked of what comes over it.        *)
LEMMA ChannelIsDown ==
    ASSUME NegotiationInv, NEW r \in Role,
           held'[r] = held[r], handling'[r] = handling[r], described'[r] = described[r],
           Good(r)' => Good(r), ~linkUp'
    PROVE  Good(r)' => NoneWaits(r)' /\ ((linkUp /\ ~cut)' => InTurn(r)')
BY DEF NegotiationInv, CandidatesInTurn, NoneWaits

(* The other side has given up: its `bye' comes, if the channel is up.     *)
LEMMA ByeComes ==
    ASSUME NegotiationInv, NEW r \in Role,
           held'[r] = held[r], applied'[r] = applied[r], handling'[r] = handling[r],
           adding'[r] = adding[r], described'[r] = described[r],
           mail'[r] = mail[r] \/ mail'[r] = Append(mail[r], Message("bye", 0)),
           gathered'[OtherSide(r)] = gathered[OtherSide(r)],
           Good(r)' => Good(r), (linkUp /\ ~cut)' => linkUp /\ ~cut
    PROVE  Good(r)' => NoneWaits(r)' /\ ((linkUp /\ ~cut)' => InTurn(r)')
<1>1. CASE mail'[r] = mail[r]
    BY <1>1, LeftAlone
<1>2. CASE mail'[r] = Append(mail[r], Message("bye", 0))
    <2>1. Message("bye", 0) \in Mail /\ Message("bye", 0).kind # "ice"
        BY DEF Message, Mail
    <2>2. AddingOne(r)' = AddingOne(r)
        BY DEF AddingOne
    <2>3. InTurn(r) => InTurn(r)'
        BY <1>2, <2>1, <2>2, NoCandidate DEF NegotiationInv
    <2>4. NoneWaits(r) => NoneWaits(r)'
        BY DEF NoneWaits
    <2> QED
        BY <2>3, <2>4 DEF NegotiationInv, CandidatesInTurn
<1> QED
    BY <1>1, <1>2

(* A side that gives up, and a failure it is told of.                      *)
LEMMA GivesUpKeeps ==
    ASSUME NegotiationInv, NEW r \in Role, GivesUp(r),
           UNCHANGED <<handler, peers, cut, bad>>
    PROVE  NegotiationInv'
<1> DEFINE s == OtherSide(r)
<1>0. s \in Role /\ s # r /\ \A x \in Role : x = r \/ x = s
    BY DEF Role, OtherSide
<1>1. body' = [body EXCEPT ![r] = "failed"] /\ broke' = [broke EXCEPT ![r] = TRUE]
    BY DEF GivesUp
<1>9. linkUp' \in BOOLEAN /\ (linkUp' => linkUp)
    BY Zenon DEF GivesUp, Closes, NegotiationInv, NegotiationTypes
<1>10. mail'[s] = mail[s] \/ mail'[s] = Append(mail[s], Message("bye", 0))
    BY <1>0 DEF GivesUp, Sends, NegotiationInv, NegotiationTypes
<1>11. (cut' => cut) /\ cut' \in BOOLEAN /\ (~cut' => ~cut)
    BY Zenon DEF NegotiationInv, NegotiationTypes
<1>2. mail' \in [Role -> Seq(Mail)]
    BY <1>0 DEF GivesUp, Sends, Message, Mail, NegotiationInv, NegotiationTypes
<1>3. NegotiationTypes'
    <2>1. linkUp' \in BOOLEAN /\ cut' \in BOOLEAN
        BY <1>9, <1>11, Zenon DEF NegotiationInv, NegotiationTypes
    <2> QED
        BY <1>1, <1>2, <2>1 DEF handler, peers, NegotiationInv, NegotiationTypes
<1>4. DescribedFirst'
    BY <1>1 DEF handler, peers, NegotiationInv, NegotiationTypes, DescribedFirst
<1>5. ~Good(r)'
    BY <1>1 DEF Good, Running, NegotiationInv, NegotiationTypes
<1>6. Good(s)' => NoneWaits(s)' /\ ((linkUp /\ ~cut)' => InTurn(s)')
    <2>1. Good(s)' => Good(s)
        BY <1>0, <1>1 DEF Good, Running, NegotiationInv, NegotiationTypes
    <2>2. held'[s] = held[s] /\ handling'[s] = handling[s] /\ described'[s] = described[s]
        BY DEF handler
    <2>3. applied'[s] = applied[s] /\ adding'[s] = adding[s] /\ gathered'[OtherSide(s)] = gathered[OtherSide(s)]
        BY DEF peers, handler
    <2>4. (linkUp /\ ~cut)' => linkUp /\ ~cut
        BY <1>9, <1>11, Zenon
    <2> QED
        BY <1>0, <1>10, <2>1, <2>2, <2>3, <2>4, ByeComes
<1> QED
    BY <1>0, <1>3, <1>4, <1>5, <1>6 DEF NegotiationInv, CandidatesInTurn

LEMMA BreaksKeeps ==
    ASSUME NegotiationInv, NEW r \in Role, NEW rest \in [Role -> Seq(Mail)], Breaks(r, rest),
           \A x \in Role : x # r => rest[x] = mail[x], Running(r),
           UNCHANGED <<adding, described, held, peers, cut, bad>>
    PROVE  NegotiationInv'
<1> DEFINE s == OtherSide(r)
<1>0. s \in Role /\ s # r /\ \A x \in Role : x = r \/ x = s
    BY DEF Role, OtherSide
<1>1. /\ handling' = [handling EXCEPT ![r] = "nothing"] /\ broke' = [broke EXCEPT ![r] = TRUE]
      /\ body' = body \/ body' = [body EXCEPT ![r] = "failed"]
    BY DEF Breaks
<1>2. mail' \in [Role -> Seq(Mail)]
    <2>1. Message("bye", 0) \in Mail
        BY DEF Message, Mail
    <2>2. mail' = rest \/ mail' = [rest EXCEPT ![s] = Append(@, Message("bye", 0))]
        BY Zenon DEF Breaks
    <2>3. Append(rest[s], Message("bye", 0)) \in Seq(Mail)
        BY <1>0, <2>1
    <2> QED
        BY <1>0, <2>2, <2>3
<1>8. mail' = rest \/ mail' = [rest EXCEPT ![s] = Append(@, Message("bye", 0))]
    BY Zenon DEF Breaks
<1>3. linkUp' \in BOOLEAN /\ (linkUp' => linkUp)
    BY Zenon DEF Breaks, Closes, NegotiationInv, NegotiationTypes
<1>4. NegotiationTypes'
    <2>1. linkUp' \in BOOLEAN /\ cut' \in BOOLEAN
        BY <1>3, Zenon DEF NegotiationInv, NegotiationTypes
    <2> QED
        BY <1>1, <1>2, <2>1 DEF peers, Tasks, NegotiationInv, NegotiationTypes
<1>5. DescribedFirst'
    <2>1. handling'[r] = "nothing" /\ \A x \in Role : x # r => handling'[x] = handling[x]
        BY <1>1 DEF NegotiationInv, NegotiationTypes
    <2>2. body'["host"] # "offering"
        BY <1>1, Roles DEF NegotiationInv, NegotiationTypes, DescribedFirst
    <2> QED
        BY <2>1, <2>2 DEF peers, NegotiationInv, DescribedFirst
<1>6. ~Good(r)'
    BY <1>1 DEF Good, NegotiationInv, NegotiationTypes
<1>7. Good(s)' => NoneWaits(s)' /\ ((linkUp /\ ~cut)' => InTurn(s)')
    <2>1. Good(s)' => Good(s)
        BY <1>0, <1>1 DEF Good, Running, NegotiationInv, NegotiationTypes
    <2>2. held'[s] = held[s] /\ described'[s] = described[s] /\ applied'[s] = applied[s]
          /\ adding'[s] = adding[s] /\ gathered'[OtherSide(s)] = gathered[OtherSide(s)]
        BY DEF peers
    <2>3. handling'[s] = handling[s]
        BY <1>0, <1>1 DEF NegotiationInv, NegotiationTypes
    <2>4. mail'[s] = mail[s] \/ mail'[s] = Append(mail[s], Message("bye", 0))
        BY <1>0, <1>8
    <2>5. (linkUp /\ ~cut)' => linkUp /\ ~cut
        BY <1>3, Zenon
    <2> QED
        BY <1>0, <2>1, <2>2, <2>3, <2>4, <2>5, ByeComes
<1> QED
    BY <1>0, <1>4, <1>5, <1>6, <1>7 DEF NegotiationInv, CandidatesInTurn

(* The rest, an action at a time.                                          *)
LEMMA SetsKeep ==
    ASSUME NegotiationInv, NEW r \in Role, SetRemote(r) \/ SetLocal(r)
    PROVE  NegotiationInv'
<1>1. UNCHANGED <<mail, body, broke, handler, gathered, applied, channelState>>
    BY DEF SetRemote, SetLocal
<1>2. hasLocal' \in [Role -> BOOLEAN] /\ hasRemote' \in [Role -> BOOLEAN]
    BY DEF SetRemote, SetLocal, NegotiationInv, NegotiationTypes
<1>3. NegotiationTypes'
    <2>1. linkUp' \in BOOLEAN /\ cut' \in BOOLEAN
        BY <1>1, Zenon DEF channelState, NegotiationInv, NegotiationTypes
    <2> QED
        BY <1>1, <1>2, <2>1 DEF handler, NegotiationInv, NegotiationTypes
<1>4. DescribedFirst'
    <2>1. bad' = bad
        BY <1>1 DEF channelState
    <2>2. CASE SetRemote(r)
        BY <1>1, <2>1, <2>2 DEF SetRemote, handler, NegotiationInv, NegotiationTypes, DescribedFirst
    <2>3. CASE SetLocal(r)
        BY <1>1, <2>1, <2>3 DEF SetLocal, handler, NegotiationInv, NegotiationTypes, DescribedFirst
    <2> QED
        BY <2>2, <2>3
<1>5. ASSUME NEW x \in Role PROVE Good(x)' => NoneWaits(x)' /\ ((linkUp /\ ~cut)' => InTurn(x)')
    <2>1. Good(x)' => Good(x)
        BY <1>1 DEF Good, Running
    <2>2. (linkUp /\ ~cut)' => linkUp /\ ~cut
        BY <1>1, Zenon DEF channelState
    <2> QED
        BY <1>1, <2>1, <2>2, LeftAlone DEF handler
<1> QED
    BY <1>3, <1>4, <1>5 DEF NegotiationInv, CandidatesInTurn

LEMMA ConnectsKeeps ==
    ASSUME NegotiationInv, NEW r \in Role, Connects(r)
    PROVE  NegotiationInv'
<1>1. /\ UNCHANGED <<mail, broke, handler, peers, channelState>> /\ body[r] = "waiting"
      /\ body' = [body EXCEPT ![r] = "ok"]
    BY DEF Connects
<1>3. NegotiationTypes'
    <2>1. linkUp' \in BOOLEAN /\ cut' \in BOOLEAN
        BY <1>1, Zenon DEF channelState, NegotiationInv, NegotiationTypes
    <2> QED
        BY <1>1, <2>1 DEF handler, peers, NegotiationInv, NegotiationTypes
<1>4. DescribedFirst'
    BY <1>1 DEF handler, peers, channelState, NegotiationInv, NegotiationTypes, DescribedFirst
<1>5. ASSUME NEW x \in Role PROVE Good(x)' => NoneWaits(x)' /\ ((linkUp /\ ~cut)' => InTurn(x)')
    <2>1. Good(x)' => Good(x)
        BY <1>1 DEF Good, Running, NegotiationInv, NegotiationTypes
    <2>2. (linkUp /\ ~cut)' => linkUp /\ ~cut
        BY <1>1, Zenon DEF channelState
    <2> QED
        BY <1>1, <2>1, <2>2, LeftAlone DEF handler, peers
<1> QED
    BY <1>3, <1>4, <1>5 DEF NegotiationInv, CandidatesInTurn

LEMMA DropsKeeps ==
    ASSUME NegotiationInv, ChannelDrops
    PROVE  NegotiationInv'
<1>1. /\ UNCHANGED <<body, broke, handler, peers, bad>> /\ linkUp' = FALSE /\ cut' = TRUE
      /\ mail' = [r \in Role |-> <<>>]
    BY DEF ChannelDrops
<1>3. NegotiationTypes'
    <2>1. linkUp' \in BOOLEAN /\ cut' \in BOOLEAN
        BY <1>1
    <2> QED
        BY <1>1, <2>1 DEF handler, peers, NegotiationInv, NegotiationTypes
<1>4. DescribedFirst'
    BY <1>1 DEF handler, peers, NegotiationInv, DescribedFirst
<1>5. ASSUME NEW x \in Role PROVE Good(x)' => NoneWaits(x)' /\ ((linkUp /\ ~cut)' => InTurn(x)')
    <2>1. Good(x)' => Good(x)
        BY <1>1 DEF Good, Running
    <2>2. ~linkUp'
        BY <1>1, Zenon
    <2> QED
        BY <1>1, <2>1, <2>2, ChannelIsDown DEF handler
<1> QED
    BY <1>3, <1>4, <1>5 DEF NegotiationInv, CandidatesInTurn

LEMMA GatherKeeps ==
    ASSUME NegotiationInv, NEW r \in Role, Gather(r)
    PROVE  NegotiationInv'
<1> DEFINE s == OtherSide(r)
<1>0. s \in Role /\ s # r /\ OtherSide(s) = r /\ \A x \in Role : x = r \/ x = s
    BY DEF Role, OtherSide
<1>1. /\ UNCHANGED <<body, broke, handler, hasLocal, hasRemote, applied, channelState>>
      /\ gathered' = [gathered EXCEPT ![r] = @ + 1]
    BY DEF Gather
<1>2. gathered'[r] = gathered[r] + 1 /\ gathered[r] \in Nat /\ gathered'[s] = gathered[s]
      /\ gathered' \in [Role -> Nat]
    BY <1>0, <1>1 DEF NegotiationInv, NegotiationTypes
<1>3. \/ linkUp /\ mail' = [mail EXCEPT ![s] = Append(@, Message("ice", gathered[r] + 1))]
      \/ ~linkUp /\ mail' = mail
    BY <1>2 DEF Gather, Sends
<1>4. mail' \in [Role -> Seq(Mail)]
    <2>1. Message("ice", gathered[r] + 1) \in Mail
        BY <1>2 DEF Message, Mail
    <2>2. Append(mail[s], Message("ice", gathered[r] + 1)) \in Seq(Mail)
        BY <1>0, <2>1 DEF NegotiationInv, NegotiationTypes
    <2> QED
        BY <1>0, <1>3, <2>2 DEF NegotiationInv, NegotiationTypes
<1>5. NegotiationTypes'
    <2>1. linkUp' \in BOOLEAN /\ cut' \in BOOLEAN
        BY <1>1, Zenon DEF channelState, NegotiationInv, NegotiationTypes
    <2> QED
        BY <1>1, <1>2, <1>4, <2>1 DEF handler, NegotiationInv, NegotiationTypes
<1>6. DescribedFirst'
    BY <1>1 DEF handler, channelState, NegotiationInv, DescribedFirst
<1>7. \A x \in Role : (Good(x)' => Good(x))
    BY <1>1 DEF Good, Running
<1>8. (linkUp /\ ~cut)' => linkUp /\ ~cut
    BY <1>1, Zenon DEF channelState
<1>9. Good(r)' => NoneWaits(r)' /\ ((linkUp /\ ~cut)' => InTurn(r)')
    <2>1. mail'[r] = mail[r]
        BY <1>0, <1>3 DEF NegotiationInv, NegotiationTypes
    <2> QED
        BY <1>1, <1>2, <1>7, <1>8, <2>1, LeftAlone DEF handler
<1>10. Good(s)' => NoneWaits(s)' /\ ((linkUp /\ ~cut)' => InTurn(s)')
    <2>1. Good(s) => NoneWaits(s) /\ (linkUp /\ ~cut => InTurn(s))
        BY <1>0 DEF NegotiationInv, CandidatesInTurn
    <2>2. NoneWaits(s) => NoneWaits(s)'
        BY <1>1 DEF NoneWaits, handler
    <2>3. ASSUME linkUp, InTurn(s) PROVE InTurn(s)'
        <3>1. mail'[s] = Append(mail[s], Message("ice", gathered[OtherSide(s)] + 1))
            BY <1>0, <1>3, <2>3 DEF NegotiationInv, NegotiationTypes
        <3> QED
            BY <1>0, <1>1, <1>2, <2>3, <3>1, CandidateComes DEF handler, NegotiationInv
    <2> QED
        BY <1>0, <1>7, <1>8, <2>1, <2>2, <2>3
<1> QED
    BY <1>0, <1>5, <1>6, <1>9, <1>10 DEF NegotiationInv, CandidatesInTurn

LEMMA OfferKeeps ==
    ASSUME NegotiationInv, OfferMade
    PROVE  NegotiationInv'
<1>1. CASE broke["viewer"]
    <2>1. GivesUp("viewer") /\ UNCHANGED <<handler, peers, cut, bad>>
        BY <1>1, Zenon DEF OfferMade
    <2> QED
        BY <2>1, GivesUpKeeps, Roles
<1>2. CASE ~broke["viewer"]
    <2>1. /\ body["viewer"] = "offering" /\ body' = [body EXCEPT !["viewer"] = "waiting"]
          /\ Sends("viewer", Message("offer", 0))
          /\ UNCHANGED <<broke, linkUp, handler, peers, cut, bad>>
        BY <1>2, Zenon DEF OfferMade
    <2>2. /\ OtherSide("viewer") = "host" /\ "host" \in Role /\ "viewer" \in Role
          /\ \A x \in Role : x = "viewer" \/ x = "host"
        BY DEF Role, OtherSide
    <2>3. \/ linkUp /\ mail' = [mail EXCEPT !["host"] = Append(@, Message("offer", 0))]
          \/ ~linkUp /\ mail' = mail
        BY <2>1, <2>2 DEF Sends
    <2>4. Message("offer", 0) \in Mail /\ Message("offer", 0).kind # "ice"
        BY DEF Message, Mail
    <2>5. mail' \in [Role -> Seq(Mail)]
        <3>1. Append(mail["host"], Message("offer", 0)) \in Seq(Mail)
            BY <2>2, <2>4 DEF NegotiationInv, NegotiationTypes
        <3> QED
            BY <2>2, <2>3, <3>1 DEF NegotiationInv, NegotiationTypes
    <2>6. NegotiationTypes'
        <3>1. linkUp' \in BOOLEAN /\ cut' \in BOOLEAN
            BY <2>1, Zenon DEF NegotiationInv, NegotiationTypes
        <3> QED
            BY <2>1, <2>5, <3>1 DEF handler, peers, NegotiationInv, NegotiationTypes
    <2>7. DescribedFirst'
        BY <2>1 DEF handler, peers, NegotiationInv, NegotiationTypes, DescribedFirst
    <2>8. \A x \in Role : (Good(x)' => Good(x))
        BY <2>1, <2>2 DEF Good, Running, NegotiationInv, NegotiationTypes
    <2>9. (linkUp /\ ~cut)' => linkUp /\ ~cut
        BY <2>1, Zenon
    <2>10. Good("viewer")' => NoneWaits("viewer")' /\ ((linkUp /\ ~cut)' => InTurn("viewer")')
        <3>1. mail'["viewer"] = mail["viewer"]
            BY <2>2, <2>3 DEF NegotiationInv, NegotiationTypes
        <3> QED
            BY <2>1, <2>2, <2>8, <2>9, <3>1, LeftAlone DEF handler, peers
    <2>11. Good("host")' => NoneWaits("host")' /\ ((linkUp /\ ~cut)' => InTurn("host")')
        <3>1. Good("host") => NoneWaits("host") /\ (linkUp /\ ~cut => InTurn("host"))
            BY <2>2 DEF NegotiationInv, CandidatesInTurn
        <3>2. NoneWaits("host") => NoneWaits("host")'
            BY <2>1 DEF NoneWaits, handler
        <3>3. ASSUME linkUp, InTurn("host") PROVE InTurn("host")'
            <4>1. mail'["host"] = Append(mail["host"], Message("offer", 0))
                BY <2>2, <2>3, <3>3 DEF NegotiationInv, NegotiationTypes
            <4>2. AddingOne("host")' = AddingOne("host")
                BY <2>1 DEF AddingOne, handler
            <4> QED
                BY <2>1, <2>2, <2>4, <3>3, <4>1, <4>2, NoCandidate DEF handler, peers, NegotiationInv
        <3> QED
            BY <2>2, <2>8, <2>9, <3>1, <3>2, <3>3
    <2> QED
        BY <2>2, <2>6, <2>7, <2>10, <2>11 DEF NegotiationInv, CandidatesInTurn
<1> QED
    BY <1>1, <1>2

LEMMA DescribedKeeps ==
    ASSUME NegotiationInv, NEW r \in Role, Described(r)
    PROVE  NegotiationInv'
<1> DEFINE s == OtherSide(r)
<1>0. s \in Role /\ s # r /\ OtherSide(s) = r /\ \A x \in Role : x = r \/ x = s
    BY DEF Role, OtherSide
<1>1. /\ described' = [described EXCEPT ![r] = TRUE] /\ handling' = [handling EXCEPT ![r] = "flush"]
      /\ UNCHANGED <<body, broke, adding, held, peers, channelState>>
      /\ handling[r] \in {"answer", "apply"}
      /\ handling[r] = "answer" => hasLocal[r]
      /\ handling[r] = "apply" => hasRemote[r]
    BY DEF Described
<1>2. /\ handling'[r] = "flush" /\ handling[r] # "add" /\ handling'[s] = handling[s]
      /\ described'[s] = described[s]
    BY <1>0, <1>1 DEF NegotiationInv, NegotiationTypes
<1>3. \/ linkUp /\ mail' = [mail EXCEPT ![s] = Append(@, Message("answer", 0))]
      \/ mail' = mail
    BY DEF Described, Sends
<1>4. Message("answer", 0) \in Mail /\ Message("answer", 0).kind # "ice"
    BY DEF Message, Mail
<1>5. mail' \in [Role -> Seq(Mail)]
    <2>1. Append(mail[s], Message("answer", 0)) \in Seq(Mail)
        BY <1>0, <1>4 DEF NegotiationInv, NegotiationTypes
    <2> QED
        BY <1>0, <1>3, <2>1 DEF NegotiationInv, NegotiationTypes
<1>6. NegotiationTypes'
    <2>1. linkUp' \in BOOLEAN /\ cut' \in BOOLEAN
        BY <1>1, Zenon DEF channelState, NegotiationInv, NegotiationTypes
    <2>2. described' \in [Role -> BOOLEAN] /\ handling' \in [Role -> Tasks]
        BY <1>1 DEF Tasks, NegotiationInv, NegotiationTypes
    <2> QED
        BY <1>1, <1>5, <2>1, <2>2 DEF peers, NegotiationInv, NegotiationTypes
<1>7. DescribedFirst'
    <2>1. hasRemote[r]
        BY <1>1 DEF NegotiationInv, DescribedFirst
    <2>2. \A x \in Role : /\ handling'[x] \in {"answer", "apply"} => handling'[x] = handling[x]
                          /\ handling'[x] \in {"flush", "add"} => x = r \/ handling'[x] = handling[x]
                          /\ x # r => described'[x] = described[x]
        BY <1>0, <1>2
    <2>3. described'[r]
        BY <1>1 DEF NegotiationInv, NegotiationTypes
    <2> QED
        BY <1>1, <2>1, <2>2, <2>3 DEF peers, channelState, NegotiationInv, DescribedFirst
<1>8. \A x \in Role : (Good(x)' => Good(x))
    BY <1>1 DEF Good, Running
<1>9. (linkUp /\ ~cut)' => linkUp /\ ~cut
    BY <1>1, Zenon DEF channelState
<1>10. Good(r)' => NoneWaits(r)' /\ ((linkUp /\ ~cut)' => InTurn(r)')
    <2>1. mail'[r] = mail[r]
        BY <1>0, <1>3 DEF NegotiationInv, NegotiationTypes
    <2>2. NoneWaits(r)'
        BY <1>2 DEF NoneWaits
    <2>3. InTurn(r) => InTurn(r)'
        BY <1>1, <1>2, <2>1, HandlingMoves DEF peers
    <2> QED
        BY <1>8, <1>9, <2>2, <2>3 DEF NegotiationInv, CandidatesInTurn
<1>11. Good(s)' => NoneWaits(s)' /\ ((linkUp /\ ~cut)' => InTurn(s)')
    <2>1. Good(s) => NoneWaits(s) /\ (linkUp /\ ~cut => InTurn(s))
        BY <1>0 DEF NegotiationInv, CandidatesInTurn
    <2>2. NoneWaits(s) => NoneWaits(s)'
        BY <1>1, <1>2 DEF NoneWaits
    <2>3. CASE mail' = mail
        BY <1>0, <1>1, <1>2, <1>8, <1>9, <2>3, LeftAlone DEF peers
    <2>4. ASSUME linkUp, mail' = [mail EXCEPT ![s] = Append(@, Message("answer", 0))], InTurn(s)
          PROVE  InTurn(s)'
        <3>1. mail'[s] = Append(mail[s], Message("answer", 0))
            BY <1>0, <2>4 DEF NegotiationInv, NegotiationTypes
        <3>2. AddingOne(s)' = AddingOne(s)
            BY <1>2 DEF AddingOne
        <3> QED
            BY <1>0, <1>1, <1>2, <1>4, <2>4, <3>1, <3>2, NoCandidate DEF peers, NegotiationInv
    <2> QED
        BY <1>0, <1>3, <1>8, <1>9, <2>1, <2>2, <2>3, <2>4
<1> QED
    BY <1>0, <1>6, <1>7, <1>10, <1>11 DEF NegotiationInv, CandidatesInTurn

(* One candidate is applied: the end of its wait or of its call.           *)
LEMMA AppliesKeeps ==
    ASSUME NegotiationInv, NEW r \in Role, Flush(r) \/ AddCandidate(r)
    PROVE  NegotiationInv'
<1> DEFINE s == OtherSide(r)
<1>0. s \in Role /\ s # r /\ \A x \in Role : x = r \/ x = s
    BY DEF Role, OtherSide
<1>1. /\ UNCHANGED <<mail, body, broke, adding, described, hasLocal, hasRemote, gathered, channelState>>
      /\ handling[r] \in {"flush", "add"}
      /\ handling' = handling \/ handling' = [handling EXCEPT ![r] = "nothing"]
    BY DEF Flush, AddCandidate
<1>2. /\ held[r] \in Seq(Nat) /\ applied[r] \in Seq(Nat) /\ adding[r] \in Nat
      /\ held[r] # <<>> => Tail(held[r]) \in Seq(Nat) /\ Head(held[r]) \in Nat
    BY DEF NegotiationInv, NegotiationTypes
<1>3. \/ held' = held
      \/ held[r] # <<>> /\ held' = [held EXCEPT ![r] = Tail(@)]
    BY DEF Flush, AddCandidate
<1>4. \/ applied' = applied
      \/ held[r] # <<>> /\ applied' = [applied EXCEPT ![r] = Append(@, Head(held[r]))]
      \/ applied' = [applied EXCEPT ![r] = Append(@, adding[r])]
    BY DEF Flush, AddCandidate
<1>5. held' \in [Role -> Seq(Nat)] /\ applied' \in [Role -> Seq(Nat)]
    <2>1. held' \in [Role -> Seq(Nat)]
        BY <1>2, <1>3 DEF NegotiationInv, NegotiationTypes
    <2>2. Append(applied[r], adding[r]) \in Seq(Nat)
        BY <1>2
    <2>3. held[r] # <<>> => Append(applied[r], Head(held[r])) \in Seq(Nat)
        BY <1>2
    <2>4. applied' \in [Role -> Seq(Nat)]
        BY <1>4, <2>2, <2>3 DEF NegotiationInv, NegotiationTypes
    <2> QED
        BY <2>1, <2>4
<1>6. held'[s] = held[s] /\ applied'[s] = applied[s] /\ handling'[s] = handling[s]
    BY <1>0, <1>1, <1>3, <1>4 DEF NegotiationInv, NegotiationTypes
<1>7. NegotiationTypes'
    <2>1. linkUp' \in BOOLEAN /\ cut' \in BOOLEAN
        BY <1>1, Zenon DEF channelState, NegotiationInv, NegotiationTypes
    <2>2. handling' \in [Role -> Tasks]
        BY <1>1 DEF Tasks, NegotiationInv, NegotiationTypes
    <2> QED
        BY <1>1, <1>5, <2>1, <2>2 DEF NegotiationInv, NegotiationTypes
<1>8. DescribedFirst'
    <2>1. described[r] /\ hasRemote[r]
        BY <1>1 DEF NegotiationInv, DescribedFirst
    <2>2. \A x \in Role : handling'[x] # "nothing" => handling'[x] = handling[x]
        BY <1>0, <1>1 DEF NegotiationInv, NegotiationTypes
    <2>3. \A x \in Role : applied'[x] = applied[x] \/ x = r
        BY <1>0, <1>6
    <2> QED
        BY <1>1, <2>1, <2>2, <2>3 DEF channelState, NegotiationInv, DescribedFirst
<1>9. \A x \in Role : (Good(x)' => Good(x))
    BY <1>1 DEF Good, Running
<1>10. (linkUp /\ ~cut)' => linkUp /\ ~cut
    BY <1>1, Zenon DEF channelState
<1>11. Good(s)' => NoneWaits(s)' /\ ((linkUp /\ ~cut)' => InTurn(s)')
    BY <1>0, <1>1, <1>6, <1>9, <1>10, LeftAlone
<1>12. Good(r)' => NoneWaits(r)' /\ ((linkUp /\ ~cut)' => InTurn(r)')
    <2> SUFFICES ASSUME Good(r) PROVE NoneWaits(r)' /\ (InTurn(r) => InTurn(r)')
        BY <1>9, <1>10 DEF NegotiationInv, CandidatesInTurn
    <2>0. described[r] /\ described'[r]
        BY <1>1 DEF NegotiationInv, DescribedFirst
    <2>1. CASE AddCandidate(r)
        <3>1. /\ handling[r] = "add" /\ handling'[r] = "nothing" /\ held'[r] = held[r]
              /\ applied'[r] = Append(applied[r], adding[r])
            BY <2>1 DEF AddCandidate, NegotiationInv, NegotiationTypes
        <3>2. held[r] = <<>>
            BY <2>0, <3>1 DEF NegotiationInv, CandidatesInTurn, NoneWaits
        <3>3. NoneWaits(r)'
            BY <3>1, <3>2 DEF NoneWaits
        <3>4. InTurn(r) => InTurn(r)'
            BY <1>1, <3>1, <3>2, CandidateApplied DEF NegotiationInv
        <3> QED
            BY <3>3, <3>4
    <2>2. CASE Flush(r) /\ held[r] = <<>>
        <3>1. /\ handling[r] = "flush" /\ handling'[r] = "nothing" /\ held'[r] = held[r]
              /\ applied'[r] = applied[r]
            BY <2>2 DEF Flush, NegotiationInv, NegotiationTypes
        <3>2. NoneWaits(r)'
            BY <2>2, <3>1 DEF NoneWaits
        <3>3. InTurn(r) => InTurn(r)'
            BY <1>1, <3>1, HandlingMoves
        <3> QED
            BY <3>2, <3>3
    <2>3. CASE Flush(r) /\ held[r] # <<>>
        <3>1. /\ handling[r] = "flush" /\ handling'[r] = "flush" /\ held'[r] = Tail(held[r])
              /\ applied'[r] = Append(applied[r], Head(held[r]))
            BY <2>3 DEF Flush, NegotiationInv, NegotiationTypes
        <3>2. NoneWaits(r)'
            BY <3>1 DEF NoneWaits
        <3>3. InTurn(r) => InTurn(r)'
            BY <1>1, <2>3, <3>1, CandidateApplied DEF NegotiationInv
        <3> QED
            BY <3>2, <3>3
    <2> QED
        BY <2>1, <2>2, <2>3
<1> QED
    BY <1>0, <1>7, <1>8, <1>11, <1>12 DEF NegotiationInv, CandidatesInTurn

LEMMA HandleKeeps ==
    ASSUME NegotiationInv, NEW r \in Role, Handle(r)
    PROVE  NegotiationInv'
<1> DEFINE m == Head(mail[r])
           rest == [mail EXCEPT ![r] = Tail(@)]
           s == OtherSide(r)
<1>0. s \in Role /\ s # r /\ \A x \in Role : x = r \/ x = s
    BY DEF Role, OtherSide
<1>1. /\ mail[r] # <<>> /\ Running(r) /\ handling[r] = "nothing"
      /\ UNCHANGED <<described, peers, cut, bad>>
    BY DEF Handle, Free
<1>2. mail[r] \in Seq(Mail) /\ m \in Mail /\ Tail(mail[r]) \in Seq(Mail)
    BY <1>1 DEF NegotiationInv, NegotiationTypes
<1>3. rest \in [Role -> Seq(Mail)] /\ rest[r] = Tail(mail[r]) /\ \A x \in Role : x # r => rest[x] = mail[x]
    BY <1>2 DEF NegotiationInv, NegotiationTypes
<1>4. CASE ~Acceptable(r, m)
    <2>1. Breaks(r, rest) /\ UNCHANGED <<adding, held>>
        BY <1>4 DEF Handle
    <2> HIDE DEF rest
    <2> QED
        BY <1>1, <1>3, <2>1, BreaksKeeps
<1>5. CASE Acceptable(r, m)
    <2>1. mail' = rest /\ UNCHANGED <<body, broke, linkUp>>
        BY <1>5 DEF Handle
    <2>2. \/ /\ m.kind = "ice" /\ ~described[r]
             /\ held' = [held EXCEPT ![r] = Append(@, m.n)] /\ UNCHANGED <<handling, adding>>
          \/ /\ ~(m.kind = "ice" /\ ~described[r])
             /\ handling' = [handling EXCEPT ![r] = CASE m.kind = "offer" -> "answer"
                                        [] m.kind = "answer" -> "apply" [] OTHER -> "add"]
             /\ adding' = [adding EXCEPT ![r] = m.n] /\ UNCHANGED held
        BY <1>5 DEF Handle, HoldsBack
    <2>3. m.n \in Nat /\ m.kind \in {"ice", "offer", "answer", "bye"}
        BY <1>2 DEF Mail
    <2>4. m.kind # "bye" /\ (m.kind \in {"offer", "answer"} => ~described[r] /\ s \notin bad)
          /\ (m.kind = "offer" => r = "host")
        BY <1>5 DEF Acceptable
    <2> DEFINE next == IF m.kind = "ice" THEN IF described[r] THEN "add" ELSE "nothing"
                       ELSE IF m.kind = "offer" THEN "answer" ELSE "apply"
    <2>5. handling' = [handling EXCEPT ![r] = next]
        BY <1>1, <2>2, <2>3, <2>4 DEF NegotiationInv, NegotiationTypes
    <2>6. held' \in [Role -> Seq(Nat)] /\ adding' \in [Role -> Nat]
        <3>1. Append(held[r], m.n) \in Seq(Nat)
            BY <2>3 DEF NegotiationInv, NegotiationTypes
        <3> QED
            BY <2>2, <2>3, <3>1, ZenonT(60) DEF NegotiationInv, NegotiationTypes
    <2>7. handling' \in [Role -> Tasks] /\ handling'[r] = next /\ handling'[s] = handling[s]
        BY <1>0, <2>5 DEF Tasks, NegotiationInv, NegotiationTypes
    <2>8. NegotiationTypes'
        <3>1. linkUp' \in BOOLEAN /\ cut' \in BOOLEAN
            BY <1>1, <2>1, Zenon DEF NegotiationInv, NegotiationTypes
        <3>2. mail' \in [Role -> Seq(Mail)]
            BY <1>3, <2>1
        <3> QED
            BY <1>1, <2>1, <2>6, <2>7, <3>1, <3>2 DEF peers, NegotiationInv, NegotiationTypes
    <2>9. DescribedFirst'
        <3>1. /\ handling'[r] \in {"answer", "apply"} => s \notin bad
              /\ handling'[r] = "answer" => r = "host"
              /\ handling'[r] \in {"flush", "add"} => described[r]
            BY <2>3, <2>4, <2>7
        <3> QED
            BY <1>0, <1>1, <2>1, <2>7, <3>1 DEF peers, NegotiationInv, DescribedFirst
    <2>10. \A x \in Role : (Good(x)' => Good(x))
        BY <2>1 DEF Good, Running
    <2>11. (linkUp /\ ~cut)' => linkUp /\ ~cut
        BY <1>1, <2>1, Zenon
    <2>12. Good(s)' => NoneWaits(s)' /\ ((linkUp /\ ~cut)' => InTurn(s)')
        <3>1. mail'[s] = mail[s] /\ held'[s] = held[s] /\ adding'[s] = adding[s]
            BY <1>0, <1>3, <2>1, <2>2 DEF NegotiationInv, NegotiationTypes
        <3> QED
            BY <1>0, <1>1, <2>7, <2>10, <2>11, <3>1, LeftAlone DEF peers
    <2>13. Good(r)' => NoneWaits(r)' /\ ((linkUp /\ ~cut)' => InTurn(r)')
        <3> SUFFICES ASSUME Good(r) PROVE NoneWaits(r)' /\ (InTurn(r) => InTurn(r)')
            BY <2>10, <2>11 DEF NegotiationInv, CandidatesInTurn
        <3>1. described[r] => held[r] = <<>>
            BY <1>1 DEF NegotiationInv, CandidatesInTurn, NoneWaits
        <3>2. mail'[r] = Tail(mail[r])
            BY <1>3, <2>1
        <3>3. CASE m.kind = "ice" /\ ~described[r]
            <4>1. held'[r] = Append(held[r], m.n) /\ handling'[r] = "nothing"
                BY <2>2, <2>7, <3>3 DEF NegotiationInv, NegotiationTypes
            <4>2. NoneWaits(r)'
                BY <1>1, <3>3, <4>1 DEF NoneWaits
            <4> QED
                BY <1>1, <3>2, <3>3, <4>1, <4>2, CandidateHeld DEF peers, NegotiationInv
        <3>4. CASE m.kind = "ice" /\ described[r]
            <4>1. held'[r] = held[r] /\ handling'[r] = "add" /\ adding'[r] = m.n
                BY <2>2, <2>7, <3>4 DEF NegotiationInv, NegotiationTypes
            <4>2. NoneWaits(r)'
                BY <1>1, <3>1, <3>4, <4>1 DEF NoneWaits
            <4> QED
                BY <1>1, <3>1, <3>2, <3>4, <4>1, <4>2, CandidateIsAdded DEF peers, NegotiationInv
        <3>5. CASE m.kind # "ice"
            <4>1. held'[r] = held[r] /\ handling'[r] \in {"answer", "apply"} /\ ~described[r]
                BY <2>2, <2>3, <2>4, <2>7, <3>5
            <4>2. NoneWaits(r)'
                BY <1>1, <4>1 DEF NoneWaits
            <4>3. AddingOne(r)' = AddingOne(r)
                BY <1>1, <4>1 DEF AddingOne
            <4> QED
                BY <1>1, <3>2, <3>5, <4>1, <4>2, <4>3, NoCandidateTaken DEF peers, NegotiationInv
        <3> QED
            BY <3>3, <3>4, <3>5
    <2> QED
        BY <1>0, <2>8, <2>9, <2>12, <2>13 DEF NegotiationInv, CandidatesInTurn
<1> QED
    BY <1>4, <1>5

(* A call that fails when run() is over changes nothing of the other side. *)
LEMMA LateFailureKeeps ==
    ASSUME NegotiationInv, NEW r \in Role, Breaks(r, mail), body[r] # "waiting",
           UNCHANGED <<adding, described, held, peers, cut, bad>>
    PROVE  NegotiationInv'
<1> DEFINE s == OtherSide(r)
<1>0. s \in Role /\ s # r /\ \A x \in Role : x = r \/ x = s
    BY DEF Role, OtherSide
<1>1. /\ handling' = [handling EXCEPT ![r] = "nothing"] /\ broke' = [broke EXCEPT ![r] = TRUE]
      /\ UNCHANGED <<mail, body, linkUp>>
    BY DEF Breaks
<1>2. handling'[r] = "nothing" /\ \A x \in Role : x # r => handling'[x] = handling[x]
    BY <1>1 DEF NegotiationInv, NegotiationTypes
<1>3. NegotiationTypes'
    <2>1. linkUp' \in BOOLEAN /\ cut' \in BOOLEAN
        BY <1>1, Zenon DEF NegotiationInv, NegotiationTypes
    <2> QED
        BY <1>1, <2>1 DEF peers, Tasks, NegotiationInv, NegotiationTypes
<1>4. DescribedFirst'
    BY <1>1, <1>2 DEF peers, NegotiationInv, DescribedFirst
<1>5. ~Good(r)'
    BY <1>1 DEF Good, NegotiationInv, NegotiationTypes
<1>6. Good(s)' => NoneWaits(s)' /\ ((linkUp /\ ~cut)' => InTurn(s)')
    <2>1. Good(s)' => Good(s)
        BY <1>0, <1>1 DEF Good, Running, NegotiationInv, NegotiationTypes
    <2>2. (linkUp /\ ~cut)' => linkUp /\ ~cut
        BY <1>1, Zenon
    <2> QED
        BY <1>0, <1>1, <1>2, <2>1, <2>2, LeftAlone DEF peers
<1> QED
    BY <1>0, <1>3, <1>4, <1>5, <1>6 DEF NegotiationInv, CandidatesInTurn

LEMMA NegotiationKeeps == NegotiationInv /\ [NegotiationNext]_negotiationVars => NegotiationInv'
<1> SUFFICES ASSUME NegotiationInv, [NegotiationNext]_negotiationVars
             PROVE  NegotiationInv'
    OBVIOUS
<1>1. CASE UNCHANGED negotiationVars
    <2>1. UNCHANGED <<mail, body, broke, handling, adding, described, held, hasLocal, hasRemote,
                      gathered, applied, linkUp, cut, bad>>
        BY <1>1 DEF negotiationVars, peers, channelState, handler
    <2>2. NegotiationTypes' /\ DescribedFirst'
        BY <2>1 DEF NegotiationInv, NegotiationTypes, DescribedFirst
    <2>3. \A r \in Role : (Good(r)' => Good(r))
        BY <2>1 DEF Good, Running
    <2>4. (linkUp /\ ~cut)' => linkUp /\ ~cut
        BY <2>1, Zenon
    <2>5. CandidatesInTurn'
        BY <2>1, <2>3, <2>4, LeftAlone DEF CandidatesInTurn
    <2> QED
        BY <2>2, <2>5 DEF NegotiationInv
<1>2. CASE ChannelDrops
    BY <1>2, DropsKeeps
<1>3. ASSUME NEW r \in Role, SetRemote(r) \/ SetLocal(r) \/ Gather(r) \/ Connects(r) \/ Fails(r)
      PROVE  NegotiationInv'
    BY <1>3, SetsKeep, GatherKeeps, ConnectsKeeps, GivesUpKeeps DEF Fails
<1>4. ASSUME NEW r \in Role, Proceeds(r) PROVE NegotiationInv'
    <2>1. CASE Handle(r) \/ Described(r) \/ Flush(r) \/ AddCandidate(r)
        BY <2>1, HandleKeeps, DescribedKeeps, AppliesKeeps
    <2>2. CASE NoticesClose(r)
        <3>1. mail \in [Role -> Seq(Mail)]
            BY DEF NegotiationInv, NegotiationTypes
        <3> QED
            BY <2>2, <3>1, BreaksKeeps DEF NoticesClose
    <2>3. CASE CallFails(r) /\ Running(r)
        <3>1. mail \in [Role -> Seq(Mail)]
            BY DEF NegotiationInv, NegotiationTypes
        <3> QED
            BY <2>3, <3>1, BreaksKeeps DEF CallFails
    <2>4. CASE CallFails(r) /\ ~Running(r)
        <3>1. Breaks(r, mail) /\ UNCHANGED <<adding, described, held, peers, cut, bad>>
            BY <2>4 DEF CallFails
        <3>2. body[r] # "waiting"
            BY <2>4 DEF Running
        <3> QED
            BY <3>1, <3>2, LateFailureKeeps
    <2>5. CASE r = "viewer" /\ (OfferMade \/ OfferFails)
        BY <2>5, OfferKeeps, GivesUpKeeps DEF OfferFails
    <2> QED
        BY <1>4, <2>1, <2>2, <2>3, <2>4, <2>5 DEF Proceeds
<1> QED
    BY <1>1, <1>2, <1>3, <1>4 DEF NegotiationNext

(* What the invariant says of the promises.                                *)
LEMMA CountsUp ==
    ASSUME NEW p \in Seq(Nat), NEW q \in Seq(Nat), \A i \in 1..Len(p) : p[i] = i,
           \A i \in 1..Len(q) : q[i] = Len(p) + i
    PROVE  /\ p \o q \in Seq(Nat) /\ Len(p \o q) = Len(p) + Len(q)
           /\ \A i \in 1..Len(p \o q) : (p \o q)[i] = i
<1>1. Len(p) \in Nat /\ Len(q) \in Nat
    OBVIOUS
<1>2. /\ p \o q \in Seq(Nat) /\ Len(p \o q) = Len(p) + Len(q)
      /\ \A i \in 1..(Len(p) + Len(q)) :
            (p \o q)[i] = IF i <= Len(p) THEN p[i] ELSE q[i - Len(p)]
    BY ConcatProperties, Zenon
<1>3. \A i \in 1..(Len(p) + Len(q)) : i <= Len(p) => i \in 1..Len(p)
    BY <1>1
<1>4. \A i \in 1..(Len(p) + Len(q)) :
         ~(i <= Len(p)) => i - Len(p) \in 1..Len(q) /\ Len(p) + (i - Len(p)) = i
    BY <1>1
<1> DEFINE t == p \o q
<1>5. t = p \o q
    OBVIOUS
<1> HIDE DEF t
<1>6. /\ t \in Seq(Nat) /\ Len(t) = Len(p) + Len(q)
      /\ \A i \in 1..(Len(p) + Len(q)) : t[i] = IF i <= Len(p) THEN p[i] ELSE q[i - Len(p)]
    BY <1>2, <1>5, Zenon
<1>7. \A i \in 1..Len(t) : t[i] = i
    BY <1>3, <1>4, <1>6
<1> QED
    BY <1>5, <1>6, <1>7, Zenon

LEMMA Counting ==
    ASSUME NEW t \in Seq(Nat), \A i \in 1..Len(t) : t[i] = i
    PROVE  t = [i \in 1..Len(t) |-> i]
OBVIOUS

LEMMA CandidatesAreOnce ==
    ASSUME NegotiationTypes, NEW r \in Role, InTurn(r)
    PROVE  /\ Had(r) = [i \in 1..Len(Had(r)) |-> i] /\ Len(Had(r)) <= gathered[OtherSide(r)]
           /\ {mail[r][i].n : i \in Coming(r)} = (Len(Had(r)) + 1)..gathered[OtherSide(r)]
           /\ \A i, j \in Coming(r) : i < j => mail[r][i].n < mail[r][j].n
<1> DEFINE a == applied[r]
           b == IF handling[r] = "add" THEN <<adding[r]>> ELSE <<>>
           c == held[r]
           d == a \o b
<1>1. /\ a \in Seq(Nat) /\ b \in Seq(Nat) /\ c \in Seq(Nat) /\ Len(b) = AddingOne(r)
      /\ Len(a) \in Nat /\ Len(b) \in Nat /\ Len(c) \in Nat
      /\ \A i \in 1..Len(a) : a[i] = i
      /\ \A i \in 1..Len(b) : b[i] = Len(a) + i
      /\ \A i \in 1..Len(c) : c[i] = Len(a) + Len(b) + i
    BY DEF NegotiationTypes, InTurn, AddingOne
<1>2. Had(r) = d \o c
    BY DEF Had
<1> HIDE DEF b
<1>3. /\ d \in Seq(Nat) /\ Len(d) = Len(a) + Len(b)
      /\ \A i \in 1..Len(d) : d[i] = i
    BY <1>1, CountsUp
<1>4. \A i \in 1..Len(c) : c[i] = Len(d) + i
    BY <1>1, <1>3
<1> HIDE DEF a, c, d
<1>5. /\ Had(r) \in Seq(Nat) /\ Len(Had(r)) = Len(d) + Len(c)
      /\ \A i \in 1..Len(Had(r)) : Had(r)[i] = i
    <2>1. c \in Seq(Nat)
        BY <1>1
    <2>2. /\ d \o c \in Seq(Nat) /\ Len(d \o c) = Len(d) + Len(c)
          /\ \A i \in 1..Len(d \o c) : (d \o c)[i] = i
        BY <1>3, <1>4, <2>1, CountsUp, Zenon
    <2> QED
        BY <1>2, <2>2, Zenon
<1>6. Len(Had(r)) = HadSoFar(r)
    BY <1>1, <1>3, <1>5 DEF HadSoFar, a, c
<1>7. {mail[r][i].n : i \in Coming(r)} = (HadSoFar(r) + 1)..gathered[OtherSide(r)]
    BY DEF InTurn
<1>8. Had(r) = [i \in 1..Len(Had(r)) |-> i]
    BY <1>5, Counting
<1> QED
    BY <1>6, <1>7, <1>8 DEF InTurn

LEMMA NegotiationPromises ==
    NegotiationInv => HeldUntilDescribed /\ EveryCandidateOnce /\ InsecureIsRefused
<1> SUFFICES ASSUME NegotiationInv PROVE HeldUntilDescribed /\ EveryCandidateOnce /\ InsecureIsRefused
    OBVIOUS
<1>1. HeldUntilDescribed /\ InsecureIsRefused
    BY DEF NegotiationInv, DescribedFirst, HeldUntilDescribed, InsecureIsRefused
<1>2. \A r \in Role : Running(r) /\ ~broke[r] /\ ~cut /\ linkUp => InTurn(r)
    BY DEF NegotiationInv, CandidatesInTurn, Good
<1>3. EveryCandidateOnce
    BY <1>2, CandidatesAreOnce DEF EveryCandidateOnce, NegotiationInv
<1> QED
    BY <1>1, <1>3

-----------------------------------------------------------------------------
(* The sealed channel.                                                     *)

Said == [kind : {"challenge", "error", "sealed"}, n : Nat, forged : BOOLEAN]
Piece == [part : {"header", "body"}, of : Said]

HostTypes ==
    /\ wire \in Seq(Piece) /\ spoken \in Nat /\ touched \subseteq {"forged", "lost", "again"}
    /\ allowed \in BOOLEAN /\ asked \in BOOLEAN
ReaderTypes ==
    /\ buffered \in Seq(Piece) /\ framed \in BOOLEAN /\ batch \in Seq(Said)
    /\ busy \in {"no", "reading", "draining", "handing"}
ViewerTypes ==
    /\ inbox \in Seq(Said) /\ pending \in Seq(Said) /\ delivered \in Seq(Nat) /\ highest \in Nat
    /\ stage \in {"hello", "challenged", "draining", "answer", "answered", "session", "failed"}
    /\ control \in {"none", "expect", "session"}
    /\ closed \in BOOLEAN /\ left \in BOOLEAN
    /\ stage = "challenged" => inbox # <<>>
SecureTypes == HostTypes /\ ReaderTypes /\ ViewerTypes

LEMMA Pieces ==
    ASSUME NEW m \in Said
    PROVE  /\ Framed(m) \in Seq(Piece) /\ Len(Framed(m)) = 2
           /\ Framed(m)[1] = [part |-> "header", of |-> m] /\ Framed(m)[2] = [part |-> "body", of |-> m]
BY DEF Framed, Piece

LEMMA Saids ==
    /\ \A k \in {"challenge", "error"} : Plain(k) \in Said /\ Plain(k).kind = k /\ ~Plain(k).forged
    /\ \A n \in Nat : /\ Sealed(n) \in Said /\ Sealed(n).kind = "sealed" /\ Sealed(n).n = n
                      /\ ~Sealed(n).forged
BY DEF Plain, Sealed, Said

LEMMA SecureInitTypes == SecureInit => SecureTypes
<1> SUFFICES ASSUME SecureInit PROVE SecureTypes
    OBVIOUS
<1>1. Framed(Plain("challenge")) \in Seq(Piece) /\ Framed(Plain("error")) \in Seq(Piece)
    BY Pieces, Saids
<1>2. wire \in Seq(Piece)
    BY <1>1, Zenon DEF SecureInit
<1>3. allowed \in BOOLEAN /\ asked \in BOOLEAN /\ framed \in BOOLEAN /\ closed \in BOOLEAN /\ left \in BOOLEAN
    BY Zenon DEF SecureInit
<1> QED
    BY <1>2, <1>3 DEF SecureInit, SecureTypes, HostTypes, ReaderTypes, ViewerTypes

(* What is done on the way leaves frames.                                  *)
LEMMA CutTypes ==
    ASSUME NEW i, wire \in Seq(Piece), Whole(i)
    PROVE  /\ Cut(i) \in Seq(Piece) /\ Len(Cut(i)) = Len(wire) - 2 /\ wire[i].of \in Said
           /\ \A j \in 1..(i - 1) : Cut(i)[j] = wire[j]
           /\ \A j \in i..(Len(wire) - 2) : Cut(i)[j] = wire[j + 2]
<1>1. i \in 1..(Len(wire) - 1) /\ Len(wire) \in Nat /\ i \in Nat /\ i \in 1..Len(wire)
    BY DEF Whole
<1> DEFINE p == SubSeq(wire, 1, i - 1)
           q == SubSeq(wire, i + 2, Len(wire))
<1>2. /\ p \in Seq(Piece) /\ Len(p) = i - 1 /\ \A j \in 1..(i - 1) : p[j] = wire[j]
    BY <1>1
<1>3. /\ q \in Seq(Piece) /\ Len(q) = Len(wire) - i - 1
      /\ \A j \in 1..(Len(wire) - i - 1) : q[j] = wire[i + 2 + j - 1]
    BY <1>1
<1>4. Cut(i) = p \o q
    BY DEF Cut
<1>5. wire[i].of \in Said
    <2>1. wire[i] \in Piece
        BY <1>1
    <2> QED
        BY <2>1 DEF Piece
<1> HIDE DEF p, q
<1>6. /\ p \o q \in Seq(Piece) /\ Len(p \o q) = Len(p) + Len(q)
      /\ \A j \in 1..(Len(p) + Len(q)) : (p \o q)[j] = IF j <= Len(p) THEN p[j] ELSE q[j - Len(p)]
    BY <1>2, <1>3, ConcatProperties, Zenon
<1> DEFINE t == Cut(i)
<1>7. /\ t \in Seq(Piece) /\ Len(t) = Len(wire) - 2
      /\ \A j \in 1..(Len(wire) - 2) : t[j] = IF j <= i - 1 THEN p[j] ELSE q[j - (i - 1)]
    <2>1. (i - 1) + (Len(wire) - i - 1) = Len(wire) - 2
        BY <1>1
    <2> QED
        BY <1>2, <1>3, <1>4, <1>6, <2>1
<1> HIDE DEF t
<1>8. \A j \in 1..(i - 1) : t[j] = wire[j]
    <2>1. \A j \in 1..(i - 1) : j \in 1..(Len(wire) - 2) /\ j <= i - 1
        BY <1>1
    <2> QED
        BY <1>2, <1>7, <2>1
<1>9. \A j \in i..(Len(wire) - 2) : t[j] = wire[j + 2]
    <2>1. \A j \in i..(Len(wire) - 2) : /\ j \in 1..(Len(wire) - 2) /\ ~(j <= i - 1)
                                       /\ j - (i - 1) \in 1..(Len(wire) - i - 1)
                                       /\ i + 2 + (j - (i - 1)) - 1 = j + 2
        BY <1>1
    <2> QED
        BY <1>3, <1>7, <2>1
<1> QED
    BY <1>5, <1>7, <1>8, <1>9 DEF t

(* A frame that is put at the end, and one that is altered in its place.   *)
LEMMA PutAtEnd ==
    ASSUME NEW q \in Seq(Piece), NEW m \in Said
    PROVE  /\ q \o Framed(m) \in Seq(Piece) /\ Len(q \o Framed(m)) = Len(q) + 2
           /\ \A j \in 1..Len(q) : (q \o Framed(m))[j] = q[j]
           /\ (q \o Framed(m))[Len(q) + 1] = [part |-> "header", of |-> m]
           /\ (q \o Framed(m))[Len(q) + 2] = [part |-> "body", of |-> m]
<1> DEFINE f == Framed(m)
           t == q \o f
<1>1. /\ f \in Seq(Piece) /\ Len(f) = 2 /\ Len(q) \in Nat
      /\ f[1] = [part |-> "header", of |-> m] /\ f[2] = [part |-> "body", of |-> m]
    BY Pieces
<1> HIDE DEF f
<1>2. /\ t \in Seq(Piece) /\ Len(t) = Len(q) + Len(f)
      /\ \A j \in 1..(Len(q) + Len(f)) : t[j] = IF j <= Len(q) THEN q[j] ELSE f[j - Len(q)]
    BY <1>1, ConcatProperties, Zenon
<1> HIDE DEF t
<1>3. \A j \in 1..Len(q) : t[j] = q[j]
    <2>1. \A j \in 1..Len(q) : j \in 1..(Len(q) + Len(f)) /\ j <= Len(q)
        BY <1>1
    <2> QED
        BY <1>2, <2>1
<1>4. t[Len(q) + 1] = f[1] /\ t[Len(q) + 2] = f[2]
    <2>1. /\ Len(q) + 1 \in 1..(Len(q) + Len(f)) /\ ~(Len(q) + 1 <= Len(q)) /\ (Len(q) + 1) - Len(q) = 1
          /\ Len(q) + 2 \in 1..(Len(q) + Len(f)) /\ ~(Len(q) + 2 <= Len(q)) /\ (Len(q) + 2) - Len(q) = 2
        BY <1>1
    <2> QED
        BY <1>2, <2>1
<1> QED
    BY <1>1, <1>2, <1>3, <1>4 DEF t, f

LEMMA AlterTypes ==
    ASSUME NEW q \in Seq(Piece), NEW i \in 1..(Len(q) - 1), NEW t,
           t = [q EXCEPT ![i] = Altered(@), ![i + 1] = Altered(@)]
    PROVE  /\ t \in Seq(Piece) /\ Len(t) = Len(q)
           /\ t[i] = Altered(q[i]) /\ t[i + 1] = Altered(q[i + 1])
           /\ \A j \in 1..Len(q) : j # i /\ j # i + 1 => t[j] = q[j]
<1>1. /\ Len(q) \in Nat /\ i \in 1..Len(q) /\ i + 1 \in 1..Len(q) /\ i + 1 # i
      /\ \A j \in 1..Len(q) : q[j] \in Piece
    OBVIOUS
<1>2. \A x \in Piece : Altered(x) \in Piece
    BY DEF Piece, Said, Altered, Forged
<1> QED
    BY <1>1, <1>2

LEMMA MeddleTypes ==
    ASSUME HostTypes, Meddle
    PROVE  HostTypes'
<1>1. Forged(Sealed(1)) \in Said
    BY DEF Forged, Sealed, Said
<1>2. touched' \subseteq {"forged", "lost", "again"}
    BY DEF Meddle, HostTypes
<1>3. wire' \in Seq(Piece)
    <2>1. CASE wire' = wire \o Framed(Forged(Sealed(1)))
        BY <1>1, <2>1, PutAtEnd DEF HostTypes
    <2>2. ASSUME NEW i \in 1..Len(wire), Whole(i),
                 wire' = [wire EXCEPT ![i] = Altered(@), ![i + 1] = Altered(@)]
          PROVE  wire' \in Seq(Piece)
        <3>1. i \in 1..(Len(wire) - 1)
            BY <2>2 DEF Whole
        <3> QED
            BY <2>2, <3>1, AlterTypes DEF HostTypes
    <2>3. ASSUME NEW i \in 1..Len(wire), Whole(i),
                 wire' \in {Cut(i), Cut(i) \o Framed(wire[i].of), wire \o Framed(wire[i].of)}
          PROVE  wire' \in Seq(Piece)
        <3>1. Cut(i) \in Seq(Piece) /\ wire[i].of \in Said
            BY <2>3, CutTypes DEF HostTypes
        <3>2. Cut(i) \o Framed(wire[i].of) \in Seq(Piece) /\ wire \o Framed(wire[i].of) \in Seq(Piece)
            BY <3>1, PutAtEnd DEF HostTypes
        <3> QED
            BY <2>3, <3>1, <3>2
    <2> QED
        BY <2>1, <2>2, <2>3 DEF Meddle
<1>4. allowed' \in BOOLEAN /\ asked' \in BOOLEAN
    BY Zenon DEF Meddle, HostTypes
<1> QED
    BY <1>2, <1>3, <1>4 DEF Meddle, HostTypes

LEMMA HostKeepsTypes ==
    ASSUME SecureTypes, HostSeals \/ HostErrs \/ Meddle
    PROVE  SecureTypes'
<1>1. HostTypes'
    <2>1. CASE HostSeals
        <3>1. spoken' \in Nat /\ Sealed(spoken') \in Said
            BY <2>1, Saids DEF HostSeals, SecureTypes, HostTypes
        <3>2. wire' \in Seq(Piece)
            BY <2>1, <3>1, PutAtEnd DEF HostSeals, SecureTypes, HostTypes
        <3>3. allowed' \in BOOLEAN /\ asked' \in BOOLEAN
            BY <2>1, Zenon DEF HostSeals, SecureTypes, HostTypes
        <3> QED
            BY <2>1, <3>1, <3>2, <3>3 DEF HostSeals, SecureTypes, HostTypes
    <2>2. CASE HostErrs
        <3>1. Framed(Plain("error")) \in Seq(Piece)
            BY Pieces, Saids
        <3>2. allowed' \in BOOLEAN /\ asked' \in BOOLEAN
            BY <2>2, Zenon DEF HostErrs, SecureTypes, HostTypes
        <3> QED
            BY <2>2, <3>1, <3>2 DEF HostErrs, SecureTypes, HostTypes
    <2>3. CASE Meddle
        BY <2>3, MeddleTypes DEF SecureTypes
    <2> QED
        BY <2>1, <2>2, <2>3
<1>2. UNCHANGED <<reader, viewerEnd>>
    BY DEF HostSeals, HostErrs, Meddle
<1>3. ReaderTypes' /\ ViewerTypes'
    <2>1. framed' \in BOOLEAN /\ closed' \in BOOLEAN /\ left' \in BOOLEAN
        BY <1>2, Zenon DEF reader, viewerEnd, SecureTypes, ReaderTypes, ViewerTypes
    <2> QED
        BY <1>2, <2>1 DEF reader, viewerEnd, SecureTypes, ReaderTypes, ViewerTypes
<1> QED
    BY <1>1, <1>3 DEF SecureTypes

(* What a frame does that is opened, or does not open.                     *)
LEMMA OutcomeTypes ==
    ViewerTypes => Outcome \in {"hello", "challenged", "draining", "answer", "answered", "session", "failed"}
BY DEF ViewerTypes, Outcome

LEMMA OfferCases ==
    ASSUME NEW m, Offer(m), ViewerTypes
    PROVE  /\ highest' = m.n /\ UNCHANGED <<inbox, left>>
           /\ \/ /\ control = "none" /\ control' = "none" /\ pending' = Append(pending, m)
                 /\ UNCHANGED <<stage, closed, inboxFails, delivered>>
              \/ /\ control = "expect" /\ control' = "none" /\ stage = "answer" /\ m.n = 1
                 /\ stage' = "answered" /\ UNCHANGED <<pending, closed, inboxFails, delivered>>
              \/ /\ control = "expect" /\ control' = "none"
                 /\ closed' = TRUE /\ stage' = Outcome /\ UNCHANGED <<pending, delivered>>
              \/ /\ control = "session" /\ control' = "session" /\ delivered' = Append(delivered, m.n)
                 /\ UNCHANGED <<pending, stage, closed, inboxFails>>
<1>1. /\ highest' = m.n /\ UNCHANGED <<inbox, left>>
      /\ control' = IF control = "expect" THEN "none" ELSE control
    BY DEF Offer
<1>2. CASE control = "none"
    BY <1>1, <1>2 DEF Offer
<1>3. CASE control = "expect"
    <2>1. IF stage = "answer" /\ m.n = 1
          THEN stage' = "answered" /\ UNCHANGED <<pending, closed, inboxFails, delivered>>
          ELSE closed' = TRUE /\ inboxFails' = TRUE /\ stage' = Outcome /\ UNCHANGED <<pending, delivered>>
        BY <1>3 DEF Offer
    <2> QED
        BY <1>1, <1>3, <2>1
<1>4. CASE control = "session"
    BY <1>1, <1>4 DEF Offer
<1> QED
    BY <1>2, <1>3, <1>4 DEF ViewerTypes

LEMMA ControlTypes ==
    ASSUME ViewerTypes, NEW m \in Said, ToControl(m)
    PROVE  ViewerTypes'
<1>0. m.n \in Nat
    BY DEF Said
<1>1. CASE OpensNext(m)
    <2>1. Offer(m)
        BY <1>1 DEF ToControl
    <2>2. closed' \in BOOLEAN /\ left' \in BOOLEAN
        BY <2>1, OfferCases, Zenon DEF ViewerTypes
    <2>3. pending' \in Seq(Said) /\ delivered' \in Seq(Nat)
        <3>1. Append(pending, m) \in Seq(Said) /\ Append(delivered, m.n) \in Seq(Nat)
            BY <1>0 DEF ViewerTypes
        <3>2. /\ pending' = pending \/ pending' = Append(pending, m)
              /\ delivered' = delivered \/ delivered' = Append(delivered, m.n)
            BY <2>1, OfferCases
        <3> QED
            BY <3>1, <3>2 DEF ViewerTypes
    <2>4. /\ stage' \in {"hello", "challenged", "draining", "answer", "answered", "session", "failed"}
          /\ control' \in {"none", "expect", "session"} /\ highest' \in Nat /\ inbox' = inbox
        BY <1>0, <2>1, OfferCases, OutcomeTypes DEF ViewerTypes
    <2>5. stage' = "challenged" => stage = "challenged"
        BY <2>1, OfferCases DEF Outcome
    <2> QED
        BY <2>2, <2>3, <2>4, <2>5 DEF ViewerTypes
<1>2. CASE ~OpensNext(m)
    <2>1. CloseLink
        BY <1>2 DEF ToControl
    <2>2. closed' \in BOOLEAN /\ left' \in BOOLEAN
        BY <2>1, Zenon DEF CloseLink, ViewerTypes
    <2> QED
        BY <2>1, <2>2, OutcomeTypes DEF CloseLink, Outcome, ViewerTypes
<1> QED
    BY <1>1, <1>2

LEMMA ViewerKeepsTypes ==
    ASSUME SecureTypes, Runs \/ Answer \/ Return \/ Timeout \/ LinkDrops
    PROVE  SecureTypes'
<1>1. HostTypes'
    <2>1. UNCHANGED <<wire, spoken, allowed, touched>>
        BY DEF Runs, ReadHeader, ReadBody, Drain, Expect, Hand, Handed, Answer, Return, Timeout,
               LinkDrops, hostEnd
    <2>2. asked' = asked \/ asked' = ~closed
        BY Zenon DEF Runs, ReadHeader, ReadBody, Drain, Expect, Hand, Handed, Answer, Return, Timeout,
               LinkDrops, hostEnd
    <2>3. asked' \in BOOLEAN /\ allowed' \in BOOLEAN
        BY <2>1, <2>2, Zenon DEF SecureTypes, HostTypes
    <2> QED
        BY <2>1, <2>3 DEF SecureTypes, HostTypes
<1>0. /\ buffered # <<>> => Tail(buffered) \in Seq(Piece)
      /\ batch # <<>> => Tail(batch) \in Seq(Said) /\ batch[1] \in Said
    BY DEF SecureTypes, ReaderTypes
<1>2. buffered' \in Seq(Piece)
    <2>1. buffered' = buffered \/ buffered' = <<>> \/ (buffered # <<>> /\ buffered' = Tail(buffered))
        BY Zenon DEF Runs, ReadHeader, ReadBody, Drain, Expect, Hand, Handed, Answer, Return, Timeout,
               LinkDrops, reader
    <2>2. buffered \in Seq(Piece) /\ <<>> \in Seq(Piece)
        BY DEF SecureTypes, ReaderTypes
    <2> QED
        BY <1>0, <2>1, <2>2, Zenon
<1>3. batch' \in Seq(Said)
    <2>1. stage = "challenged" => Tail(inbox) \in Seq(Said)
        BY DEF SecureTypes, ViewerTypes
    <2>2. \/ batch' = batch \/ batch' = pending \/ (batch # <<>> /\ batch' = Tail(batch))
          \/ (stage = "challenged" /\ batch' = Tail(inbox))
        BY Zenon DEF Runs, ReadHeader, ReadBody, Drain, Expect, Hand, Handed, Answer, Return, Timeout,
               LinkDrops, reader
    <2> QED
        BY <1>0, <2>1, <2>2 DEF SecureTypes, ReaderTypes, ViewerTypes
<1>9. framed' \in BOOLEAN
    BY Zenon DEF Runs, ReadHeader, ReadBody, Drain, Expect, Hand, Handed, Answer, Return, Timeout,
           LinkDrops, reader, SecureTypes, ReaderTypes
<1>10. busy' \in {"no", "reading", "draining", "handing"}
    <2>1. busy' = busy \/ busy' = "no" \/ busy' = "draining" \/ busy' = "handing"
        BY Zenon DEF Runs, ReadHeader, ReadBody, Drain, Expect, Hand, Handed, Answer, Return, Timeout,
               LinkDrops, reader
    <2> QED
        BY <2>1 DEF SecureTypes, ReaderTypes
<1>11. ReaderTypes'
    BY <1>2, <1>3, <1>9, <1>10 DEF ReaderTypes
<1>4. CASE ReadHeader \/ Handed \/ (ReadBody /\ buffered = <<>>)
    <2>1. UNCHANGED viewerEnd
        BY <1>4 DEF ReadHeader, Handed, ReadBody
    <2>2. ViewerTypes'
        BY <2>1 DEF viewerEnd, SecureTypes, ViewerTypes
    <2> QED
        BY <1>1, <1>11, <2>2 DEF SecureTypes
<1>5. CASE ReadBody /\ buffered # <<>>
    <2> DEFINE m == buffered[1].of
    <2>1. m \in Said
        <3>1. buffered[1] \in Piece
            BY <1>5 DEF SecureTypes, ReaderTypes
        <3> QED
            BY <3>1 DEF Piece
    <2> HIDE DEF m
    <2>2. ToInbox(m) \/ ToControl(m)
        BY <1>5 DEF ReadBody, m
    <2>4. CASE ToInbox(m)
        <3>1. closed' \in BOOLEAN /\ left' \in BOOLEAN
            BY <2>4, Zenon DEF ToInbox, SecureTypes, ViewerTypes
        <3>2. inbox' \in Seq(Said) /\ inbox' # <<>>
            <4>1. <<m>> \in Seq(Said) /\ inbox \in Seq(Said) /\ Len(<<m>>) = 1
                BY <2>1 DEF SecureTypes, ViewerTypes
            <4>2. <<m>> \o inbox \in Seq(Said) /\ Len(<<m>> \o inbox) = Len(<<m>>) + Len(inbox)
                BY <4>1, ConcatProperties, Zenon
            <4>3. <<m>> \o inbox # <<>>
                <5>1. Len(<<m>> \o inbox) # 0
                    BY <4>1, <4>2
                <5> QED
                    BY <5>1
            <4>4. Append(inbox, m) \in Seq(Said) /\ Append(inbox, m) # <<>>
                <5>1. Append(inbox, m) \in Seq(Said) /\ Len(Append(inbox, m)) = Len(inbox) + 1 /\ Len(inbox) \in Nat
                    BY <2>1, <4>1
                <5>2. Len(Append(inbox, m)) # 0
                    BY <5>1
                <5> QED
                    BY <5>1, <5>2
            <4>5. inbox' = <<m>> \o inbox \/ inbox' = Append(inbox, m)
                BY <2>4, Zenon DEF ToInbox
            <4> QED
                BY <4>2, <4>3, <4>4, <4>5, Zenon
        <3>3. /\ UNCHANGED <<control, highest, pending, delivered>>
              /\ stage' \in {"challenged", stage}
            BY <2>4 DEF ToInbox
        <3>4. ViewerTypes'
            BY <3>1, <3>2, <3>3 DEF SecureTypes, ViewerTypes
        <3> QED
            BY <1>1, <1>11, <3>4 DEF SecureTypes
    <2>5. CASE ToControl(m)
        <3>1. ViewerTypes'
            BY <2>1, <2>5, ControlTypes DEF SecureTypes
        <3> QED
            BY <1>1, <1>11, <3>1 DEF SecureTypes
    <2> QED
        BY <2>2, <2>4, <2>5
<1>6. CASE Drain
    <2>1. batch[1] \in Said /\ ToControl(batch[1])
        BY <1>0, <1>6 DEF Drain
    <2>2. ViewerTypes'
        BY <2>1, ControlTypes DEF SecureTypes
    <2> QED
        BY <1>1, <1>11, <2>2 DEF SecureTypes
<1>7. CASE Hand
    <2>1. batch[1].n \in Nat
        <3>1. batch[1] \in Said
            BY <1>0, <1>7 DEF Hand
        <3> QED
            BY <3>1 DEF Said
    <2>2. closed' \in BOOLEAN /\ left' \in BOOLEAN
        BY <1>7, Zenon DEF Hand, SecureTypes, ViewerTypes
    <2>3. delivered' \in Seq(Nat)
        <3>1. Append(delivered, batch[1].n) \in Seq(Nat)
            BY <2>1 DEF SecureTypes, ViewerTypes
        <3>2. delivered' = delivered \/ delivered' = Append(delivered, batch[1].n)
            BY <1>7 DEF Hand
        <3> QED
            BY <3>1, <3>2 DEF SecureTypes, ViewerTypes
    <2>4. /\ stage' \in {stage, Outcome, "answered"} /\ control' \in {control, "none"}
          /\ UNCHANGED <<inbox, pending, highest>>
        BY <1>7 DEF Hand
    <2>5. ViewerTypes'
        BY <2>2, <2>3, <2>4, OutcomeTypes DEF Outcome, SecureTypes, ViewerTypes
    <2> QED
        BY <1>1, <1>11, <2>5 DEF SecureTypes
<1>8. CASE Expect \/ Return \/ Answer \/ Timeout \/ LinkDrops
    <2>1. closed' \in BOOLEAN /\ left' \in BOOLEAN
        BY <1>8, Zenon DEF Expect, Return, Answer, Timeout, LinkDrops, CloseLink, SecureTypes, ViewerTypes
    <2>2. /\ stage' \in {"failed", "answer", "session", "draining", stage} /\ highest' = highest
          /\ delivered' = delivered
        BY <1>8 DEF Expect, Return, Answer, Timeout, LinkDrops, CloseLink, Outcome
    <2>3. control' \in {"none", "expect", "session", control} /\ (pending' = pending \/ pending' = <<>>)
        BY <1>8 DEF Expect, Return, Answer, Timeout, LinkDrops, CloseLink
    <2>4. inbox' = inbox \/ (inbox' = <<>> /\ stage' # "challenged")
        BY <1>8 DEF Expect, Return, Answer, Timeout, LinkDrops, CloseLink
    <2>5. /\ inbox \in Seq(Said) /\ pending \in Seq(Said) /\ delivered \in Seq(Nat) /\ highest \in Nat
          /\ <<>> \in Seq(Said)
          /\ stage = "challenged" => inbox # <<>>
        BY DEF SecureTypes, ViewerTypes
    <2>6. stage' = "challenged" => stage = "challenged"
        BY <2>2
    <2>7. /\ inbox' \in Seq(Said) /\ pending' \in Seq(Said) /\ delivered' \in Seq(Nat) /\ highest' \in Nat
          /\ stage' = "challenged" => inbox' # <<>>
        BY <2>2, <2>3, <2>4, <2>5, <2>6, Zenon
    <2>8. /\ stage' \in {"hello", "challenged", "draining", "answer", "answered", "session", "failed"}
          /\ control' \in {"none", "expect", "session"}
        BY <2>2, <2>3 DEF SecureTypes, ViewerTypes
    <2>9. ViewerTypes'
        BY <2>1, <2>8, <2>7, Zenon DEF ViewerTypes
    <2> QED
        BY <1>1, <1>11, <2>9 DEF SecureTypes
<1> QED
    BY <1>4, <1>5, <1>6, <1>7, <1>8 DEF Runs

(* What is on its way: what is buffered and what is still on the wire.     *)
Total == Len(buffered) + Len(wire)
Stream == [i \in 1..Total |-> IF i <= Len(buffered) THEN buffered[i] ELSE wire[i - Len(buffered)]]

(* How the stage, the handler and what is under way go together.           *)
LinkShape ==
    /\ stage = "failed" => closed \/ left
    /\ busy # "reading" => buffered = <<>>
    /\ busy \in {"no", "reading"} => batch = <<>>
    /\ busy = "handing" => pending = <<>>
    /\ busy = "draining" <=> stage = "draining"
    /\ stage = "hello" => inbox = <<>>
    /\ stage \in {"hello", "challenged"} => busy \in {"no", "reading"} /\ highest = 0 /\ pending = <<>>
    /\ stage \in {"hello", "challenged", "draining", "answered"} => control = "none"
    /\ stage = "answer" => control = "expect"
    /\ stage = "session" <=> control = "session"
    /\ stage = "session" => allowed /\ pending = <<>>
    /\ delivered # <<>> => stage = "session"

(* What the host sealed has its numbers, and what was opened goes up.      *)
Told(m) == m.kind = "sealed" /\ ~m.forged => m.n <= spoken
LinkOrder ==
    /\ highest <= spoken
    /\ \A i \in 1..Len(wire) : Told(wire[i].of)
    /\ \A i \in 1..Len(buffered) : Told(buffered[i].of)
    /\ \A i \in 1..Len(inbox) : Told(inbox[i])
    /\ busy = "draining" => \A i \in 1..Len(batch) : Told(batch[i])
    /\ \A i \in 1..Len(delivered) : delivered[i] \in 1..highest
    /\ \A i \in 1..Len(pending) : pending[i].n \in 1..highest
    /\ \A i, j \in 1..Len(pending) : i < j => pending[i].n < pending[j].n
    /\ busy = "handing" =>
          /\ \A i \in 1..Len(batch) : batch[i].n \in 1..highest
          /\ \A i, j \in 1..Len(batch) : i < j => batch[i].n < batch[j].n
          /\ \A i \in 1..Len(batch), j \in 1..Len(delivered) : delivered[j] < batch[i].n

(* Frames follow one another, and a forged one is somewhere until the link *)
(* ends.                                                                   *)
FramesOf(s, t, read) ==
    /\ \A i \in 1..(t - 1) : s[i].part = "header" => s[i + 1] = [part |-> "body", of |-> s[i].of]
    /\ \A i \in 1..(t - 1) : s[i].part = "body" => s[i + 1].part = "header"
    /\ t > 0 => s[t].part = "body" /\ s[1].part = IF read THEN "body" ELSE "header"
    /\ t = 0 => ~read
    /\ \A i \in 1..t : s[i].of.forged => s[i].of.kind = "sealed"
HasForged(s, t) == \E i \in 1..t : s[i].part = "body" /\ s[i].of.forged
Frames ==
    /\ FramesOf(Stream, Total, framed)
    /\ \A i \in 1..Len(inbox) : inbox[i].forged => inbox[i].kind = "sealed"
ForgedIsThere ==
    \/ HasForged(Stream, Total)
    \/ \E i \in 1..Len(inbox) : inbox[i].forged
    \/ busy = "draining" /\ \E i \in 1..Len(batch) : batch[i].forged
NotUnnoticed == "forged" \in touched /\ "lost" \notin touched => ForgedIsThere

(* An honest link: what is on its way continues what was opened.           *)
Off == IF framed THEN 1 ELSE 0
Carries(s, t, off, h, d) ==
    /\ t + off = 2 * d
    /\ \A m \in 1..d :
          /\ 2 * m - off \in 1..t /\ s[2 * m - off] = [part |-> "body", of |-> Sealed(h + m)]
          /\ 2 * m - 1 - off >= 1 => s[2 * m - 1 - off] = [part |-> "header", of |-> Sealed(h + m)]
Continues == asked /\ inbox = <<>> /\ Carries(Stream, Total, Off, highest, spoken - highest)
Honest == touched = {} /\ ~closed /\ allowed
HonestShape ==
    /\ stage \in {"hello", "challenged"} => ~asked /\ spoken = 0
    /\ stage = "hello" => /\ Total + Off = 2
                          /\ \A i \in 1..Total : Stream[i].of = Plain("challenge")
    /\ stage = "challenged" => inbox = <<Plain("challenge")>> /\ Total = 0 /\ ~framed
    /\ stage \in {"draining", "answer", "answered", "session"} => Continues
    /\ stage \in {"draining", "answer"} => batch = <<>> /\ pending = <<>> /\ highest = 0
    /\ stage = "answered" =>
          /\ batch = <<>> /\ highest >= 1 /\ Len(pending) = highest - 1
          /\ \A i \in 1..Len(pending) : pending[i].n = i + 1
    /\ stage = "session" =>
          /\ highest >= 1 /\ Len(delivered) + Len(batch) = highest - 1
          /\ \A i \in 1..Len(delivered) : delivered[i] = i + 1
          /\ \A i \in 1..Len(batch) : batch[i].n = Len(delivered) + i + 1

LEMMA ChunkKeepsTypes ==
    ASSUME SecureTypes, NEW k, Chunk(k)
    PROVE  SecureTypes'
<1>1. k \in 1..Len(wire) /\ wire \in Seq(Piece) /\ buffered \in Seq(Piece) /\ Len(wire) \in Nat
    BY DEF Chunk, SecureTypes, HostTypes, ReaderTypes
<1>2. SubSeq(wire, 1, k) \in Seq(Piece) /\ SubSeq(wire, k + 1, Len(wire)) \in Seq(Piece)
    BY <1>1
<1>3. buffered' \in Seq(Piece) /\ wire' \in Seq(Piece)
    <2>1. buffered \o SubSeq(wire, 1, k) \in Seq(Piece)
        BY <1>1, <1>2, ConcatProperties, Zenon
    <2> QED
        BY <1>2, <2>1 DEF Chunk
<1>4. allowed' \in BOOLEAN /\ asked' \in BOOLEAN /\ framed' \in BOOLEAN /\ closed' \in BOOLEAN /\ left' \in BOOLEAN
    BY Zenon DEF Chunk, viewerEnd, SecureTypes, HostTypes, ReaderTypes, ViewerTypes
<1>5. HostTypes' /\ ReaderTypes'
    BY <1>3, <1>4 DEF Chunk, SecureTypes, HostTypes, ReaderTypes
<1>6. ViewerTypes'
    BY <1>4 DEF Chunk, viewerEnd, SecureTypes, ViewerTypes
<1> QED
    BY <1>5, <1>6 DEF SecureTypes

LEMMA SecureKeepsTypes == SecureTypes /\ [SecureNext]_secureVars => SecureTypes'
<1> SUFFICES ASSUME SecureTypes, [SecureNext]_secureVars PROVE SecureTypes'
    OBVIOUS
<1>1. CASE UNCHANGED secureVars
    <2>1. /\ allowed' \in BOOLEAN /\ asked' \in BOOLEAN /\ framed' \in BOOLEAN
          /\ closed' \in BOOLEAN /\ left' \in BOOLEAN
        BY <1>1, Zenon DEF secureVars, hostEnd, reader, viewerEnd, SecureTypes, HostTypes, ReaderTypes, ViewerTypes
    <2>2. HostTypes' /\ ReaderTypes'
        BY <1>1, <2>1 DEF secureVars, hostEnd, reader, SecureTypes, HostTypes, ReaderTypes
    <2>3. ViewerTypes'
        BY <1>1, <2>1 DEF secureVars, viewerEnd, SecureTypes, ViewerTypes
    <2> QED
        BY <2>2, <2>3 DEF SecureTypes
<1> QED
    BY <1>1, HostKeepsTypes, ChunkKeepsTypes, ViewerKeepsTypes DEF SecureNext

LEMMA ShapeAtFirst == SecureInit => LinkShape
BY DEF SecureInit, LinkShape

LEMMA ControlShape ==
    ASSUME SecureTypes, LinkShape, NEW m \in Said, ToControl(m), busy \in {"reading", "draining"},
           stage \notin {"hello", "challenged"}
    PROVE  /\ stage' = "failed" => closed' \/ left'
           /\ stage' \notin {"hello", "challenged"}
           /\ stage' = "draining" <=> stage = "draining"
           /\ stage' \in {"draining", "answered"} => control' = "none"
           /\ stage' = "answer" => control' = "expect"
           /\ stage' = "session" <=> control' = "session"
           /\ stage' = "session" => stage = "session" /\ pending' = <<>>
           /\ delivered' # <<>> => stage' = "session"
<1>1. CASE ~OpensNext(m)
    BY <1>1 DEF ToControl, CloseLink, Outcome, LinkShape, SecureTypes, ViewerTypes
<1>2. CASE OpensNext(m)
    <2>1. Offer(m)
        BY <1>2 DEF ToControl
    <2>2. /\ UNCHANGED left
          /\ \/ /\ control = "none" /\ control' = "none" /\ UNCHANGED <<stage, closed, delivered>>
             \/ /\ control = "expect" /\ control' = "none" /\ stage = "answer"
                /\ stage' = "answered" /\ UNCHANGED <<pending, delivered>>
             \/ /\ control = "expect" /\ control' = "none"
                /\ closed' = TRUE /\ stage' = Outcome /\ UNCHANGED <<pending, delivered>>
             \/ /\ control = "session" /\ control' = "session" /\ UNCHANGED <<pending, stage, closed>>
        BY <2>1, OfferCases DEF SecureTypes
    <2> QED
        BY <2>2 DEF Outcome, LinkShape
<1> QED
    BY <1>1, <1>2

LEMMA ShapeKeeps == SecureTypes /\ LinkShape /\ [SecureNext]_secureVars => LinkShape'
<1> SUFFICES ASSUME SecureTypes, LinkShape, [SecureNext]_secureVars PROVE LinkShape'
    OBVIOUS
<1>1. CASE UNCHANGED secureVars
    BY <1>1 DEF secureVars, hostEnd, reader, viewerEnd, LinkShape
<1>2. CASE HostSeals \/ HostErrs \/ Meddle
    <2>1. UNCHANGED <<allowed, reader, viewerEnd>>
        BY <1>2 DEF HostSeals, HostErrs, Meddle
    <2> QED
        BY <2>1 DEF reader, viewerEnd, LinkShape
<1>3. ASSUME NEW k \in 1..MaxChunk, Chunk(k) PROVE LinkShape'
    BY <1>3 DEF Chunk, viewerEnd, LinkShape
<1>4. CASE ReadHeader \/ Handed \/ (ReadBody /\ buffered = <<>>)
    <2>1. UNCHANGED <<batch, viewerEnd, allowed>> /\ (busy' = busy \/ busy' = "no") /\ busy \in {"reading", "handing"}
          /\ (busy' # "reading" => buffered' = <<>>) /\ (busy' = "no" => batch = <<>>)
        BY <1>4 DEF ReadHeader, Handed, ReadBody, hostEnd, LinkShape
    <2> QED
        BY <2>1 DEF viewerEnd, LinkShape
<1>5. CASE ReadBody /\ buffered # <<>>
    <2> DEFINE m == buffered[1].of
    <2>1. m \in Said
        <3>1. buffered[1] \in Piece
            BY <1>5 DEF SecureTypes, ReaderTypes
        <3> QED
            BY <3>1 DEF Piece
    <2> HIDE DEF m
    <2>2. /\ busy = "reading" /\ batch' = batch /\ allowed' = allowed
          /\ (busy' = "reading" \/ (busy' = "no" /\ buffered' = <<>>))
          /\ IF stage \in {"hello", "challenged"} THEN ToInbox(m) ELSE ToControl(m)
        BY <1>5 DEF ReadBody, m, hostEnd
    <2>3. CASE stage \in {"hello", "challenged"}
        <3>1. /\ stage' = "challenged"
              /\ UNCHANGED <<closed, inboxFails, control, highest, pending, delivered, left>>
            BY <2>2, <2>3 DEF ToInbox
        <3> QED
            BY <2>2, <2>3, <3>1 DEF LinkShape
    <2>4. CASE stage \notin {"hello", "challenged"}
        <3>1. ToControl(m)
            BY <2>2, <2>4
        <3> QED
            BY <2>1, <2>2, <2>4, <3>1, ControlShape DEF LinkShape
    <2> QED
        BY <2>3, <2>4
<1>6. CASE Drain
    <2>1. /\ batch[1] \in Said /\ ToControl(batch[1]) /\ busy = "draining" /\ busy' = busy
          /\ buffered' = buffered /\ allowed' = allowed
        BY <1>6 DEF Drain, hostEnd, SecureTypes, ReaderTypes
    <2>2. stage = "draining"
        BY <2>1 DEF LinkShape
    <2> QED
        BY <2>1, <2>2, ControlShape DEF LinkShape
<1>7. CASE Expect
    BY <1>7 DEF Expect, hostEnd, LinkShape
<1>8. CASE Hand
    <2>1. /\ busy = "handing" /\ UNCHANGED <<busy, allowed, buffered, inbox, highest, pending, left>>
          /\ \/ control = "session" /\ UNCHANGED <<stage, closed, control>>
             \/ /\ control # "session" /\ control' = "none" /\ UNCHANGED delivered
                /\ \/ stage' = (IF stage = "answer" THEN "answered" ELSE stage) /\ UNCHANGED closed
                   \/ closed' = TRUE /\ stage' = Outcome
        BY <1>8 DEF Hand, hostEnd
    <2>2. CASE control = "session"
        BY <2>1, <2>2 DEF LinkShape
    <2>3. CASE control # "session"
        BY <2>1, <2>3 DEF Outcome, LinkShape
    <2> QED
        BY <2>2, <2>3
<1>9. CASE Answer
    BY <1>9 DEF Answer, LinkShape
<1>10. CASE Return
    BY <1>10 DEF Return, hostEnd, LinkShape
<1>11. CASE Timeout
    BY <1>11 DEF Timeout, hostEnd, reader, LinkShape
<1>12. CASE LinkDrops
    BY <1>12 DEF LinkDrops, CloseLink, Outcome, hostEnd, reader, LinkShape
<1> QED
    BY <1>1, <1>2, <1>3, <1>4, <1>5, <1>6, <1>7, <1>8, <1>9, <1>10, <1>11, <1>12 DEF SecureNext, Runs

LEMMA FramedOf == ASSUME NEW m \in Said PROVE \A i \in 1..Len(Framed(m)) : Framed(m)[i].of = m
<1>1. \A i \in 1..2 : i = 1 \/ i = 2
    OBVIOUS
<1>2. /\ Len(Framed(m)) = 2 /\ Framed(m)[1].of = m /\ Framed(m)[2].of = m
    BY DEF Framed
<1> QED
    BY <1>1, <1>2

LEMMA OrderAtFirst == SecureInit => LinkOrder
<1> SUFFICES ASSUME SecureInit PROVE LinkOrder
    OBVIOUS
<1>1. \A i \in 1..Len(wire) : Told(wire[i].of)
    <2>1. \A k \in {"challenge", "error"} : Told(Plain(k))
        BY Saids DEF Told
    <2>2. wire = Framed(Plain("challenge")) \/ wire = Framed(Plain("error"))
        BY Zenon DEF SecureInit
    <2>3. Plain("challenge") \in Said /\ Plain("error") \in Said
        BY Saids
    <2>4. \/ \A i \in 1..Len(wire) : wire[i].of = Plain("challenge")
          \/ \A i \in 1..Len(wire) : wire[i].of = Plain("error")
        BY <2>2, <2>3, FramedOf, Zenon
    <2> QED
        BY <2>1, <2>4
<1> QED
    BY <1>1 DEF SecureInit, LinkOrder

(* Nothing but the wire changes, or nothing at all.                        *)
LEMMA OrderByHost ==
    ASSUME SecureTypes, LinkOrder, UNCHANGED <<reader, viewerEnd>>, spoken' \in Nat, spoken <= spoken',
           (\A i \in 1..Len(wire) : Told(wire[i].of))'
    PROVE  LinkOrder'
<1>1. \A x \in Said : Told(x) /\ x.kind = "sealed" /\ ~x.forged => x.n <= spoken'
    BY DEF Told, SecureTypes, HostTypes, Said
<1>2. /\ \A i \in 1..Len(buffered) : buffered[i].of \in Said
      /\ \A i \in 1..Len(inbox) : inbox[i] \in Said
      /\ \A i \in 1..Len(batch) : batch[i] \in Said
    <2>1. \A i \in 1..Len(buffered) : buffered[i] \in Piece
        BY DEF SecureTypes, ReaderTypes
    <2> QED
        BY <2>1 DEF Piece, SecureTypes, ReaderTypes, ViewerTypes
<1>3. highest <= spoken'
    BY DEF LinkOrder, SecureTypes, HostTypes, ViewerTypes
<1>4. /\ buffered' = buffered /\ inbox' = inbox /\ batch' = batch /\ busy' = busy
      /\ highest' = highest /\ delivered' = delivered /\ pending' = pending
    BY DEF reader, viewerEnd
<1>5. (\A i \in 1..Len(buffered) : Told(buffered[i].of))'
    <2>1. \A i \in 1..Len(buffered) : Told(buffered[i].of)
        BY DEF LinkOrder
    <2> QED
        BY <1>1, <1>2, <1>4, <2>1 DEF Told
<1>6. (\A i \in 1..Len(inbox) : Told(inbox[i]))'
    <2>1. \A i \in 1..Len(inbox) : Told(inbox[i])
        BY DEF LinkOrder
    <2> QED
        BY <1>1, <1>2, <1>4, <2>1 DEF Told
<1>7. (busy = "draining" => \A i \in 1..Len(batch) : Told(batch[i]))'
    <2>1. busy = "draining" => \A i \in 1..Len(batch) : Told(batch[i])
        BY DEF LinkOrder
    <2> QED
        BY <1>1, <1>2, <1>4, <2>1 DEF Told
<1>8. /\ highest' <= spoken'
      /\ \A i \in 1..Len(delivered') : delivered'[i] \in 1..highest'
      /\ \A i \in 1..Len(pending') : pending'[i].n \in 1..highest'
      /\ \A i, j \in 1..Len(pending') : i < j => pending'[i].n < pending'[j].n
    BY <1>3, <1>4 DEF LinkOrder
<1>9. busy' = "handing" =>
          /\ \A i \in 1..Len(batch') : batch'[i].n \in 1..highest'
          /\ \A i, j \in 1..Len(batch') : i < j => batch'[i].n < batch'[j].n
          /\ \A i \in 1..Len(batch'), j \in 1..Len(delivered') : delivered'[j] < batch'[i].n
    BY <1>4 DEF LinkOrder
<1> QED
    BY <1>5, <1>6, <1>7, <1>8, <1>9 DEF LinkOrder

LEMMA OrderMeddled ==
    ASSUME SecureTypes, LinkOrder, Meddle
    PROVE  (\A i \in 1..Len(wire) : Told(wire[i].of))'
<1>0. spoken' = spoken
    BY DEF Meddle
<1>1. wire \in Seq(Piece) /\ \A i \in 1..Len(wire) : Told(wire[i].of)
    BY DEF LinkOrder, SecureTypes, HostTypes
<1>2. \A x \in Said : Forged(x) \in Said /\ Told(Forged(x))
    BY DEF Forged, Told, Said
<1>3. \A q \in Seq(Piece), m \in Said :
        (\A i \in 1..Len(q) : Told(q[i].of)) /\ Told(m) =>
            \A i \in 1..Len(q \o Framed(m)) : Told((q \o Framed(m))[i].of)
    <2> SUFFICES ASSUME NEW q \in Seq(Piece), NEW m \in Said, \A i \in 1..Len(q) : Told(q[i].of), Told(m)
                 PROVE  \A i \in 1..Len(q \o Framed(m)) : Told((q \o Framed(m))[i].of)
        OBVIOUS
    <2>1. \A i \in 1..(Len(q) + 2) : i \in 1..Len(q) \/ i = Len(q) + 1 \/ i = Len(q) + 2
        OBVIOUS
    <2>2. /\ Len(q \o Framed(m)) = Len(q) + 2
          /\ \A j \in 1..Len(q) : (q \o Framed(m))[j] = q[j]
          /\ (q \o Framed(m))[Len(q) + 1] = [part |-> "header", of |-> m]
          /\ (q \o Framed(m))[Len(q) + 2] = [part |-> "body", of |-> m]
        BY PutAtEnd, Zenon
    <2> DEFINE t == q \o Framed(m)
    <2> HIDE DEF t
    <2>3. \A j \in 1..(Len(q) + 2) : Told(t[j].of)
        BY <2>1, <2>2 DEF t
    <2> QED
        BY <2>2, <2>3 DEF t
<1>4. ASSUME wire' = wire \o Framed(Forged(Sealed(1)))
      PROVE  \A j \in 1..Len(wire') : Told(wire'[j].of)
    <2>1. Sealed(1) \in Said
        BY Saids
    <2>2. Forged(Sealed(1)) \in Said /\ Told(Forged(Sealed(1)))
        BY <1>2, <2>1
    <2>3. \A i \in 1..Len(wire') : Told(wire'[i].of)
        BY <1>1, <1>3, <1>4, <2>2, Zenon
    <2> QED
        BY <2>3
<1>5. ASSUME NEW i \in 1..Len(wire), Whole(i),
             wire' = [wire EXCEPT ![i] = Altered(@), ![i + 1] = Altered(@)]
      PROVE  \A j \in 1..Len(wire') : Told(wire'[j].of)
    <2>1. i \in 1..(Len(wire) - 1)
        BY <1>5 DEF Whole
    <2>2. \A j \in 1..Len(wire) : wire[j] \in Piece
        BY <1>1
    <2>3. \A x \in Piece : Told(Altered(x).of)
        BY DEF Altered, Forged, Told
    <2>4. /\ Len(wire') = Len(wire) /\ i + 1 \in 1..Len(wire)
          /\ wire'[i] = Altered(wire[i]) /\ wire'[i + 1] = Altered(wire[i + 1])
          /\ \A j \in 1..Len(wire) : j # i /\ j # i + 1 => wire'[j] = wire[j]
        BY <1>1, <1>5, <2>1, AlterTypes
    <2> QED
        BY <1>1, <2>2, <2>3, <2>4
<1>6. ASSUME NEW i \in 1..Len(wire), Whole(i)
      PROVE  /\ Cut(i) \in Seq(Piece) /\ wire[i].of \in Said /\ Told(wire[i].of)
             /\ \A j \in 1..Len(Cut(i)) : Told(Cut(i)[j].of)
    <2>1. /\ Cut(i) \in Seq(Piece) /\ Len(Cut(i)) = Len(wire) - 2 /\ wire[i].of \in Said
          /\ \A j \in 1..(i - 1) : Cut(i)[j] = wire[j]
          /\ \A j \in i..(Len(wire) - 2) : Cut(i)[j] = wire[j + 2]
        BY <1>1, <1>6, CutTypes
    <2>2. \A j \in 1..(Len(wire) - 2) : /\ j \in 1..(i - 1) \/ j \in i..(Len(wire) - 2)
                                       /\ j \in 1..Len(wire) /\ j + 2 \in 1..Len(wire)
        BY <1>1
    <2> QED
        BY <1>1, <2>1, <2>2
<1>7. ASSUME NEW i \in 1..Len(wire), Whole(i),
             wire' \in {Cut(i), Cut(i) \o Framed(wire[i].of), wire \o Framed(wire[i].of)}
      PROVE  \A j \in 1..Len(wire') : Told(wire'[j].of)
    BY <1>1, <1>3, <1>6, <1>7
<1>8. ASSUME \A j \in 1..Len(wire') : Told(wire'[j].of) PROVE (\A i \in 1..Len(wire) : Told(wire[i].of))'
    BY <1>0, <1>8 DEF Told
<1> QED
    BY <1>4, <1>5, <1>7, <1>8 DEF Meddle

(* A frame that the sealed channel is given.                               *)
LEMMA OrderByControl ==
    ASSUME SecureTypes, LinkShape, LinkOrder, NEW m \in Said, Told(m), ToControl(m),
           busy \in {"reading", "draining"}, stage \notin {"hello", "challenged"}
    PROVE  /\ highest' <= spoken /\ inbox' = inbox
           /\ \A i \in 1..Len(delivered') : delivered'[i] \in 1..highest'
           /\ \A i \in 1..Len(pending') : pending'[i].n \in 1..highest'
           /\ \A i, j \in 1..Len(pending') : i < j => pending'[i].n < pending'[j].n
<1>1. CASE ~OpensNext(m)
    BY <1>1 DEF ToControl, CloseLink, LinkOrder
<1>2. CASE OpensNext(m)
    <2>1. Offer(m) /\ m.n > highest /\ m.n \in Nat /\ highest \in Nat /\ m.n <= spoken
        BY <1>2 DEF ToControl, OpensNext, Told, Said, SecureTypes, ViewerTypes
    <2>2. highest' = m.n /\ inbox' = inbox
        BY <2>1, OfferCases DEF SecureTypes
    <2>3. delivered' = delivered \/ delivered' = Append(delivered, m.n)
        BY <2>1, OfferCases DEF SecureTypes
    <2>4. pending' = pending \/ pending' = Append(pending, m)
        BY <2>1, OfferCases DEF SecureTypes
    <2>5. \A x \in 1..highest : x \in 1..m.n /\ x < m.n
        BY <2>1
    <2>6. \A i \in 1..Len(delivered') : delivered'[i] \in 1..highest'
        <3>1. \A i \in 1..Len(delivered) : delivered[i] \in 1..m.n
            BY <2>5 DEF LinkOrder
        <3>2. m.n \in 1..m.n
            BY <2>1
        <3>3. CASE delivered' = Append(delivered, m.n)
            <4>1. /\ Len(delivered') = Len(delivered) + 1 /\ delivered'[Len(delivered) + 1] = m.n
                  /\ \A i \in 1..Len(delivered) : delivered'[i] = delivered[i]
                  /\ \A i \in 1..(Len(delivered) + 1) : i \in 1..Len(delivered) \/ i = Len(delivered) + 1
                BY <2>1, <3>3 DEF SecureTypes, ViewerTypes
            <4> QED
                BY <2>2, <3>1, <3>2, <4>1
        <3> QED
            BY <2>2, <2>3, <3>1, <3>3
    <2>7. /\ \A i \in 1..Len(pending') : pending'[i].n \in 1..highest'
          /\ \A i, j \in 1..Len(pending') : i < j => pending'[i].n < pending'[j].n
        <3>1. \A i \in 1..Len(pending) : pending[i].n \in 1..m.n /\ pending[i].n < m.n
            BY <2>5 DEF LinkOrder
        <3>2. m.n \in 1..m.n
            BY <2>1
        <3>3. CASE pending' = Append(pending, m)
            <4>1. /\ Len(pending') = Len(pending) + 1 /\ pending'[Len(pending) + 1] = m
                  /\ \A i \in 1..Len(pending) : pending'[i] = pending[i]
                BY <3>3 DEF SecureTypes, ViewerTypes
            <4>2. \A i \in 1..(Len(pending) + 1) : i \in 1..Len(pending) \/ i = Len(pending) + 1
                BY DEF SecureTypes, ViewerTypes
            <4>3. \A i, j \in 1..(Len(pending) + 1) : i < j => i \in 1..Len(pending)
                BY DEF SecureTypes, ViewerTypes
            <4>4. \A i \in 1..Len(pending') : pending'[i].n \in 1..highest'
                BY <2>2, <3>1, <3>2, <4>1, <4>2
            <4>5. ASSUME NEW i \in 1..Len(pending'), NEW j \in 1..Len(pending'), i < j
                  PROVE  pending'[i].n < pending'[j].n
                <5>1. i \in 1..Len(pending) /\ (j \in 1..Len(pending) \/ j = Len(pending) + 1)
                    BY <4>1, <4>2, <4>3, <4>5
                <5>2. CASE j \in 1..Len(pending)
                    BY <4>1, <4>5, <5>1, <5>2 DEF LinkOrder
                <5>3. CASE j = Len(pending) + 1
                    BY <3>1, <4>1, <5>1, <5>3
                <5> QED
                    BY <5>1, <5>2, <5>3
            <4> QED
                BY <4>4, <4>5
        <3>4. CASE pending' = pending
            BY <2>2, <3>1, <3>4 DEF LinkOrder
        <3> QED
            BY <2>4, <3>3, <3>4
    <2> QED
        BY <2>1, <2>2, <2>6, <2>7
<1> QED
    BY <1>1, <1>2

(* A chunk goes from the wire to the buffer.                               *)
LEMMA ChunkMoves ==
    ASSUME SecureTypes, NEW k, Chunk(k)
    PROVE  /\ Len(buffered') = Len(buffered) + k /\ Len(wire') = Len(wire) - k /\ k \in 1..Len(wire)
           /\ Len(wire) \in Nat /\ Len(buffered) \in Nat
           /\ \A i \in 1..Len(buffered) : buffered'[i] = buffered[i]
           /\ \A i \in (Len(buffered) + 1)..(Len(buffered) + k) : buffered'[i] = wire[i - Len(buffered)]
           /\ \A i \in 1..(Len(wire) - k) : wire'[i] = wire[i + k]
<1> DEFINE p == SubSeq(wire, 1, k)
           q == SubSeq(wire, k + 1, Len(wire))
<1>1. /\ k \in 1..Len(wire) /\ wire \in Seq(Piece) /\ buffered \in Seq(Piece)
      /\ Len(wire) \in Nat /\ Len(buffered) \in Nat
      /\ buffered' = buffered \o p /\ wire' = q
    BY DEF Chunk, SecureTypes, HostTypes, ReaderTypes
<1>2. p \in Seq(Piece) /\ Len(p) = k /\ \A i \in 1..k : p[i] = wire[i]
    BY <1>1
<1>3. Len(q) = Len(wire) - k /\ \A i \in 1..(Len(wire) - k) : q[i] = wire[i + k]
    <2>1. /\ q \in Seq(Piece) /\ Len(q) = Len(wire) - k
          /\ \A i \in 1..(Len(wire) - k) : q[i] = wire[k + 1 + i - 1]
        BY <1>1
    <2>2. \A i \in 1..(Len(wire) - k) : k + 1 + i - 1 = i + k
        BY <1>1
    <2> QED
        BY <2>1, <2>2
<1> HIDE DEF p, q
<1>4. /\ Len(buffered \o p) = Len(buffered) + k
      /\ \A i \in 1..(Len(buffered) + k) :
            (buffered \o p)[i] = IF i <= Len(buffered) THEN buffered[i] ELSE p[i - Len(buffered)]
    BY <1>1, <1>2, ConcatProperties, Zenon
<1>5. \A i \in 1..Len(buffered) : i \in 1..(Len(buffered) + k) /\ i <= Len(buffered)
    BY <1>1
<1>6. \A i \in (Len(buffered) + 1)..(Len(buffered) + k) :
         /\ i \in 1..(Len(buffered) + k) /\ ~(i <= Len(buffered)) /\ i - Len(buffered) \in 1..k
    BY <1>1
<1>7. \A i \in 1..Len(buffered) : buffered'[i] = buffered[i]
    BY <1>1, <1>4, <1>5
<1>8. \A i \in (Len(buffered) + 1)..(Len(buffered) + k) : buffered'[i] = wire[i - Len(buffered)]
    BY <1>1, <1>2, <1>4, <1>6
<1> QED
    BY <1>1, <1>3, <1>4, <1>7, <1>8

(* The first of a sequence is handed on, the others move up.               *)
LEMMA Rest ==
    ASSUME NEW S, NEW q \in Seq(S), q # <<>>
    PROVE  /\ Len(Tail(q)) = Len(q) - 1 /\ Len(q) \in Nat \ {0} /\ q[1] \in S
           /\ \A i \in 1..(Len(q) - 1) : Tail(q)[i] = q[i + 1] /\ i + 1 \in 1..Len(q) /\ 1 < i + 1
           /\ 1 \in 1..Len(q)
OBVIOUS

LEMMA OrderKeeps == SecureTypes /\ LinkShape /\ LinkOrder /\ [SecureNext]_secureVars => LinkOrder'
<1> SUFFICES ASSUME SecureTypes, LinkShape, LinkOrder, [SecureNext]_secureVars PROVE LinkOrder'
    OBVIOUS
<1>0. /\ wire \in Seq(Piece) /\ buffered \in Seq(Piece) /\ inbox \in Seq(Said) /\ batch \in Seq(Said)
      /\ spoken \in Nat /\ highest \in Nat
    BY DEF SecureTypes, HostTypes, ReaderTypes, ViewerTypes
<1>14. /\ \A i \in 1..Len(buffered) : Told(buffered[i].of)
       /\ Len(<<>>) = 0
       /\ buffered # <<>> => \A i \in 1..Len(Tail(buffered)) : Told(Tail(buffered)[i].of)
    BY <1>0, Rest DEF LinkOrder
<1>1. CASE UNCHANGED secureVars
    BY <1>1 DEF secureVars, hostEnd, reader, viewerEnd, LinkOrder, Told
<1>2. CASE HostSeals
    <2>1. /\ spoken' = spoken + 1 /\ wire' = wire \o Framed(Sealed(spoken')) /\ UNCHANGED <<reader, viewerEnd>>
        BY <1>2 DEF HostSeals
    <2>2. Sealed(spoken') \in Said /\ Sealed(spoken').n = spoken'
        BY <1>0, <2>1, Saids
    <2>3. /\ Len(wire') = Len(wire) + 2
          /\ \A j \in 1..Len(wire) : wire'[j] = wire[j]
          /\ wire'[Len(wire) + 1] = [part |-> "header", of |-> Sealed(spoken')]
          /\ wire'[Len(wire) + 2] = [part |-> "body", of |-> Sealed(spoken')]
        BY <1>0, <2>1, <2>2, PutAtEnd
    <2>4. \A j \in 1..(Len(wire) + 2) : j \in 1..Len(wire) \/ j = Len(wire) + 1 \/ j = Len(wire) + 2
        <3>1. Len(wire) \in Nat
            BY <1>0
        <3> QED
            BY <3>1
    <2>5. \A j \in 1..Len(wire) : wire[j].of.kind = "sealed" /\ ~wire[j].of.forged => wire[j].of.n <= spoken'
        <3>1. \A j \in 1..Len(wire) : wire[j] \in Piece
            BY <1>0
        <3>2. \A x \in Piece : Told(x.of) /\ x.of.kind = "sealed" /\ ~x.of.forged => x.of.n <= spoken'
            BY <1>0, <2>1 DEF Told, Piece, Said
        <3> QED
            BY <3>1, <3>2 DEF LinkOrder
    <2>6. spoken' <= spoken'
        BY <1>0, <2>1
    <2>7. (\A i \in 1..Len(wire) : Told(wire[i].of))'
        BY <2>2, <2>3, <2>4, <2>5, <2>6 DEF Told
    <2>8. spoken' \in Nat /\ spoken <= spoken'
        BY <1>0, <2>1
    <2> QED
        BY <2>1, <2>7, <2>8, OrderByHost
<1>3. CASE HostErrs
    <2>1. spoken' = spoken /\ wire' = Framed(Plain("error")) /\ UNCHANGED <<reader, viewerEnd>>
        BY <1>3 DEF HostErrs
    <2>2. \A i \in 1..Len(wire') : wire'[i].of = Plain("error")
        BY <2>1, FramedOf, Saids
    <2>3. (\A i \in 1..Len(wire) : Told(wire[i].of))'
        BY <2>2, Saids DEF Told
    <2>4. spoken' \in Nat /\ spoken <= spoken'
        BY <1>0, <2>1
    <2> QED
        BY <2>1, <2>3, <2>4, OrderByHost
<1>4. CASE Meddle
    <2>1. UNCHANGED <<reader, viewerEnd>> /\ spoken' \in Nat /\ spoken <= spoken'
        BY <1>0, <1>4 DEF Meddle
    <2> QED
        BY <1>4, <2>1, OrderByHost, OrderMeddled
<1>5. ASSUME NEW k \in 1..MaxChunk, Chunk(k) PROVE LinkOrder'
    <2>1. spoken' = spoken /\ UNCHANGED <<batch, viewerEnd>> /\ busy = "no" /\ busy' = "reading"
        BY <1>5 DEF Chunk
    <2>2. \A i \in 1..Len(wire') : Told(wire'[i].of)
        <3>1. /\ Len(wire') = Len(wire) - k /\ Len(wire) \in Nat /\ k \in 1..Len(wire)
              /\ \A i \in 1..(Len(wire) - k) : wire'[i] = wire[i + k]
            BY <1>5, ChunkMoves
        <3>2. \A i \in 1..(Len(wire) - k) : i + k \in 1..Len(wire)
            BY <3>1
        <3> QED
            BY <3>1, <3>2 DEF LinkOrder
    <2>3. \A i \in 1..Len(buffered') : Told(buffered'[i].of)
        <3>1. /\ Len(buffered') = Len(buffered) + k /\ Len(buffered) \in Nat
              /\ k \in 1..Len(wire) /\ Len(wire) \in Nat
              /\ \A i \in 1..Len(buffered) : buffered'[i] = buffered[i]
              /\ \A i \in (Len(buffered) + 1)..(Len(buffered) + k) : buffered'[i] = wire[i - Len(buffered)]
            BY <1>5, ChunkMoves
        <3>2. \A i \in 1..(Len(buffered) + k) :
                 \/ i \in 1..Len(buffered)
                 \/ i \in (Len(buffered) + 1)..(Len(buffered) + k) /\ i - Len(buffered) \in 1..Len(wire)
            BY <3>1
        <3> QED
            BY <3>1, <3>2 DEF LinkOrder
    <2> QED
        BY <2>1, <2>2, <2>3 DEF LinkOrder, Told, viewerEnd
<1>6. CASE ReadHeader \/ Handed \/ (ReadBody /\ buffered = <<>>)
    <2>1. /\ UNCHANGED <<wire, spoken, batch, viewerEnd>> /\ (busy' = busy \/ busy' = "no")
          /\ buffered' = buffered \/ buffered' = <<>> \/ (buffered # <<>> /\ buffered' = Tail(buffered))
        BY <1>6 DEF ReadHeader, Handed, ReadBody, hostEnd
    <2>2. \A i \in 1..Len(buffered') : Told(buffered'[i].of)
        <3>1. CASE buffered' = buffered
            BY <1>14, <3>1
        <3>2. CASE buffered' = <<>>
            BY <1>14, <3>2
        <3>3. CASE buffered # <<>> /\ buffered' = Tail(buffered)
            BY <1>14, <3>3
        <3> QED
            BY <2>1, <3>1, <3>2, <3>3
    <2> QED
        BY <2>1, <2>2 DEF LinkOrder, Told, viewerEnd
<1>7. CASE ReadBody /\ buffered # <<>>
    <2> DEFINE m == buffered[1].of
    <2>1. m \in Said /\ Told(m)
        <3>1. buffered[1] \in Piece /\ 1 \in 1..Len(buffered)
            BY <1>0, <1>7, Rest
        <3> QED
            BY <3>1 DEF Piece, LinkOrder
    <2> HIDE DEF m
    <2>2. /\ busy = "reading" /\ batch' = batch /\ UNCHANGED <<wire, spoken>>
          /\ (busy' = "reading" \/ busy' = "no") /\ (buffered' = <<>> \/ buffered' = Tail(buffered))
          /\ IF stage \in {"hello", "challenged"} THEN ToInbox(m) ELSE ToControl(m)
        BY <1>7 DEF ReadBody, m, hostEnd
    <2>3. \A i \in 1..Len(buffered') : Told(buffered'[i].of)
        BY <1>7, <1>14, <2>2
    <2>4. CASE stage \in {"hello", "challenged"}
        <3>1. ToInbox(m) /\ UNCHANGED <<highest, pending, delivered>>
            BY <2>2, <2>4 DEF ToInbox
        <3>2. \A i \in 1..Len(inbox') : Told(inbox'[i])
            <4>1. CASE stage = "hello"
                <5>1. inbox = <<>> /\ inbox' = <<m>> \o inbox
                    BY <3>1, <4>1 DEF ToInbox, LinkShape
                <5>2. inbox' = <<m>>
                    BY <2>1, <5>1
                <5> QED
                    BY <2>1, <5>2
            <4>2. CASE stage # "hello"
                <5>1. inbox' = Append(inbox, m)
                    BY <3>1, <4>2 DEF ToInbox
                <5>2. /\ Len(inbox') = Len(inbox) + 1 /\ \A i \in 1..Len(inbox) : inbox'[i] = inbox[i]
                      /\ inbox'[Len(inbox) + 1] = m
                      /\ \A i \in 1..(Len(inbox) + 1) : i \in 1..Len(inbox) \/ i = Len(inbox) + 1
                    BY <1>0, <2>1, <5>1
                <5> QED
                    BY <2>1, <5>2 DEF LinkOrder
            <4> QED
                BY <4>1, <4>2
        <3> QED
            BY <2>2, <2>3, <3>1, <3>2 DEF LinkOrder, Told
    <2>5. CASE stage \notin {"hello", "challenged"}
        <3>1. ToControl(m)
            BY <2>2, <2>5
        <3>2. /\ highest' <= spoken /\ inbox' = inbox
              /\ \A i \in 1..Len(delivered') : delivered'[i] \in 1..highest'
              /\ \A i \in 1..Len(pending') : pending'[i].n \in 1..highest'
              /\ \A i, j \in 1..Len(pending') : i < j => pending'[i].n < pending'[j].n
            BY <2>1, <2>2, <2>5, <3>1, OrderByControl
        <3> QED
            BY <2>2, <2>3, <3>2 DEF LinkOrder, Told
    <2> QED
        BY <2>4, <2>5
<1>8. CASE Drain
    <2>1. /\ ToControl(batch[1]) /\ busy = "draining" /\ busy' = busy /\ batch # <<>> /\ batch' = Tail(batch)
          /\ UNCHANGED <<buffered, wire, spoken>>
        BY <1>8 DEF Drain, hostEnd
    <2>2. batch[1] \in Said /\ Told(batch[1]) /\ stage = "draining"
        BY <1>0, <2>1, Rest DEF LinkOrder, LinkShape
    <2>3. \A i \in 1..Len(batch') : Told(batch'[i])
        BY <1>0, <2>1, Rest DEF LinkOrder
    <2>4. /\ highest' <= spoken /\ inbox' = inbox
          /\ \A i \in 1..Len(delivered') : delivered'[i] \in 1..highest'
          /\ \A i \in 1..Len(pending') : pending'[i].n \in 1..highest'
          /\ \A i, j \in 1..Len(pending') : i < j => pending'[i].n < pending'[j].n
        BY <2>1, <2>2, OrderByControl
    <2> QED
        BY <2>1, <2>3, <2>4 DEF LinkOrder, Told
<1>9. CASE Expect \/ (Return /\ allowed)
    <2>1. /\ batch' = pending /\ pending' = <<>> /\ busy' = "handing"
          /\ UNCHANGED <<wire, spoken, buffered, inbox, highest, delivered>>
          /\ stage \in {"draining", "answered"}
        BY <1>9 DEF Expect, Return, hostEnd, LinkShape
    <2>2. delivered = <<>>
        BY <2>1 DEF LinkShape
    <2> QED
        BY <2>1, <2>2 DEF LinkOrder, Told
<1>10. CASE Return /\ ~allowed
    BY <1>10 DEF Return, hostEnd, LinkOrder, Told
<1>11. CASE Hand
    <2>1. /\ busy = "handing" /\ batch # <<>> /\ batch' = Tail(batch)
          /\ UNCHANGED <<busy, wire, spoken, buffered, inbox, highest, pending>>
          /\ \/ delivered' = delivered
             \/ control = "session" /\ delivered' = Append(delivered, batch[1].n)
        BY <1>11 DEF Hand, hostEnd
    <2>2. /\ \A i \in 1..Len(batch') : batch'[i].n \in 1..highest /\ batch[1].n < batch'[i].n
          /\ \A i, j \in 1..Len(batch') : i < j => batch'[i].n < batch'[j].n
          /\ \A i \in 1..Len(batch'), j \in 1..Len(delivered) : delivered[j] < batch'[i].n
        <3>1. /\ Len(batch') = Len(batch) - 1 /\ 1 \in 1..Len(batch)
              /\ \A i \in 1..Len(batch') : batch'[i] = batch[i + 1] /\ i + 1 \in 1..Len(batch) /\ 1 < i + 1
            BY <1>0, <2>1, Rest
        <3>2. \A i, j \in 1..Len(batch') : i < j => i + 1 < j + 1
            BY <3>1
        <3> QED
            BY <2>1, <3>1, <3>2 DEF LinkOrder
    <2>3. \A i \in 1..Len(delivered') : /\ delivered'[i] \in 1..highest
                                       /\ \A j \in 1..Len(batch') : delivered'[i] < batch'[j].n
        <3>1. CASE delivered' = delivered
            BY <2>2, <3>1 DEF LinkOrder
        <3>2. CASE delivered' = Append(delivered, batch[1].n)
            <4>1. batch[1].n \in 1..highest
                BY <1>0, <2>1, Rest DEF LinkOrder
            <4>2. /\ Len(delivered') = Len(delivered) + 1 /\ delivered'[Len(delivered) + 1] = batch[1].n
                  /\ \A i \in 1..Len(delivered) : delivered'[i] = delivered[i]
                  /\ \A i \in 1..(Len(delivered) + 1) : i \in 1..Len(delivered) \/ i = Len(delivered) + 1
                BY <3>2, <4>1 DEF SecureTypes, ViewerTypes
            <4> QED
                BY <2>2, <4>1, <4>2 DEF LinkOrder
        <3> QED
            BY <2>1, <3>1, <3>2
    <2> QED
        BY <2>1, <2>2, <2>3 DEF LinkOrder, Told
<1>12. CASE Answer
    <2>1. \/ inbox' = <<>> /\ batch' = Tail(inbox) /\ busy' = "draining"
          \/ UNCHANGED <<inbox, batch, busy>>
        BY <1>12 DEF Answer
    <2>2. UNCHANGED <<wire, spoken, buffered, highest, pending, delivered>> /\ inbox # <<>> /\ busy = "no"
        BY <1>12 DEF Answer, SecureTypes, ViewerTypes
    <2>3. \A i \in 1..Len(Tail(inbox)) : Told(Tail(inbox)[i])
        BY <1>0, <2>2, Rest DEF LinkOrder
    <2>4. busy' # "handing" /\ spoken' = spoken
        BY <1>12, <2>2 DEF Answer
    <2>5. (\A i \in 1..Len(inbox') : Told(inbox'[i]))
        BY <2>1 DEF LinkOrder
    <2>6. busy' = "draining" => \A i \in 1..Len(batch') : Told(batch'[i])
        BY <2>1, <2>2, <2>3
    <2> QED
        BY <2>2, <2>4, <2>5, <2>6 DEF LinkOrder, Told
<1>13. CASE Timeout \/ LinkDrops
    <2>1. UNCHANGED <<wire, spoken, reader, inbox, highest, pending, delivered>>
        BY <1>13 DEF Timeout, LinkDrops, CloseLink, hostEnd
    <2> QED
        BY <2>1 DEF LinkOrder, Told, reader
<1> QED
    BY <1>1, <1>2, <1>3, <1>4, <1>5, <1>6, <1>7, <1>8, <1>9, <1>10, <1>11, <1>12, <1>13 DEF SecureNext, Runs

(* Only what the host said is delivered, and after what came before it.    *)
LEMMA NextIsDelivered ==
    ASSUME SecureTypes, LinkOrder, NEW n \in Nat, 0 < n, n <= spoken, spoken' = spoken,
           \A i \in 1..Len(delivered) : delivered[i] < n, delivered' = Append(delivered, n)
    PROVE  Promised!Deliver
<1>1. Promised!Newest \in Nat /\ Promised!Newest < n
    <2>1. CASE delivered = <<>>
        BY <2>1 DEF Promised!Newest
    <2>2. CASE delivered # <<>>
        <3>1. Len(delivered) \in 1..Len(delivered) /\ delivered[Len(delivered)] \in Nat
            BY <2>2 DEF SecureTypes, ViewerTypes
        <3> QED
            BY <2>2, <3>1 DEF Promised!Newest
    <2> QED
        BY <2>1, <2>2
<1>2. n \in (Promised!Newest + 1)..spoken
    BY <1>1 DEF SecureTypes, HostTypes
<1> QED
    BY <1>2 DEF Promised!Deliver

LEMMA StepIsPromised ==
    SecureTypes /\ LinkShape /\ LinkOrder /\ [SecureNext]_secureVars =>
        [Promised!Say \/ Promised!Deliver]_<<spoken, delivered>>
<1> SUFFICES ASSUME SecureTypes, LinkShape, LinkOrder, [SecureNext]_secureVars
             PROVE  Promised!Say \/ Promised!Deliver \/ UNCHANGED <<spoken, delivered>>
    OBVIOUS
<1>1. CASE UNCHANGED secureVars
    BY <1>1 DEF secureVars, hostEnd, viewerEnd
<1>2. CASE HostSeals
    BY <1>2 DEF HostSeals, viewerEnd, Promised!Say
<1>3. CASE HostErrs \/ Meddle \/ \E k \in 1..MaxChunk : Chunk(k)
    BY <1>3 DEF HostErrs, Meddle, Chunk, viewerEnd
<1>4. CASE ReadHeader \/ Handed \/ Expect \/ Answer \/ Return \/ Timeout \/ LinkDrops
    BY <1>4 DEF ReadHeader, Handed, Expect, Answer, Return, Timeout, LinkDrops, CloseLink, hostEnd, viewerEnd
<1>5. ASSUME NEW m \in Said, Told(m), ToControl(m), spoken' = spoken
      PROVE  Promised!Deliver \/ UNCHANGED <<spoken, delivered>>
    <2>1. CASE ~OpensNext(m)
        BY <1>5, <2>1 DEF ToControl, CloseLink
    <2>2. CASE OpensNext(m)
        <3>1. Offer(m) /\ m.n > highest /\ 0 < m.n /\ m.n \in Nat /\ highest \in Nat /\ m.n <= spoken
            BY <1>5, <2>2 DEF ToControl, OpensNext, Told, Said, SecureTypes, ViewerTypes
        <3>2. delivered' = delivered \/ delivered' = Append(delivered, m.n)
            BY <3>1, OfferCases DEF SecureTypes
        <3>3. \A x \in 1..highest : x < m.n
            BY <3>1
        <3>4. \A i \in 1..Len(delivered) : delivered[i] < m.n
            BY <3>3 DEF LinkOrder
        <3> QED
            BY <1>5, <3>1, <3>2, <3>4, NextIsDelivered
    <2> QED
        BY <2>1, <2>2
<1>6. CASE ReadBody
    <2>1. spoken' = spoken
        BY <1>6 DEF ReadBody, hostEnd
    <2>2. CASE buffered = <<>> \/ stage \in {"hello", "challenged"}
        BY <1>6, <2>1, <2>2 DEF ReadBody, ToInbox, viewerEnd
    <2>3. CASE buffered # <<>> /\ stage \notin {"hello", "challenged"}
        <3>1. ToControl(buffered[1].of)
            BY <1>6, <2>3 DEF ReadBody
        <3>2. buffered[1] \in Piece /\ 1 \in 1..Len(buffered)
            BY <2>3, Rest DEF SecureTypes, ReaderTypes
        <3>3. buffered[1].of \in Said /\ Told(buffered[1].of)
            BY <3>2 DEF Piece, LinkOrder
        <3> QED
            BY <1>5, <2>1, <3>1, <3>3
    <2> QED
        BY <2>2, <2>3
<1>7. CASE Drain
    <2>1. spoken' = spoken /\ ToControl(batch[1]) /\ batch # <<>> /\ busy = "draining"
        BY <1>7 DEF Drain, hostEnd
    <2>2. batch[1] \in Said /\ Told(batch[1])
        BY <2>1, Rest DEF SecureTypes, ReaderTypes, LinkOrder
    <2> QED
        BY <1>5, <2>1, <2>2
<1>8. CASE Hand
    <2>1. /\ spoken' = spoken /\ batch # <<>> /\ busy = "handing"
          /\ delivered' = delivered \/ delivered' = Append(delivered, batch[1].n)
        BY <1>8 DEF Hand, hostEnd
    <2>2. 1 \in 1..Len(batch)
        BY <2>1, Rest DEF SecureTypes, ReaderTypes
    <2>3. batch[1].n \in 1..highest /\ \A j \in 1..Len(delivered) : delivered[j] < batch[1].n
        BY <2>1, <2>2 DEF LinkOrder
    <2>4. batch[1].n \in Nat /\ 0 < batch[1].n /\ batch[1].n <= spoken
        BY <2>3 DEF LinkOrder, SecureTypes, HostTypes, ViewerTypes
    <2> QED
        BY <2>1, <2>3, <2>4, NextIsDelivered
<1> QED
    BY <1>1, <1>2, <1>3, <1>4, <1>6, <1>7, <1>8 DEF SecureNext, Runs

(* What the steps do to the stream.                                        *)
LEMMA Streaming ==
    ASSUME SecureTypes
    PROVE  /\ Len(buffered) \in Nat /\ Len(wire) \in Nat /\ Total \in Nat
           /\ \A i \in 1..Total : Stream[i] \in Piece
           /\ \A i \in 1..Len(buffered) : i \in 1..Total /\ Stream[i] = buffered[i]
           /\ \A i \in 1..Len(wire) : Len(buffered) + i \in 1..Total /\ Stream[Len(buffered) + i] = wire[i]
<1>1. /\ Len(buffered) \in Nat /\ Len(wire) \in Nat /\ Total = Len(buffered) + Len(wire)
      /\ buffered \in Seq(Piece) /\ wire \in Seq(Piece)
    BY DEF SecureTypes, HostTypes, ReaderTypes, Total
<1>2. \A i \in 1..Total : Stream[i] = IF i <= Len(buffered) THEN buffered[i] ELSE wire[i - Len(buffered)]
    BY DEF Stream
<1>3. \A i \in 1..Len(buffered) : i \in 1..Total /\ i <= Len(buffered)
    BY <1>1
<1>4. \A i \in 1..Len(wire) : /\ Len(buffered) + i \in 1..Total /\ ~(Len(buffered) + i <= Len(buffered))
                             /\ (Len(buffered) + i) - Len(buffered) = i
    BY <1>1
<1>5. \A i \in 1..Total : i \in 1..Len(buffered) \/ (~(i <= Len(buffered)) /\ i - Len(buffered) \in 1..Len(wire))
    BY <1>1
<1>6. \A i \in 1..Total : Stream[i] \in Piece
    BY <1>1, <1>2, <1>3, <1>5
<1>7. Total \in Nat
    BY <1>1
<1> QED
    BY <1>1, <1>2, <1>3, <1>4, <1>6, <1>7

LEMMA StreamKept ==
    ASSUME SecureTypes, SecureTypes', NEW k, Chunk(k)
    PROVE  Total' = Total /\ \A i \in 1..Total : Stream'[i] = Stream[i]
<1>1. /\ Len(buffered') = Len(buffered) + k /\ Len(wire') = Len(wire) - k /\ k \in 1..Len(wire)
      /\ Len(wire) \in Nat /\ Len(buffered) \in Nat
      /\ \A i \in 1..Len(buffered) : buffered'[i] = buffered[i]
      /\ \A i \in (Len(buffered) + 1)..(Len(buffered) + k) : buffered'[i] = wire[i - Len(buffered)]
      /\ \A i \in 1..(Len(wire) - k) : wire'[i] = wire[i + k]
    BY ChunkMoves
<1>2. Total' = Total /\ Total = Len(buffered) + Len(wire)
    BY <1>1 DEF Total
<1>3. \A i \in 1..Total : /\ Stream[i] = IF i <= Len(buffered) THEN buffered[i] ELSE wire[i - Len(buffered)]
                          /\ Stream'[i] = IF i <= Len(buffered') THEN buffered'[i] ELSE wire'[i - Len(buffered')]
    BY <1>2 DEF Stream
<1>8. \A b, w \in Nat : \A x \in 1..w :
        /\ \A i \in (b + 1)..(b + x) : i \in 1..(b + w) /\ ~(i <= b) /\ i <= b + x
        /\ \A i \in (b + x + 1)..(b + w) :
              /\ i \in 1..(b + w) /\ ~(i <= b) /\ ~(i <= b + x)
              /\ i - (b + x) \in 1..(w - x) /\ (i - (b + x)) + x = i - b
        /\ \A i \in 1..(b + w) : i \in 1..b \/ i \in (b + 1)..(b + x) \/ i \in (b + x + 1)..(b + w)
    OBVIOUS
<1>4. \A i \in 1..Len(buffered) : Stream'[i] = Stream[i]
    <2>1. \A i \in 1..Len(buffered) : i \in 1..Total /\ i <= Len(buffered) /\ i <= Len(buffered')
        BY <1>1, <1>2
    <2> QED
        BY <1>1, <1>3, <2>1
<1>5. \A i \in (Len(buffered) + 1)..(Len(buffered) + k) : Stream'[i] = Stream[i]
    <2>1. \A i \in (Len(buffered) + 1)..(Len(buffered) + k) :
             i \in 1..Total /\ ~(i <= Len(buffered)) /\ i <= Len(buffered')
        BY <1>1, <1>2, <1>8
    <2> QED
        BY <1>1, <1>3, <2>1
<1>6. \A i \in (Len(buffered) + k + 1)..Total : Stream'[i] = Stream[i]
    <2>1. \A i \in (Len(buffered) + k + 1)..Total :
             /\ i \in 1..Total /\ ~(i <= Len(buffered)) /\ ~(i <= Len(buffered'))
             /\ i - Len(buffered') \in 1..(Len(wire) - k) /\ (i - Len(buffered')) + k = i - Len(buffered)
        BY <1>1, <1>2, <1>8
    <2>2. \A i \in (Len(buffered) + k + 1)..Total :
             Stream[i] = wire[i - Len(buffered)] /\ Stream'[i] = wire'[i - Len(buffered')]
        BY <1>3, <2>1
    <2>3. \A i \in (Len(buffered) + k + 1)..Total :
             wire'[i - Len(buffered')] = wire[(i - Len(buffered')) + k]
        BY <1>1, <2>1
    <2> QED
        BY <2>1, <2>2, <2>3
<1>7. \A i \in 1..Total : \/ i \in 1..Len(buffered) \/ i \in (Len(buffered) + 1)..(Len(buffered) + k)
                          \/ i \in (Len(buffered) + k + 1)..Total
    BY <1>1, <1>2, <1>8
<1> QED
    BY <1>2, <1>4, <1>5, <1>6, <1>7

LEMMA StreamRead ==
    ASSUME SecureTypes, buffered # <<>>, buffered' = Tail(buffered), wire' = wire
    PROVE  /\ Total \in Nat \ {0} /\ Total' = Total - 1 /\ Stream[1] = buffered[1]
           /\ \A i \in 1..(Total - 1) : Stream'[i] = Stream[i + 1]
<1>1. /\ Len(buffered') = Len(buffered) - 1 /\ Len(buffered) \in Nat \ {0} /\ Len(wire) \in Nat
      /\ \A i \in 1..(Len(buffered) - 1) : buffered'[i] = buffered[i + 1]
    BY Rest DEF SecureTypes, HostTypes, ReaderTypes
<1>2. Total' = Total - 1 /\ Total = Len(buffered) + Len(wire) /\ Total \in Nat \ {0}
    BY <1>1 DEF Total
<1>3. /\ \A i \in 1..Total : Stream[i] = IF i <= Len(buffered) THEN buffered[i] ELSE wire[i - Len(buffered)]
      /\ \A i \in 1..(Total - 1) : Stream'[i] = IF i <= Len(buffered') THEN buffered'[i] ELSE wire[i - Len(buffered')]
    BY <1>2 DEF Stream
<1>4. 1 \in 1..Total /\ 1 <= Len(buffered)
    BY <1>1, <1>2
<1>5. \A i \in 1..(Len(buffered) - 1) : Stream'[i] = Stream[i + 1]
    <2>1. \A i \in 1..(Len(buffered) - 1) : /\ i \in 1..(Total - 1) /\ i + 1 \in 1..Total
                                           /\ i <= Len(buffered') /\ i + 1 <= Len(buffered)
        BY <1>1, <1>2
    <2> QED
        BY <1>1, <1>3, <2>1
<1>6. \A i \in Len(buffered)..(Total - 1) : Stream'[i] = Stream[i + 1]
    <2>1. \A i \in Len(buffered)..(Total - 1) :
             /\ i \in 1..(Total - 1) /\ i + 1 \in 1..Total
             /\ ~(i <= Len(buffered')) /\ ~(i + 1 <= Len(buffered))
             /\ (i + 1) - Len(buffered) = i - Len(buffered')
        BY <1>1, <1>2
    <2> QED
        BY <1>3, <2>1
<1>7. \A i \in 1..(Total - 1) : i \in 1..(Len(buffered) - 1) \/ i \in Len(buffered)..(Total - 1)
    BY <1>1, <1>2
<1> QED
    BY <1>2, <1>3, <1>4, <1>5, <1>6, <1>7

LEMMA StreamGrows ==
    ASSUME SecureTypes, NEW m \in Said, wire' = wire \o Framed(m), buffered' = buffered
    PROVE  /\ Total' = Total + 2 /\ Total \in Nat
           /\ \A i \in 1..Total : Stream'[i] = Stream[i]
           /\ Stream'[Total + 1] = [part |-> "header", of |-> m]
           /\ Stream'[Total + 2] = [part |-> "body", of |-> m]
<1>1. /\ Len(wire') = Len(wire) + 2 /\ Len(wire) \in Nat /\ Len(buffered) \in Nat
      /\ \A j \in 1..Len(wire) : wire'[j] = wire[j]
      /\ wire'[Len(wire) + 1] = [part |-> "header", of |-> m]
      /\ wire'[Len(wire) + 2] = [part |-> "body", of |-> m]
    BY PutAtEnd DEF SecureTypes, HostTypes, ReaderTypes
<1>2. Total' = Total + 2 /\ Total = Len(buffered) + Len(wire) /\ Total \in Nat
    BY <1>1 DEF Total
<1>3. /\ \A i \in 1..Total : Stream[i] = IF i <= Len(buffered) THEN buffered[i] ELSE wire[i - Len(buffered)]
      /\ \A i \in 1..(Total + 2) : Stream'[i] = IF i <= Len(buffered) THEN buffered[i] ELSE wire'[i - Len(buffered)]
    BY <1>2 DEF Stream
<1>4. \A i \in 1..Total : i \in 1..(Total + 2) /\ (i <= Len(buffered) \/ i - Len(buffered) \in 1..Len(wire))
    BY <1>1, <1>2
<1>5. /\ Total + 1 \in 1..(Total + 2) /\ ~(Total + 1 <= Len(buffered)) /\ (Total + 1) - Len(buffered) = Len(wire) + 1
      /\ Total + 2 \in 1..(Total + 2) /\ ~(Total + 2 <= Len(buffered)) /\ (Total + 2) - Len(buffered) = Len(wire) + 2
    BY <1>1, <1>2
<1>6. \A i \in 1..Total : Stream'[i] = Stream[i]
    BY <1>1, <1>3, <1>4
<1>7. Stream'[Total + 1] = wire'[Len(wire) + 1] /\ Stream'[Total + 2] = wire'[Len(wire) + 2]
    BY <1>3, <1>5
<1> QED
    BY <1>1, <1>2, <1>6, <1>7

LEMMA StreamWire ==
    ASSUME SecureTypes, buffered' = buffered, Len(wire') \in Nat
    PROVE  /\ Total' = Len(buffered) + Len(wire')
           /\ \A j \in 1..Len(buffered) : Stream'[j] = Stream[j]
           /\ \A j \in 1..Len(wire') : Stream'[Len(buffered) + j] = wire'[j]
<1>1. Len(buffered) \in Nat /\ Len(wire) \in Nat
    BY Streaming
<1>2. /\ \A j \in 1..(Len(buffered) + Len(wire)) :
            Stream[j] = IF j <= Len(buffered) THEN buffered[j] ELSE wire[j - Len(buffered)]
      /\ \A j \in 1..(Len(buffered) + Len(wire')) :
            Stream'[j] = IF j <= Len(buffered) THEN buffered[j] ELSE wire'[j - Len(buffered)]
    BY DEF Stream, Total
<1>3. \A b, w \in Nat : /\ \A j \in 1..b : j \in 1..(b + w) /\ j <= b
                        /\ \A j \in 1..w : b + j \in 1..(b + w) /\ ~(b + j <= b) /\ (b + j) - b = j
    OBVIOUS
<1>4. \A j \in 1..Len(buffered) : Stream'[j] = Stream[j]
    BY <1>1, <1>2, <1>3
<1>5. \A j \in 1..Len(wire') : Stream'[Len(buffered) + j] = wire'[j]
    BY <1>1, <1>2, <1>3
<1> QED
    BY <1>4, <1>5 DEF Total

LEMMA WholeIsThere ==
    ASSUME SecureTypes, NEW i \in 1..Len(wire), Whole(i)
    PROVE  /\ i \in 1..(Len(wire) - 1) /\ Len(buffered) + i \in 1..(Total - 1)
           /\ Stream[Len(buffered) + i] = wire[i] /\ Stream[Len(buffered) + i + 1] = wire[i + 1]
           /\ wire[i].part = "header" /\ wire[i].of \in Said /\ wire[i].of.kind = "sealed"
           /\ wire[i] \in Piece /\ wire[i + 1] \in Piece
<1>1. i \in 1..(Len(wire) - 1) /\ wire[i].part = "header" /\ wire[i].of.kind = "sealed"
    BY DEF Whole
<1>2. Len(buffered) \in Nat /\ Len(wire) \in Nat /\ Total = Len(buffered) + Len(wire)
    BY Streaming DEF Total
<1>3. /\ i + 1 \in 1..Len(wire) /\ Len(buffered) + i \in 1..(Total - 1)
      /\ Len(buffered) + i + 1 = Len(buffered) + (i + 1)
    <2>1. \A b, w \in Nat : \A k \in 1..(w - 1) :
             k + 1 \in 1..w /\ b + k \in 1..(b + w - 1) /\ b + k + 1 = b + (k + 1)
        OBVIOUS
    <2> QED
        BY <1>1, <1>2, <2>1
<1>4. wire[i] \in Piece /\ wire[i + 1] \in Piece
    BY <1>3 DEF SecureTypes, HostTypes
<1>5. wire[i].of \in Said
    BY <1>4 DEF Piece
<1>6. /\ Stream[Len(buffered) + i] = wire[i]
      /\ Stream[Len(buffered) + (i + 1)] = wire[i + 1]
    BY <1>3, Streaming
<1> QED
    BY <1>1, <1>3, <1>4, <1>5, <1>6

LEMMA StreamAltered ==
    ASSUME SecureTypes, NEW i \in 1..Len(wire), Whole(i), buffered' = buffered,
           wire' = [wire EXCEPT ![i] = Altered(@), ![i + 1] = Altered(@)]
    PROVE  /\ Total' = Total
           /\ Stream'[Len(buffered) + i] = Altered(Stream[Len(buffered) + i])
           /\ Stream'[Len(buffered) + i + 1] = Altered(Stream[Len(buffered) + i + 1])
           /\ \A j \in 1..Total : j # Len(buffered) + i /\ j # Len(buffered) + i + 1 => Stream'[j] = Stream[j]
<1>1. Len(buffered) \in Nat /\ Len(wire) \in Nat /\ Total = Len(buffered) + Len(wire) /\ wire \in Seq(Piece)
    BY Streaming DEF Total, SecureTypes, HostTypes
<1>2. i \in 1..(Len(wire) - 1)
    BY WholeIsThere
<1>3. /\ Len(wire') = Len(wire) /\ wire'[i] = Altered(wire[i]) /\ wire'[i + 1] = Altered(wire[i + 1])
      /\ \A j \in 1..Len(wire) : j # i /\ j # i + 1 => wire'[j] = wire[j]
    BY <1>1, <1>2, AlterTypes
<1>4. /\ Total' = Len(buffered) + Len(wire)
      /\ \A j \in 1..Len(buffered) : Stream'[j] = Stream[j]
      /\ \A j \in 1..Len(wire) : Stream'[Len(buffered) + j] = wire'[j]
    BY <1>1, <1>3, StreamWire
<1>5. i \in 1..Len(wire) /\ i + 1 \in 1..Len(wire) /\ Len(buffered) + i + 1 = Len(buffered) + (i + 1)
    BY <1>1, <1>2
<1>6. \A j \in 1..Total : j \in 1..Len(buffered) \/ (j - Len(buffered) \in 1..Len(wire) /\ Len(buffered) + (j - Len(buffered)) = j)
    BY <1>1
<1>7. \A x \in 1..Len(wire) : x # i /\ x # i + 1 => Stream'[Len(buffered) + x] = Stream[Len(buffered) + x]
    BY <1>3, <1>4, Streaming
<1>8. \A j \in 1..Total : j # Len(buffered) + i /\ j # Len(buffered) + i + 1 =>
          j \in 1..Len(buffered) \/ (j - Len(buffered) # i /\ j - Len(buffered) # i + 1)
    BY <1>1, <1>2
<1>9. \A j \in 1..Total : j # Len(buffered) + i /\ j # Len(buffered) + i + 1 => Stream'[j] = Stream[j]
    <2> SUFFICES ASSUME NEW j \in 1..Total, j # Len(buffered) + i, j # Len(buffered) + i + 1
                 PROVE  Stream'[j] = Stream[j]
        OBVIOUS
    <2>1. CASE j \in 1..Len(buffered)
        BY <1>4, <2>1
    <2>2. CASE j \notin 1..Len(buffered)
        <3> DEFINE x == j - Len(buffered)
        <3>1. x \in 1..Len(wire) /\ Len(buffered) + x = j /\ x # i /\ x # i + 1
            BY <1>6, <1>8, <2>2
        <3> HIDE DEF x
        <3> QED
            BY <1>7, <3>1
    <2> QED
        BY <2>1, <2>2
<1> QED
    BY <1>1, <1>3, <1>4, <1>5, <1>9, WholeIsThere, ZenonT(90)

LEMMA StreamShifted ==
    ASSUME SecureTypes, NEW i \in 1..Len(wire), Whole(i), buffered' = buffered,
           Len(wire') \in Nat, Len(wire') >= Len(wire) - 2,
           \A j \in 1..(i - 1) : wire'[j] = wire[j],
           \A j \in i..(Len(wire) - 2) : wire'[j] = wire[j + 2]
    PROVE  /\ Total' = Len(buffered) + Len(wire')
           /\ \A j \in 1..(Len(buffered) + i - 1) : Stream'[j] = Stream[j]
           /\ \A j \in (Len(buffered) + i)..(Total - 2) : Stream'[j] = Stream[j + 2]
           /\ \A j \in 1..Len(wire') : Stream'[Len(buffered) + j] = wire'[j]
<1>1. Len(buffered) \in Nat /\ Len(wire) \in Nat /\ Total = Len(buffered) + Len(wire) /\ wire \in Seq(Piece)
    BY Streaming DEF Total, SecureTypes, HostTypes
<1>2. i \in 1..(Len(wire) - 1)
    BY WholeIsThere
<1>5. /\ Total' = Len(buffered) + Len(wire')
      /\ \A j \in 1..Len(buffered) : Stream'[j] = Stream[j]
      /\ \A j \in 1..Len(wire') : Stream'[Len(buffered) + j] = wire'[j]
    BY StreamWire
<1>6. \A x \in 1..(i - 1) : Stream'[Len(buffered) + x] = Stream[Len(buffered) + x]
    <2>1. \A x \in 1..(i - 1) : x \in 1..Len(wire') /\ x \in 1..Len(wire)
        BY <1>1, <1>2
    <2> QED
        BY <1>5, <2>1, Streaming
<1>7. \A x \in i..(Len(wire) - 2) : Stream'[Len(buffered) + x] = Stream[Len(buffered) + x + 2]
    <2>1. \A x \in i..(Len(wire) - 2) : /\ x \in 1..Len(wire') /\ x + 2 \in 1..Len(wire)
                                       /\ Len(buffered) + x + 2 = Len(buffered) + (x + 2)
        BY <1>1, <1>2
    <2>2. \A x \in i..(Len(wire) - 2) : Stream[Len(buffered) + (x + 2)] = wire[x + 2]
        BY <2>1, Streaming
    <2>3. \A x \in i..(Len(wire) - 2) : Stream'[Len(buffered) + x] = wire[x + 2]
        BY <1>5, <2>1
    <2> QED
        BY <2>1, <2>2, <2>3
<1>8. \A b, w \in Nat : \A k \in 1..(w - 1) :
        /\ \A j \in 1..(b + k - 1) : j \in 1..b \/ (j - b \in 1..(k - 1) /\ b + (j - b) = j)
        /\ \A j \in (b + k)..(b + w - 2) : j - b \in k..(w - 2) /\ b + (j - b) = j /\ b + (j - b) + 2 = j + 2
    OBVIOUS
<1>9. ASSUME NEW j \in 1..(Len(buffered) + i - 1) PROVE Stream'[j] = Stream[j]
    <2>1. CASE j \in 1..Len(buffered)
        BY <1>5, <2>1
    <2>2. CASE j \notin 1..Len(buffered)
        <3> DEFINE x == j - Len(buffered)
        <3>1. x \in 1..(i - 1) /\ Len(buffered) + x = j
            BY <1>1, <1>2, <1>8, <2>2
        <3> HIDE DEF x
        <3> QED
            BY <1>6, <3>1
    <2> QED
        BY <2>1, <2>2
<1>10. ASSUME NEW j \in (Len(buffered) + i)..(Total - 2) PROVE Stream'[j] = Stream[j + 2]
    <2> DEFINE x == j - Len(buffered)
    <2>1. x \in i..(Len(wire) - 2) /\ Len(buffered) + x = j /\ Len(buffered) + x + 2 = j + 2
        BY <1>1, <1>2, <1>8
    <2> HIDE DEF x
    <2> QED
        BY <1>7, <2>1
<1> QED
    BY <1>5, <1>9, <1>10

LEMMA StreamCut ==
    ASSUME SecureTypes, NEW i \in 1..Len(wire), Whole(i), buffered' = buffered, wire' = Cut(i)
    PROVE  /\ Total' = Total - 2
           /\ \A j \in 1..(Len(buffered) + i - 1) : Stream'[j] = Stream[j]
           /\ \A j \in (Len(buffered) + i)..(Total - 2) : Stream'[j] = Stream[j + 2]
<1>1. Len(buffered) \in Nat /\ Len(wire) \in Nat /\ Total = Len(buffered) + Len(wire) /\ wire \in Seq(Piece)
    BY Streaming DEF Total, SecureTypes, HostTypes
<1>2. i \in 1..(Len(wire) - 1)
    BY WholeIsThere
<1>3. /\ Len(wire') = Len(wire) - 2
      /\ \A j \in 1..(i - 1) : wire'[j] = wire[j]
      /\ \A j \in i..(Len(wire) - 2) : wire'[j] = wire[j + 2]
    BY <1>1, CutTypes, Zenon
<1>4. Len(wire') \in Nat /\ Len(wire') >= Len(wire) - 2
    BY <1>1, <1>2, <1>3
<1>5. \A b, w \in Nat : b + (w - 2) = b + w - 2
    OBVIOUS
<1> QED
    <2>1. Total' = Len(buffered) + Len(wire')
        BY <1>3, <1>4, StreamShifted, Zenon
    <2>2. Total' = Total - 2
        BY <1>1, <1>3, <1>5, <2>1
    <2> QED
        BY <1>3, <1>4, <2>2, StreamShifted, Zenon

LEMMA StreamMoved ==
    ASSUME SecureTypes, NEW i \in 1..Len(wire), Whole(i), buffered' = buffered,
           wire' = Cut(i) \o Framed(wire[i].of)
    PROVE  /\ Total' = Total
           /\ \A j \in 1..(Len(buffered) + i - 1) : Stream'[j] = Stream[j]
           /\ \A j \in (Len(buffered) + i)..(Total - 2) : Stream'[j] = Stream[j + 2]
           /\ Stream'[(Total - 2) + 1] = [part |-> "header", of |-> wire[i].of]
           /\ Stream'[(Total - 2) + 2] = [part |-> "body", of |-> wire[i].of]
<1>1. Len(buffered) \in Nat /\ Len(wire) \in Nat /\ Total = Len(buffered) + Len(wire) /\ wire \in Seq(Piece)
    BY Streaming DEF Total, SecureTypes, HostTypes
<1>2. i \in 1..(Len(wire) - 1)
    BY WholeIsThere
<1> DEFINE c == Cut(i)
           m == wire[i].of
<1>3. /\ c \in Seq(Piece) /\ Len(c) = Len(wire) - 2 /\ m \in Said
      /\ \A j \in 1..(i - 1) : c[j] = wire[j]
      /\ \A j \in i..(Len(wire) - 2) : c[j] = wire[j + 2]
    BY <1>1, CutTypes, Zenon
<1>4. wire' = c \o Framed(m)
    OBVIOUS
<1> HIDE DEF c, m
<1>5. /\ Len(wire') = Len(c) + 2 /\ \A j \in 1..Len(c) : wire'[j] = c[j]
      /\ wire'[Len(c) + 1] = [part |-> "header", of |-> m]
      /\ wire'[Len(c) + 2] = [part |-> "body", of |-> m]
    BY <1>3, <1>4, PutAtEnd
<1>6. /\ \A j \in 1..(i - 1) : j \in 1..(Len(wire) - 2)
      /\ \A j \in i..(Len(wire) - 2) : j \in 1..(Len(wire) - 2)
      /\ Len(wire') \in Nat /\ Len(wire') >= Len(wire) - 2 /\ Len(wire') = Len(wire)
      /\ Len(wire) - 1 \in 1..Len(wire) /\ Len(wire) \in 1..Len(wire)
      /\ Len(c) + 1 = Len(wire) - 1 /\ Len(c) + 2 = Len(wire)
    BY <1>1, <1>2, <1>3, <1>5
<1>7. /\ \A j \in 1..(i - 1) : wire'[j] = wire[j]
      /\ \A j \in i..(Len(wire) - 2) : wire'[j] = wire[j + 2]
    BY <1>3, <1>5, <1>6
<1>8. /\ Total' = Len(buffered) + Len(wire')
      /\ \A j \in 1..(Len(buffered) + i - 1) : Stream'[j] = Stream[j]
      /\ \A j \in (Len(buffered) + i)..(Total - 2) : Stream'[j] = Stream[j + 2]
      /\ \A j \in 1..Len(wire') : Stream'[Len(buffered) + j] = wire'[j]
    BY <1>6, <1>7, StreamShifted
<1>9. \A b, w \in Nat : (b + w - 2) + 1 = b + (w - 1) /\ (b + w - 2) + 2 = b + w
    OBVIOUS
<1>10. (Total - 2) + 1 = Len(buffered) + (Len(wire) - 1) /\ (Total - 2) + 2 = Len(buffered) + Len(wire)
    BY <1>1, <1>9
<1>11. /\ Stream'[Len(buffered) + (Len(wire) - 1)] = [part |-> "header", of |-> m]
       /\ Stream'[Len(buffered) + Len(wire)] = [part |-> "body", of |-> m]
    BY <1>5, <1>6, <1>8
<1> QED
    BY <1>1, <1>6, <1>8, <1>10, <1>11 DEF m

(* What they do to frames that follow one another.                         *)
LEMMA FramesSame ==
    ASSUME NEW T \in Nat, NEW s, NEW t, NEW f, FramesOf(s, T, f), \A i \in 1..T : t[i] = s[i]
    PROVE  FramesOf(t, T, f)
<1>1. \A i \in 1..(T - 1) : i \in 1..T /\ i + 1 \in 1..T
    OBVIOUS
<1>2. T > 0 => 1 \in 1..T /\ T \in 1..T
    OBVIOUS
<1> QED
    BY <1>1, <1>2 DEF FramesOf

LEMMA FramesNext ==
    ASSUME NEW T \in Nat \ {0}, NEW s, NEW t, NEW f, NEW g, FramesOf(s, T, f),
           \A i \in 1..(T - 1) : t[i] = s[i + 1], (g /\ ~f) \/ (~g /\ f)
    PROVE  /\ FramesOf(t, T - 1, g)
           /\ s[1].part = IF f THEN "body" ELSE "header"
<1>1. /\ \A i \in 1..(T - 1) : i + 1 \in 1..T
      /\ \A i \in 1..(T - 1 - 1) : i \in 1..(T - 1) /\ i + 1 \in 1..(T - 1)
      /\ T - 1 > 0 => T - 1 \in 1..(T - 1) /\ 1 \in 1..(T - 1) /\ (T - 1) + 1 = T /\ 1 + 1 = 2
      /\ T - 1 = 0 => T = 1
      /\ T > 0 /\ T # 0
    OBVIOUS
<1>2. s[T].part = "body" /\ s[1].part = IF f THEN "body" ELSE "header"
    BY <1>1 DEF FramesOf
<1>3. \A i \in 1..(T - 1 - 1) : t[i].part = "header" => t[i + 1] = [part |-> "body", of |-> t[i].of]
    BY <1>1 DEF FramesOf
<1>4. \A i \in 1..(T - 1 - 1) : t[i].part = "body" => t[i + 1].part = "header"
    BY <1>1 DEF FramesOf
<1>5. T - 1 > 0 => t[T - 1].part = "body"
    BY <1>1, <1>2
<1>6. T - 1 > 0 => t[1].part = IF g THEN "body" ELSE "header"
    <2> SUFFICES ASSUME T - 1 > 0 PROVE t[1].part = IF g THEN "body" ELSE "header"
        OBVIOUS
    <2>1. t[1] = s[2]
        BY <1>1
    <2>2. CASE f
        <3>1. s[1].part = "body" /\ ~g
            BY <1>2, <2>2
        <3>2. \A i \in 1..(T - 1) : s[i].part = "body" => s[i + 1].part = "header"
            BY Zenon DEF FramesOf
        <3>3. s[2].part = "header"
            BY <1>1, <3>1, <3>2
        <3> QED
            BY <2>1, <3>1, <3>3
    <2>3. CASE ~f
        <3>1. s[1].part = "header" /\ g
            BY <1>2, <2>3
        <3>2. \A i \in 1..(T - 1) : s[i].part = "header" => s[i + 1] = [part |-> "body", of |-> s[i].of]
            BY Zenon DEF FramesOf
        <3>3. s[1 + 1] = [part |-> "body", of |-> s[1].of]
            BY <1>1, <3>1, <3>2, Zenon
        <3>4. s[2].part = "body"
            BY <3>3
        <3> QED
            BY <2>1, <3>1, <3>4
    <2> QED
        BY <2>2, <2>3
<1>7. T - 1 = 0 => ~g
    <2>1. T - 1 = 0 => s[1].part = "body"
        BY <1>1, <1>2
    <2> QED
        BY <1>2, <2>1
<1>8. \A i \in 1..(T - 1) : t[i].of.forged => t[i].of.kind = "sealed"
    BY <1>1 DEF FramesOf
<1> QED
    BY <1>2, <1>3, <1>4, <1>5, <1>6, <1>7, <1>8 DEF FramesOf

LEMMA FramesGrow ==
    ASSUME NEW T \in Nat, NEW s, NEW t, NEW f, NEW m, FramesOf(s, T, f), m.forged => m.kind = "sealed",
           \A i \in 1..T : t[i] = s[i],
           t[T + 1] = [part |-> "header", of |-> m], t[T + 2] = [part |-> "body", of |-> m]
    PROVE  FramesOf(t, T + 2, f)
<1>1. /\ \A i \in 1..(T + 2 - 1) : i \in 1..(T - 1) \/ (i = T /\ T > 0) \/ i = T + 1
      /\ \A i \in 1..(T - 1) : i \in 1..T /\ i + 1 \in 1..T
      /\ \A i \in 1..(T + 2) : i \in 1..T \/ i = T + 1 \/ i = T + 2
      /\ (T + 1) + 1 = T + 2
      /\ T > 0 => T \in 1..T /\ 1 \in 1..T
      /\ T = 0 => T + 1 = 1
      /\ T > 0 \/ T = 0
      /\ T + 2 # 0
    OBVIOUS
<1>2. \A i \in 1..(T - 1) : t[i] = s[i] /\ t[i + 1] = s[i + 1]
    BY <1>1
<1>3. T > 0 => t[T] = s[T] /\ s[T].part = "body"
    BY <1>1 DEF FramesOf
<1>4. \A i \in 1..(T + 2 - 1) : t[i].part = "header" => t[i + 1] = [part |-> "body", of |-> t[i].of]
    BY <1>1, <1>2, <1>3 DEF FramesOf
<1>5. \A i \in 1..(T + 2 - 1) : t[i].part = "body" => t[i + 1].part = "header"
    BY <1>1, <1>2, <1>3 DEF FramesOf
<1>6. t[T + 2].part = "body"
    OBVIOUS
<1>7. t[1].part = IF f THEN "body" ELSE "header"
    BY <1>1 DEF FramesOf
<1>8. \A i \in 1..(T + 2) : t[i].of.forged => t[i].of.kind = "sealed"
    BY <1>1 DEF FramesOf
<1> QED
    BY <1>1, <1>4, <1>5, <1>6, <1>7, <1>8 DEF FramesOf

LEMMA FramesCut ==
    ASSUME NEW T \in Nat, NEW s, NEW t, NEW f, NEW k \in 1..(T - 1), FramesOf(s, T, f), s[k].part = "header",
           \A i \in 1..T : s[i].part \in {"header", "body"},
           \A i \in 1..(k - 1) : t[i] = s[i], \A i \in k..(T - 2) : t[i] = s[i + 2]
    PROVE  FramesOf(t, T - 2, f)
<1>1. /\ T \in Nat /\ T >= 2 /\ k \in Nat \ {0}
      /\ \A i \in 1..(T - 2) : i \in 1..(k - 1) \/ i \in k..(T - 2)
      /\ \A i \in 1..(T - 2 - 1) : \/ i \in 1..(k - 1) /\ i + 1 \in 1..(k - 1)
                                   \/ i = k - 1 /\ k > 1 /\ i + 1 = k /\ k \in k..(T - 2)
                                   \/ i \in k..(T - 2) /\ i + 1 \in k..(T - 2) /\ (i + 1) + 2 = (i + 2) + 1
                                      /\ i + 2 \in 1..(T - 1)
      /\ \A i \in 1..(k - 1) : i \in 1..(T - 1) /\ i \in 1..T
      /\ \A i \in k..(T - 2) : i + 2 \in 1..T
      /\ k > 1 => k - 1 \in 1..(k - 1) /\ (k - 1) + 1 = k
    OBVIOUS
<1>2. s[k + 1] = [part |-> "body", of |-> s[k].of] /\ (T - 2 >= k => s[k + 2].part = "header")
    <2>1. T - 2 >= k => k + 1 \in 1..(T - 1) /\ (k + 1) + 1 = k + 2
        BY <1>1
    <2> QED
        BY <2>1 DEF FramesOf
<1>3. k > 1 => s[k - 1].part # "header"
    <2>1. \A i \in 1..(T - 1) : s[i].part = "header" => s[i + 1] = [part |-> "body", of |-> s[i].of]
        BY Zenon DEF FramesOf
    <2>2. k > 1 /\ s[k - 1].part = "header" => s[k] = [part |-> "body", of |-> s[k - 1].of]
        BY <1>1, <2>1
    <2> QED
        BY <2>2
<1>4. \A i \in 1..(T - 2 - 1) : t[i].part = "header" => t[i + 1] = [part |-> "body", of |-> t[i].of]
    <2> SUFFICES ASSUME NEW i \in 1..(T - 2 - 1), t[i].part = "header"
                 PROVE  t[i + 1] = [part |-> "body", of |-> t[i].of]
        OBVIOUS
    <2>1. CASE i \in 1..(k - 1) /\ i + 1 \in 1..(k - 1)
        BY <1>1, <2>1 DEF FramesOf
    <2>2. CASE i = k - 1 /\ k > 1
        BY <1>1, <1>3, <2>2
    <2>3. CASE i \in k..(T - 2) /\ i + 1 \in k..(T - 2) /\ (i + 1) + 2 = (i + 2) + 1 /\ i + 2 \in 1..(T - 1)
        BY <2>3 DEF FramesOf
    <2> QED
        BY <1>1, <2>1, <2>2, <2>3
<1>5. \A i \in 1..(T - 2 - 1) : t[i].part = "body" => t[i + 1].part = "header"
    <2> SUFFICES ASSUME NEW i \in 1..(T - 2 - 1), t[i].part = "body"
                 PROVE  t[i + 1].part = "header"
        OBVIOUS
    <2>1. CASE i \in 1..(k - 1) /\ i + 1 \in 1..(k - 1)
        BY <1>1, <2>1 DEF FramesOf
    <2>2. CASE i = k - 1 /\ k > 1 /\ i + 1 = k /\ k \in k..(T - 2)
        <3>1. T - 2 >= k
            BY <1>1, <2>2
        <3> QED
            BY <1>2, <2>2, <3>1
    <2>3. CASE i \in k..(T - 2) /\ i + 1 \in k..(T - 2) /\ (i + 1) + 2 = (i + 2) + 1 /\ i + 2 \in 1..(T - 1)
        BY <2>3 DEF FramesOf
    <2> QED
        BY <1>1, <2>1, <2>2, <2>3
<1>6. k > 1 => s[k - 1].part = "body"
    BY <1>1, <1>3
<1>7. T - 2 > 0 => t[T - 2].part = "body"
    <2> SUFFICES ASSUME T - 2 > 0 PROVE t[T - 2].part = "body"
        OBVIOUS
    <2>1. /\ T - 2 \in k..(T - 2) \/ (T - 2 = k - 1 /\ k > 1)
          /\ (T - 2) + 2 = T /\ T > 0
        BY <1>1
    <2>2. CASE T - 2 \in k..(T - 2)
        <3>1. t[T - 2] = s[T]
            BY <2>1, <2>2
        <3> QED
            BY <2>1, <3>1 DEF FramesOf
    <2>3. CASE T - 2 = k - 1 /\ k > 1
        <3>1. t[k - 1] = s[k - 1]
            BY <1>1, <2>3
        <3> QED
            BY <1>6, <2>3, <3>1
    <2> QED
        BY <2>1, <2>2, <2>3
<1>8. s[1].part = IF f THEN "body" ELSE "header"
    <2>1. T > 0
        BY <1>1
    <2> QED
        BY <2>1 DEF FramesOf
<1>9. k = 1 => ~f
    BY <1>8
<1>10. T - 2 > 0 => t[1].part = IF f THEN "body" ELSE "header"
    <2> SUFFICES ASSUME T - 2 > 0 PROVE t[1].part = IF f THEN "body" ELSE "header"
        OBVIOUS
    <2>1. CASE k = 1
        <3>1. 1 \in k..(T - 2) /\ T - 2 >= k
            BY <2>1, <1>1
        <3>2. t[1] = s[k + 2]
            BY <2>1, <3>1
        <3> QED
            BY <1>2, <1>9, <2>1, <3>1, <3>2
    <2>2. CASE k > 1
        <3>1. 1 \in 1..(k - 1)
            BY <1>1, <2>2
        <3>2. t[1] = s[1]
            BY <3>1
        <3> QED
            BY <1>8, <3>2
    <2> QED
        BY <1>1, <2>1, <2>2
<1>11. T - 2 = 0 => ~f
    <2>1. T - 2 = 0 => k = 1
        BY <1>1
    <2> QED
        BY <1>9, <2>1
<1>12. \A i \in 1..(T - 2) : t[i].of.forged => t[i].of.kind = "sealed"
    <2> SUFFICES ASSUME NEW i \in 1..(T - 2), t[i].of.forged PROVE t[i].of.kind = "sealed"
        OBVIOUS
    <2>1. \E j \in 1..T : t[i] = s[j]
        BY <1>1
    <2> QED
        BY <2>1 DEF FramesOf
<1> QED
    BY <1>4, <1>5, <1>7, <1>10, <1>11, <1>12 DEF FramesOf

LEMMA FramesAltered ==
    ASSUME NEW T \in Nat, NEW s, NEW t, NEW f, NEW k \in 1..(T - 1), FramesOf(s, T, f),
           s[k].part = "header", s[k].of.kind = "sealed",
           t[k] = Altered(s[k]), t[k + 1] = Altered(s[k + 1]),
           \A i \in 1..T : i # k /\ i # k + 1 => t[i] = s[i]
    PROVE  /\ FramesOf(t, T, f)
           /\ k + 1 \in 1..T /\ t[k + 1].part = "body" /\ t[k + 1].of.forged
<1>1. /\ k \in 1..T /\ k + 1 \in 1..T /\ T > 0 /\ T # 0 /\ 1 \in 1..T /\ T \in 1..T
      /\ \A i \in 1..(T - 1) : i \in 1..T /\ i + 1 \in 1..T /\ (i + 1 = k + 1 => i = k)
    OBVIOUS
<1>2. s[k + 1] = [part |-> "body", of |-> s[k].of]
    BY DEF FramesOf
<1>3. /\ t[k] = [part |-> "header", of |-> Forged(s[k].of)]
      /\ t[k + 1] = [part |-> "body", of |-> Forged(s[k].of)]
    BY <1>2 DEF Altered
<1>4. \A i \in 1..T : t[i].part = s[i].part
    BY <1>2, <1>3
<1>5. \A i \in 1..(T - 1) : t[i].part = "header" => t[i + 1] = [part |-> "body", of |-> t[i].of]
    <2> SUFFICES ASSUME NEW i \in 1..(T - 1), t[i].part = "header"
                 PROVE  t[i + 1] = [part |-> "body", of |-> t[i].of]
        OBVIOUS
    <2>1. CASE i = k
        BY <1>3, <2>1
    <2>2. CASE i # k
        <3>1. s[i].part = "header" /\ i # k + 1
            BY <1>1, <1>3, <1>4
        <3>2. s[i + 1] = [part |-> "body", of |-> s[i].of]
            BY <3>1 DEF FramesOf
        <3>3. i + 1 # k /\ i + 1 # k + 1
            BY <1>1, <2>2, <3>2
        <3> QED
            BY <1>1, <2>2, <3>1, <3>2, <3>3
    <2> QED
        BY <2>1, <2>2
<1>6. \A i \in 1..(T - 1) : t[i].part = "body" => t[i + 1].part = "header"
    BY <1>1, <1>4 DEF FramesOf
<1>7. t[T].part = "body" /\ t[1].part = IF f THEN "body" ELSE "header"
    BY <1>1, <1>4 DEF FramesOf
<1>8. \A i \in 1..T : t[i].of.forged => t[i].of.kind = "sealed"
    <2> SUFFICES ASSUME NEW i \in 1..T, t[i].of.forged PROVE t[i].of.kind = "sealed"
        OBVIOUS
    <2>1. CASE i = k \/ i = k + 1
        BY <1>3, <2>1 DEF Forged
    <2>2. CASE i # k /\ i # k + 1
        BY <2>2 DEF FramesOf
    <2> QED
        BY <2>1, <2>2
<1>9. t[k + 1].of.forged
    BY <1>3 DEF Forged
<1> QED
    BY <1>1, <1>3, <1>5, <1>6, <1>7, <1>8, <1>9 DEF FramesOf

(* What is done on the way: frames still follow one another, and what was  *)
(* forged is there unless it was held back.                                *)
LEMMA FrameAdded ==
    ASSUME SecureTypes, Frames, NEW m \in Said, m.forged => m.kind = "sealed",
           wire' = wire \o Framed(m), UNCHANGED <<buffered, framed>>
    PROVE  /\ FramesOf(Stream', Total', framed')
           /\ HasForged(Stream, Total) \/ m.forged => HasForged(Stream', Total')
<1>1. /\ Total' = Total + 2 /\ Total \in Nat
      /\ \A i \in 1..Total : Stream'[i] = Stream[i]
      /\ Stream'[Total + 1] = [part |-> "header", of |-> m]
      /\ Stream'[Total + 2] = [part |-> "body", of |-> m]
    BY StreamGrows
<1>2. FramesOf(Stream', Total + 2, framed)
    <2>1. FramesOf(Stream, Total, framed)
        BY DEF Frames
    <2> QED
        BY <1>1, <2>1, FramesGrow
<1>3. ASSUME HasForged(Stream, Total) PROVE HasForged(Stream', Total + 2)
    <2>1. PICK i \in 1..Total : Stream[i].part = "body" /\ Stream[i].of.forged
        BY <1>3 DEF HasForged
    <2>2. i \in 1..(Total + 2) /\ Stream'[i] = Stream[i]
        BY <1>1
    <2> QED
        BY <2>1, <2>2 DEF HasForged
<1>4. m.forged => HasForged(Stream', Total + 2)
    <2>1. Total + 2 \in 1..(Total + 2)
        BY <1>1
    <2> QED
        BY <1>1, <2>1 DEF HasForged
<1>5. framed' = framed
    OBVIOUS
<1> QED
    BY <1>1, <1>2, <1>3, <1>4, <1>5

LEMMA FrameAltered ==
    ASSUME SecureTypes, Frames, NEW i \in 1..Len(wire), Whole(i), UNCHANGED <<buffered, framed>>,
           wire' = [wire EXCEPT ![i] = Altered(@), ![i + 1] = Altered(@)]
    PROVE  FramesOf(Stream', Total', framed') /\ HasForged(Stream', Total')
<1> DEFINE k == Len(buffered) + i
<1>1. k \in 1..(Total - 1) /\ Stream[k].part = "header" /\ Stream[k].of.kind = "sealed"
    BY WholeIsThere
<1>2. /\ Total' = Total
      /\ Stream'[k] = Altered(Stream[k]) /\ Stream'[k + 1] = Altered(Stream[k + 1])
      /\ \A j \in 1..Total : j # k /\ j # k + 1 => Stream'[j] = Stream[j]
    BY StreamAltered
<1>3. Total \in Nat
    BY Streaming
<1> HIDE DEF k
<1>4. FramesOf(Stream, Total, framed)
    BY DEF Frames
<1>5. /\ FramesOf(Stream', Total, framed)
      /\ k + 1 \in 1..Total /\ Stream'[k + 1].part = "body" /\ Stream'[k + 1].of.forged
    BY <1>1, <1>2, <1>3, <1>4, FramesAltered
<1> QED
    BY <1>2, <1>5 DEF HasForged

LEMMA PartsOfStream == SecureTypes => \A j \in 1..Total : Stream[j].part \in {"header", "body"}
BY Streaming DEF Piece

LEMMA FrameCut ==
    ASSUME SecureTypes, Frames, NEW i \in 1..Len(wire), Whole(i), UNCHANGED <<buffered, framed>>,
           wire' = Cut(i)
    PROVE  FramesOf(Stream', Total', framed')
<1> DEFINE k == Len(buffered) + i
<1>1. k \in 1..(Total - 1) /\ Stream[k].part = "header"
    BY WholeIsThere
<1>2. /\ Total' = Total - 2
      /\ \A j \in 1..(k - 1) : Stream'[j] = Stream[j]
      /\ \A j \in k..(Total - 2) : Stream'[j] = Stream[j + 2]
    BY StreamCut
<1>3. Total \in Nat
    BY Streaming
<1> HIDE DEF k
<1>4. FramesOf(Stream, Total, framed)
    BY DEF Frames
<1>5. FramesOf(Stream', Total - 2, framed)
    BY <1>1, <1>2, <1>3, <1>4, FramesCut, PartsOfStream
<1> QED
    BY <1>2, <1>5

LEMMA FrameMoved ==
    ASSUME SecureTypes, Frames, NEW i \in 1..Len(wire), Whole(i), UNCHANGED <<buffered, framed>>,
           wire' = Cut(i) \o Framed(wire[i].of)
    PROVE  /\ FramesOf(Stream', Total', framed')
           /\ HasForged(Stream, Total) => HasForged(Stream', Total')
<1> DEFINE k == Len(buffered) + i
           m == wire[i].of
<1>1. k \in 1..(Total - 1) /\ Stream[k] = wire[i] /\ Stream[k].part = "header" /\ Stream[k].of = m
    BY WholeIsThere
<1>2. /\ Total' = Total
      /\ \A j \in 1..(k - 1) : Stream'[j] = Stream[j]
      /\ \A j \in k..(Total - 2) : Stream'[j] = Stream[j + 2]
      /\ Stream'[(Total - 2) + 1] = [part |-> "header", of |-> m]
      /\ Stream'[(Total - 2) + 2] = [part |-> "body", of |-> m]
    BY StreamMoved, SMTT(30)
<1>3. Total \in Nat
    BY Streaming
<1>4. FramesOf(Stream, Total, framed)
    BY DEF Frames
<1> HIDE DEF k, m
<1>5. /\ Total - 2 \in Nat /\ (Total - 2) + 2 = Total /\ k \in 1..Total
      /\ k + 1 \in 1..Total
      /\ \A j \in 1..Total : \/ j \in 1..(k - 1) \/ j = k \/ j = k + 1
                             \/ (j - 2) + 2 = j /\ j - 2 \in k..(Total - 2) /\ j - 2 \in 1..Total
      /\ \A j \in 1..(k - 1) : j \in 1..Total
      /\ Total \in 1..Total
    BY <1>1, <1>3
<1>6. FramesOf(Stream', Total - 2, framed)
    BY <1>1, <1>2, <1>3, <1>4, FramesCut, PartsOfStream
<1>7. m.forged => m.kind = "sealed"
    BY <1>1, <1>4, <1>5 DEF FramesOf
<1>8. FramesOf(Stream', Total, framed)
    <2>1. \A j \in 1..(Total - 2) : Stream'[j] = Stream'[j]
        OBVIOUS
    <2>2. FramesOf(Stream', (Total - 2) + 2, framed)
        BY <1>2, <1>5, <1>6, <1>7, <2>1, FramesGrow
    <2> QED
        BY <1>5, <2>2
<1>9. ASSUME HasForged(Stream, Total) PROVE HasForged(Stream', Total)
    <2>1. PICK j \in 1..Total : Stream[j].part = "body" /\ Stream[j].of.forged
        BY <1>9 DEF HasForged
    <2>2. CASE j \in 1..(k - 1)
        BY <1>2, <1>5, <2>1, <2>2 DEF HasForged
    <2>3. CASE j = k \/ j = k + 1
        <3>1. Stream[k + 1] = [part |-> "body", of |-> m]
            BY <1>1, <1>4 DEF FramesOf
        <3>2. m.forged
            BY <1>1, <2>1, <2>3, <3>1
        <3>3. Stream'[Total] = [part |-> "body", of |-> m]
            BY <1>2, <1>5
        <3> QED
            BY <1>5, <3>2, <3>3 DEF HasForged
    <2>4. CASE (j - 2) + 2 = j /\ j - 2 \in k..(Total - 2) /\ j - 2 \in 1..Total
        <3>1. Stream'[j - 2] = Stream[j]
            BY <1>2, <2>4
        <3> QED
            BY <2>1, <2>4, <3>1 DEF HasForged
    <2> QED
        BY <1>5, <2>2, <2>3, <2>4
<1> QED
    BY <1>2, <1>8, <1>9

Watched == ~closed => Frames /\ NotUnnoticed

LEMMA WatchedAtFirst == SecureInit => Watched
<1> SUFFICES ASSUME SecureInit PROVE Frames /\ NotUnnoticed
    BY DEF Watched
<1>1. /\ buffered = <<>> /\ ~framed /\ inbox = <<>> /\ touched = {}
      /\ \/ wire = Framed(Plain("challenge"))
         \/ wire = Framed(Plain("error"))
    BY DEF SecureInit
<1>2. PICK m \in Said : wire = Framed(m) /\ ~m.forged
    BY <1>1, Saids
<1>3. /\ Len(wire) = 2 /\ wire[1] = [part |-> "header", of |-> m] /\ wire[2] = [part |-> "body", of |-> m]
    BY <1>2, Pieces
<1>4. Total = 2 /\ Len(buffered) = 0
    BY <1>1, <1>3 DEF Total
<1>5. Stream = [j \in 1..2 |-> wire[j]]
    BY <1>4 DEF Stream
<1>6. Stream[1] = [part |-> "header", of |-> m] /\ Stream[2] = [part |-> "body", of |-> m]
    BY <1>3, <1>5
<1>7. FramesOf(Stream, 2, framed)
    BY <1>1, <1>2, <1>6 DEF FramesOf
<1> QED
    BY <1>1, <1>4, <1>7 DEF Frames, NotUnnoticed

LEMMA StreamSame == UNCHANGED <<buffered, wire>> => Stream' = Stream /\ Total' = Total
BY DEF Stream, Total

LEMMA FramesUndisturbed ==
    ASSUME SecureTypes, Frames, NotUnnoticed, UNCHANGED <<buffered, wire, framed, inbox, touched>>,
           busy # "draining" \/ batch = <<>> \/ UNCHANGED <<busy, batch>>
    PROVE  Frames' /\ NotUnnoticed'
<1>1. Stream' = Stream /\ Total' = Total /\ framed' = framed
    BY StreamSame
<1>2. FramesOf(Stream, Total, framed)'
    <2>1. FramesOf(Stream', Total', framed')
        BY <1>1 DEF Frames
    <2> QED
        BY <2>1 DEF FramesOf
<1>3. Frames'
    BY <1>2 DEF Frames
<1>4. ForgedIsThere => ForgedIsThere'
    BY <1>1 DEF ForgedIsThere, HasForged
<1> QED
    BY <1>3, <1>4 DEF NotUnnoticed

(* Somebody meddles, or the host says something.                           *)
LEMMA WatchedOnTheWay ==
    ASSUME SecureTypes, Frames, NotUnnoticed, HostSeals \/ HostErrs \/ Meddle
    PROVE  Frames' /\ NotUnnoticed'
<1>1. UNCHANGED <<reader, viewerEnd>>
    BY DEF HostSeals, HostErrs, Meddle
<1>2. UNCHANGED <<buffered, framed, busy, batch, inbox>>
    BY <1>1 DEF reader, viewerEnd
<1>3. wire \in Seq(Piece) /\ spoken \in Nat
    BY DEF SecureTypes, HostTypes
<1>4. \/ /\ FramesOf(Stream', Total', framed') /\ (HasForged(Stream, Total) => HasForged(Stream', Total'))
         /\ touched' = touched \/ touched' = touched \cup {"again"}
      \/ FramesOf(Stream', Total', framed') /\ HasForged(Stream', Total')
      \/ FramesOf(Stream', Total', framed') /\ "lost" \in touched'
    <2>1. CASE HostSeals
        <3>1. spoken' \in Nat /\ wire' = wire \o Framed(Sealed(spoken')) /\ touched' = touched
            BY <1>3, <2>1 DEF HostSeals
        <3>2. Sealed(spoken') \in Said /\ ~Sealed(spoken').forged
            BY <3>1, Saids
        <3> QED
            BY <1>2, <3>1, <3>2, FrameAdded
    <2>2. CASE HostErrs
        <3>1. wire = <<>> /\ wire' = Framed(Plain("error")) /\ touched' = touched
            BY <2>2 DEF HostErrs
        <3>2. Plain("error") \in Said /\ ~Plain("error").forged
            BY Saids
        <3>3. wire' = wire \o Framed(Plain("error"))
            BY <3>1, <3>2, Pieces
        <3> QED
            BY <1>2, <3>1, <3>2, <3>3, FrameAdded
    <2>3. CASE Meddle
        <3>1. CASE wire' = wire \o Framed(Forged(Sealed(1)))
            <4>1. Forged(Sealed(1)) \in Said /\ Forged(Sealed(1)).forged /\ Forged(Sealed(1)).kind = "sealed"
                BY DEF Forged, Sealed, Said
            <4> QED
                BY <1>2, <3>1, <4>1, FrameAdded
        <3>2. ASSUME NEW i \in 1..Len(wire), Whole(i),
                     wire' = [wire EXCEPT ![i] = Altered(@), ![i + 1] = Altered(@)]
              PROVE  FramesOf(Stream', Total', framed') /\ HasForged(Stream', Total')
            BY <1>2, <3>2, FrameAltered
        <3>3. ASSUME NEW i \in 1..Len(wire), Whole(i), wire' = Cut(i)
              PROVE  FramesOf(Stream', Total', framed')
            BY <1>2, <3>3, FrameCut
        <3>4. ASSUME NEW i \in 1..Len(wire), Whole(i),
                     wire' \in {Cut(i) \o Framed(wire[i].of), wire \o Framed(wire[i].of)}
              PROVE  FramesOf(Stream', Total', framed') /\ (HasForged(Stream, Total) => HasForged(Stream', Total'))
            <4>1. CASE wire' = Cut(i) \o Framed(wire[i].of)
                BY <1>2, <3>4, <4>1, FrameMoved
            <4>2. CASE wire' = wire \o Framed(wire[i].of)
                <5>1. wire[i].of \in Said /\ wire[i].of.kind = "sealed"
                    BY <3>4, WholeIsThere
                <5> QED
                    BY <1>2, <4>2, <5>1, FrameAdded
            <4> QED
                BY <3>4, <4>1, <4>2
        <3> QED
            BY <2>3, <3>1, <3>2, <3>3, <3>4 DEF Meddle
    <2> QED
        BY <2>1, <2>2, <2>3
<1>5. FramesOf(Stream, Total, framed)'
    <2>1. FramesOf(Stream', Total', framed')
        BY <1>4
    <2> QED
        BY <2>1 DEF FramesOf
<1>6. Frames'
    BY <1>2, <1>5 DEF Frames
<1>7. HasForged(Stream', Total') => HasForged(Stream, Total)'
    BY DEF HasForged
<1>8. HasForged(Stream', Total') => ForgedIsThere'
    BY <1>7 DEF ForgedIsThere
<1>9. ForgedIsThere => ForgedIsThere' \/ HasForged(Stream, Total)
    BY <1>2 DEF ForgedIsThere
<1>10. \/ "lost" \in touched' \/ HasForged(Stream', Total')
       \/ /\ HasForged(Stream, Total) => HasForged(Stream', Total')
          /\ touched' = touched \/ touched' = touched \cup {"again"}
    BY <1>4
<1> QED
    BY <1>6, <1>8, <1>9, <1>10 DEF NotUnnoticed

(* The viewer takes what came.                                             *)
LEMMA WatchedInAChunk ==
    ASSUME SecureTypes, SecureTypes', Frames, NotUnnoticed, NEW k, Chunk(k)
    PROVE  Frames' /\ NotUnnoticed'
<1>1. UNCHANGED <<touched, framed, inbox>> /\ busy = "no"
    BY DEF Chunk, viewerEnd
<1>2. Total' = Total /\ (\A i \in 1..Total : Stream'[i] = Stream[i]) /\ Total \in Nat
    BY StreamKept, Streaming
<1>3. FramesOf(Stream, Total, framed)'
    <2>1. FramesOf(Stream, Total, framed)
        BY DEF Frames
    <2>2. FramesOf(Stream', Total, framed)
        BY <1>2, <2>1, FramesSame
    <2> QED
        BY <1>1, <1>2, <2>2 DEF FramesOf
<1>4. Frames'
    BY <1>1, <1>3 DEF Frames
<1>5. HasForged(Stream, Total) => HasForged(Stream, Total)'
    BY <1>2 DEF HasForged
<1>6. ForgedIsThere => ForgedIsThere'
    BY <1>1, <1>5 DEF ForgedIsThere
<1> QED
    BY <1>1, <1>4, <1>6 DEF NotUnnoticed

LEMMA PieceIsTaken ==
    ASSUME SecureTypes, Frames, buffered # <<>>, buffered' = Tail(buffered), wire' = wire,
           (framed' /\ ~framed) \/ (~framed' /\ framed)
    PROVE  /\ FramesOf(Stream, Total, framed)'
           /\ buffered[1].part = IF framed THEN "body" ELSE "header"
           /\ HasForged(Stream, Total) =>
                 HasForged(Stream, Total)' \/ (framed /\ buffered[1].of.forged)
<1>1. /\ Total \in Nat \ {0} /\ Total' = Total - 1 /\ Stream[1] = buffered[1]
      /\ \A i \in 1..(Total - 1) : Stream'[i] = Stream[i + 1]
    BY StreamRead
<1>2. FramesOf(Stream, Total, framed)
    BY DEF Frames
<1>3. FramesOf(Stream', Total - 1, framed') /\ Stream[1].part = IF framed THEN "body" ELSE "header"
    BY <1>1, <1>2, FramesNext
<1>4. ASSUME HasForged(Stream, Total)
      PROVE  HasForged(Stream', Total - 1) \/ (framed /\ buffered[1].of.forged)
    <2>1. PICK j \in 1..Total : Stream[j].part = "body" /\ Stream[j].of.forged
        BY <1>4 DEF HasForged
    <2>2. CASE j = 1
        <3>1. Stream[1].part = "body" /\ Stream[1].of.forged
            BY <2>1, <2>2
        <3>2. framed
            BY <1>3, <3>1
        <3> QED
            BY <1>1, <3>1, <3>2
    <2>3. CASE j # 1
        <3>1. j - 1 \in 1..(Total - 1) /\ (j - 1) + 1 = j
            BY <1>1, <2>3
        <3>2. Stream'[j - 1] = Stream[j]
            BY <1>1, <3>1
        <3> QED
            BY <2>1, <3>1, <3>2 DEF HasForged
    <2> QED
        BY <2>2, <2>3
<1>5. FramesOf(Stream, Total, framed)'
    BY <1>1, <1>3 DEF FramesOf
<1>6. HasForged(Stream', Total - 1) => HasForged(Stream, Total)'
    BY <1>1 DEF HasForged
<1> QED
    BY <1>1, <1>3, <1>4, <1>5, <1>6

LEMMA WatchedInRead ==
    ASSUME SecureTypes, LinkShape, Frames, NotUnnoticed, buffered # <<>>, ~closed',
           (ReadHeader \/ ReadBody)
    PROVE  Frames' /\ NotUnnoticed'
<1>1. UNCHANGED <<wire, touched, batch>> /\ busy = "reading"
    BY DEF ReadHeader, ReadBody, hostEnd
<1>2. CASE ReadHeader
    <2>1. ~framed /\ framed' = TRUE /\ buffered' = Tail(buffered) /\ UNCHANGED inbox
        BY <1>2 DEF ReadHeader, viewerEnd
    <2>2. FramesOf(Stream, Total, framed)' /\ (HasForged(Stream, Total) => HasForged(Stream, Total)')
        BY <1>1, <2>1, PieceIsTaken
    <2>3. Frames'
        BY <2>1, <2>2 DEF Frames
    <2>4. ForgedIsThere => ForgedIsThere'
        BY <1>1, <2>1, <2>2 DEF ForgedIsThere
    <2> QED
        BY <1>1, <2>3, <2>4 DEF NotUnnoticed
<1>3. CASE ReadBody
    <2> DEFINE m == buffered[1].of
    <2>1. m \in Said
        <3>1. buffered[1] \in Piece
            BY DEF SecureTypes, ReaderTypes
        <3> QED
            BY <3>1 DEF Piece
    <2>2. /\ framed /\ framed' = FALSE /\ buffered' = Tail(buffered)
          /\ IF stage \in {"hello", "challenged"} THEN ToInbox(m) ELSE ToControl(m)
        BY <1>3 DEF ReadBody
    <2>3. /\ FramesOf(Stream, Total, framed)'
          /\ HasForged(Stream, Total) => HasForged(Stream, Total)' \/ m.forged
        BY <1>1, <2>2, PieceIsTaken
    <2>4. m.forged => m.kind = "sealed"
        <3>1. FramesOf(Stream, Total, framed) /\ 1 \in 1..Total /\ Stream[1] = buffered[1]
            <4>1. Total \in Nat \ {0} /\ Stream[1] = buffered[1]
                BY <1>1, <2>2, StreamRead
            <4> QED
                BY <4>1 DEF Frames
        <3> QED
            BY <3>1 DEF FramesOf
    <2> HIDE DEF m
    <2>5. inbox \in Seq(Said)
        BY DEF SecureTypes, ViewerTypes
    <2>6. CASE stage \in {"hello", "challenged"}
        <3>1. ToInbox(m)
            BY <2>2, <2>6
        <3>2. inbox' = Append(inbox, m)
            <4>1. CASE stage = "hello"
                <5>1. inbox = <<>> /\ inbox' = <<m>> \o inbox
                    BY <3>1, <4>1 DEF ToInbox, LinkShape
                <5> QED
                    BY <2>1, <5>1
            <4>2. CASE stage # "hello"
                BY <3>1, <4>2 DEF ToInbox
            <4> QED
                BY <4>1, <4>2
        <3>3. /\ Len(inbox') = Len(inbox) + 1 /\ \A i \in 1..Len(inbox) : inbox'[i] = inbox[i]
              /\ inbox'[Len(inbox) + 1] = m /\ Len(inbox) \in Nat
              /\ \A i \in 1..(Len(inbox) + 1) : i \in 1..Len(inbox) \/ i = Len(inbox) + 1
              /\ \A i \in 1..Len(inbox) : i \in 1..(Len(inbox) + 1)
              /\ Len(inbox) + 1 \in 1..(Len(inbox) + 1)
            BY <2>1, <2>5, <3>2
        <3>4. Frames'
            BY <2>3, <2>4, <3>3 DEF Frames
        <3>5. (\E i \in 1..Len(inbox) : inbox[i].forged) \/ m.forged => \E i \in 1..Len(inbox') : inbox'[i].forged
            BY <3>3
        <3>6. ForgedIsThere => ForgedIsThere'
            BY <1>1, <2>3, <3>5 DEF ForgedIsThere
        <3> QED
            BY <1>1, <3>4, <3>6 DEF NotUnnoticed
    <2>7. CASE stage \notin {"hello", "challenged"}
        <3>1. ToControl(m)
            BY <2>2, <2>7
        <3>2. OpensNext(m) /\ Offer(m)
            BY <3>1 DEF ToControl, CloseLink
        <3>3. ~m.forged /\ inbox' = inbox
            BY <3>2 DEF OpensNext, Offer
        <3>4. Frames'
            BY <2>3, <3>3 DEF Frames
        <3>5. ForgedIsThere => ForgedIsThere'
            BY <1>1, <2>3, <3>3 DEF ForgedIsThere
        <3> QED
            BY <1>1, <3>4, <3>5 DEF NotUnnoticed
    <2> QED
        BY <2>6, <2>7
<1> QED
    BY <1>2, <1>3

(* What the inbox held goes to the channel.                                *)
LEMMA WatchedInTurn ==
    ASSUME SecureTypes, LinkShape, Frames, NotUnnoticed, ~closed', Answer \/ Drain
    PROVE  Frames' /\ NotUnnoticed'
<1>1. UNCHANGED <<wire, touched, buffered, framed>>
    BY DEF Answer, Drain, hostEnd
<1>2. Stream' = Stream /\ Total' = Total
    BY <1>1, StreamSame
<1>3. FramesOf(Stream, Total, framed)' /\ (HasForged(Stream, Total) => HasForged(Stream, Total)')
    <2>1. FramesOf(Stream', Total', framed')
        BY <1>1, <1>2 DEF Frames
    <2> QED
        BY <1>2, <2>1 DEF FramesOf, HasForged
<1>4. inbox \in Seq(Said) /\ batch \in Seq(Said)
    BY DEF SecureTypes, ViewerTypes, ReaderTypes
<1>5. CASE Answer
    <2>1. /\ inbox # <<>> /\ inbox[1].kind = "challenge" /\ inbox' = <<>> /\ batch' = Tail(inbox)
          /\ busy' = "draining" /\ busy = "no"
        BY <1>5 DEF Answer, SecureTypes, ViewerTypes
    <2>2. /\ Len(Tail(inbox)) = Len(inbox) - 1 /\ Len(inbox) \in Nat \ {0} /\ 1 \in 1..Len(inbox)
          /\ \A i \in 1..(Len(inbox) - 1) : Tail(inbox)[i] = inbox[i + 1]
        BY <1>4, <2>1, Rest
    <2>3. ~inbox[1].forged
        BY <2>1, <2>2 DEF Frames
    <2>4. \A i \in 1..Len(inbox) : i # 1 => i - 1 \in 1..(Len(inbox) - 1) /\ (i - 1) + 1 = i
        BY <2>2
    <2>5. (\E i \in 1..Len(inbox) : inbox[i].forged) => \E i \in 1..Len(batch') : batch'[i].forged
        <3> SUFFICES ASSUME NEW i \in 1..Len(inbox), inbox[i].forged
                     PROVE  \E j \in 1..Len(batch') : batch'[j].forged
            OBVIOUS
        <3>1. i # 1
            BY <2>3
        <3>2. i - 1 \in 1..Len(batch') /\ batch'[i - 1] = inbox[i]
            BY <2>1, <2>2, <2>4, <3>1
        <3> QED
            BY <3>2
    <2>6. Frames'
        BY <1>3, <2>1 DEF Frames
    <2>7. ForgedIsThere => ForgedIsThere'
        BY <1>3, <2>1, <2>5 DEF ForgedIsThere
    <2> QED
        BY <1>1, <2>6, <2>7 DEF NotUnnoticed
<1>6. CASE Drain
    <2>1. /\ busy = "draining" /\ busy' = busy /\ batch # <<>> /\ batch' = Tail(batch) /\ ToControl(batch[1])
        BY <1>6 DEF Drain
    <2>2. ~batch[1].forged /\ inbox' = inbox
        <3>1. OpensNext(batch[1]) /\ Offer(batch[1])
            BY <2>1 DEF ToControl, CloseLink
        <3> QED
            BY <3>1 DEF OpensNext, Offer
    <2>3. /\ Len(Tail(batch)) = Len(batch) - 1 /\ Len(batch) \in Nat \ {0}
          /\ \A i \in 1..(Len(batch) - 1) : Tail(batch)[i] = batch[i + 1]
        BY <1>4, <2>1, Rest
    <2>4. \A i \in 1..Len(batch) : i # 1 => i - 1 \in 1..(Len(batch) - 1) /\ (i - 1) + 1 = i
        BY <2>3
    <2>5. (\E i \in 1..Len(batch) : batch[i].forged) => \E i \in 1..Len(batch') : batch'[i].forged
        <3> SUFFICES ASSUME NEW i \in 1..Len(batch), batch[i].forged
                     PROVE  \E j \in 1..Len(batch') : batch'[j].forged
            OBVIOUS
        <3>1. i # 1
            BY <2>2
        <3>2. i - 1 \in 1..Len(batch') /\ batch'[i - 1] = batch[i]
            BY <2>1, <2>3, <2>4, <3>1
        <3> QED
            BY <3>2
    <2>6. Frames'
        BY <1>3, <2>2 DEF Frames
    <2>7. ForgedIsThere => ForgedIsThere'
        BY <1>3, <2>1, <2>2, <2>5 DEF ForgedIsThere
    <2> QED
        BY <1>1, <2>6, <2>7 DEF NotUnnoticed
<1> QED
    BY <1>5, <1>6

LEMMA WatchedKeeps ==
    ASSUME SecureTypes, SecureTypes', LinkShape, Watched, [SecureNext]_secureVars
    PROVE  Watched'
<1> SUFFICES ASSUME ~closed' PROVE Frames' /\ NotUnnoticed'
    BY DEF Watched
<1>1. CASE UNCHANGED secureVars \/ HostSeals \/ HostErrs \/ Meddle
    <2>1. closed' = closed
        BY <1>1 DEF secureVars, viewerEnd, HostSeals, HostErrs, Meddle
    <2>2. Frames /\ NotUnnoticed
        BY <2>1 DEF Watched
    <2>3. CASE UNCHANGED secureVars
        <3>1. UNCHANGED <<buffered, wire, framed, inbox, touched, busy, batch>>
            BY <2>3 DEF secureVars, viewerEnd, hostEnd, reader
        <3> QED
            BY <2>2, <3>1, FramesUndisturbed
    <2> QED
        BY <1>1, <2>2, <2>3, WatchedOnTheWay
<1>2. ASSUME NEW k \in 1..MaxChunk, Chunk(k) PROVE Frames' /\ NotUnnoticed'
    <2>1. Frames /\ NotUnnoticed
        BY <1>2 DEF Chunk, Watched
    <2> QED
        BY <1>2, <2>1, WatchedInAChunk
<1>3. CASE Runs \/ Answer \/ Return \/ Timeout \/ LinkDrops
    <2>1. ~closed
        <3>1. CASE ReadHeader \/ Handed \/ Expect \/ LinkDrops \/ Answer \/ Return \/ Timeout
            BY <3>1 DEF ReadHeader, Handed, Expect, LinkDrops, CloseLink, Answer, Return, Timeout, viewerEnd
        <3>2. CASE Hand
            BY <3>2 DEF Hand
        <3>3. ASSUME NEW m, ToControl(m) PROVE ~closed
            <4>1. Offer(m) /\ ViewerTypes
                BY <3>3 DEF ToControl, CloseLink, SecureTypes
            <4> QED
                BY <4>1, OfferCases
        <3>4. CASE ReadBody
            <4>1. UNCHANGED closed \/ ToControl(buffered[1].of)
                BY <3>4 DEF ReadBody, ToInbox, viewerEnd
            <4> QED
                BY <3>3, <4>1
        <3>5. CASE Drain
            BY <3>3, <3>5 DEF Drain
        <3> QED
            BY <1>3, <3>1, <3>2, <3>4, <3>5 DEF Runs
    <2>2. Frames /\ NotUnnoticed
        BY <2>1 DEF Watched
    <2>3. CASE (ReadHeader \/ ReadBody) /\ buffered # <<>>
        BY <2>2, <2>3, WatchedInRead
    <2>4. CASE (ReadHeader \/ ReadBody) /\ buffered = <<>>
        <3>1. UNCHANGED <<buffered, wire, framed, inbox, touched, batch>> /\ busy = "reading"
            BY <2>4 DEF ReadHeader, ReadBody, hostEnd, viewerEnd
        <3> QED
            BY <2>2, <3>1, FramesUndisturbed
    <2>5. CASE Answer \/ Drain
        BY <2>2, <2>5, WatchedInTurn
    <2>6. CASE Expect \/ Hand \/ Handed \/ Return \/ Timeout
        <3>1. /\ UNCHANGED <<buffered, wire, framed, inbox, touched>>
              /\ busy # "draining" \/ batch = <<>>
            BY <2>6 DEF Expect, Hand, Handed, Return, Timeout, hostEnd, reader, viewerEnd
        <3> QED
            BY <2>2, <3>1, FramesUndisturbed
    <2>7. CASE LinkDrops
        BY <2>7 DEF LinkDrops, CloseLink
    <2> QED
        BY <1>3, <2>3, <2>4, <2>5, <2>6, <2>7 DEF Runs
<1> QED
    BY <1>1, <1>2, <1>3 DEF SecureNext

LEMMA ForgedIsNoticed == SecureTypes /\ Watched => TamperingIsFatal
<1> SUFFICES ASSUME SecureTypes, Frames, NotUnnoticed, "forged" \in touched, "lost" \notin touched, busy = "no",
                    \A q \in {wire, buffered} : \A i \in 1..Len(q) : ~q[i].of.forged,
                    \A i \in 1..Len(inbox) : ~inbox[i].forged
             PROVE  FALSE
    BY DEF Watched, TamperingIsFatal
<1>1. HasForged(Stream, Total)
    BY DEF NotUnnoticed, ForgedIsThere
<1>2. PICK j \in 1..Total : Stream[j].of.forged
    BY <1>1 DEF HasForged
<1>3. Len(buffered) \in Nat /\ Len(wire) \in Nat /\ Total = Len(buffered) + Len(wire)
    BY Streaming DEF Total
<1>4. Stream[j] = IF j <= Len(buffered) THEN buffered[j] ELSE wire[j - Len(buffered)]
    BY DEF Stream
<1>5. j \in 1..Len(buffered) \/ (~(j <= Len(buffered)) /\ j - Len(buffered) \in 1..Len(wire))
    BY <1>3
<1> QED
    BY <1>2, <1>4, <1>5

(* What an honest link carries, when a piece is taken or a frame added.    *)
LEMMA CarriesSame ==
    ASSUME NEW T \in Nat, NEW s, NEW t, NEW off \in {0, 1}, NEW h, NEW d \in Nat, Carries(s, T, off, h, d),
           \A i \in 1..T : t[i] = s[i]
    PROVE  Carries(t, T, off, h, d)
<1>1. T + off = 2 * d
    BY DEF Carries
<1>2. ASSUME NEW m \in 1..d
      PROVE  /\ 2 * m - off \in 1..T /\ t[2 * m - off] = [part |-> "body", of |-> Sealed(h + m)]
             /\ 2 * m - 1 - off >= 1 => t[2 * m - 1 - off] = [part |-> "header", of |-> Sealed(h + m)]
    <2>1. /\ 2 * m - off \in 1..T /\ s[2 * m - off] = [part |-> "body", of |-> Sealed(h + m)]
          /\ 2 * m - 1 - off >= 1 => s[2 * m - 1 - off] = [part |-> "header", of |-> Sealed(h + m)]
        BY Zenon DEF Carries
    <2>2. 2 * m - 1 - off >= 1 => 2 * m - 1 - off \in 1..T
        BY <2>1
    <2> QED
        BY <2>1, <2>2
<1> QED
    BY <1>1, <1>2 DEF Carries

LEMMA CarriesHeader ==
    ASSUME NEW T \in Nat \ {0}, NEW s, NEW t, NEW h, NEW d \in Nat, Carries(s, T, 0, h, d),
           \A i \in 1..(T - 1) : t[i] = s[i + 1]
    PROVE  Carries(t, T - 1, 1, h, d)
<1>1. (T - 1) + 1 = 2 * d /\ T = 2 * d
    <2>1. T + 0 = 2 * d
        BY DEF Carries
    <2> QED
        BY <2>1
<1>2. ASSUME NEW m \in 1..d
      PROVE  /\ 2 * m - 1 \in 1..(T - 1) /\ t[2 * m - 1] = [part |-> "body", of |-> Sealed(h + m)]
             /\ 2 * m - 1 - 1 >= 1 => t[2 * m - 1 - 1] = [part |-> "header", of |-> Sealed(h + m)]
    <2>1. /\ s[2 * m - 0] = [part |-> "body", of |-> Sealed(h + m)]
          /\ 2 * m - 1 - 0 >= 1 => s[2 * m - 1 - 0] = [part |-> "header", of |-> Sealed(h + m)]
        BY Zenon DEF Carries
    <2>2. /\ 2 * m - 1 \in 1..(T - 1) /\ (2 * m - 1) + 1 = 2 * m - 0
          /\ 2 * m - 1 - 1 >= 1 => 2 * m - 1 - 1 \in 1..(T - 1)
          /\ (2 * m - 1 - 1) + 1 = 2 * m - 1 - 0 /\ 2 * m - 1 - 0 >= 1
        BY <1>1
    <2>3. t[2 * m - 1] = s[2 * m - 0] /\ (2 * m - 1 - 1 >= 1 => t[2 * m - 1 - 1] = s[2 * m - 1 - 0])
        BY <2>2
    <2> QED
        BY <2>1, <2>2, <2>3
<1> QED
    BY <1>1, <1>2 DEF Carries

LEMMA CarriesBody ==
    ASSUME NEW T \in Nat \ {0}, NEW s, NEW t, NEW h \in Nat, NEW d \in Nat, Carries(s, T, 1, h, d),
           \A i \in 1..(T - 1) : t[i] = s[i + 1]
    PROVE  /\ d \in Nat \ {0} /\ s[1] = [part |-> "body", of |-> Sealed(h + 1)]
           /\ Carries(t, T - 1, 0, h + 1, d - 1)
<1>1. T + 1 = 2 * d /\ d \in Nat \ {0} /\ (T - 1) + 0 = 2 * (d - 1)
    <2>1. T + 1 = 2 * d
        BY DEF Carries
    <2> QED
        BY <2>1
<1>2. s[1] = [part |-> "body", of |-> Sealed(h + 1)]
    <2>1. 1 \in 1..d /\ 2 * 1 - 1 = 1
        BY <1>1
    <2>2. s[2 * 1 - 1] = [part |-> "body", of |-> Sealed(h + 1)]
        BY <2>1, Zenon DEF Carries
    <2> QED
        BY <2>1, <2>2
<1>3. ASSUME NEW m \in 1..(d - 1)
      PROVE  /\ 2 * m - 0 \in 1..(T - 1) /\ t[2 * m - 0] = [part |-> "body", of |-> Sealed((h + 1) + m)]
             /\ 2 * m - 1 - 0 >= 1 => t[2 * m - 1 - 0] = [part |-> "header", of |-> Sealed((h + 1) + m)]
    <2> DEFINE x == m + 1
    <2>1. /\ x \in 1..d /\ h + x = (h + 1) + m
          /\ 2 * m - 0 \in 1..(T - 1) /\ (2 * m - 0) + 1 = 2 * x - 1
          /\ 2 * m - 1 - 0 \in 1..(T - 1) /\ (2 * m - 1 - 0) + 1 = 2 * x - 1 - 1 /\ 2 * x - 1 - 1 >= 1
        BY <1>1
    <2> HIDE DEF x
    <2>2. /\ s[2 * x - 1] = [part |-> "body", of |-> Sealed(h + x)]
          /\ 2 * x - 1 - 1 >= 1 => s[2 * x - 1 - 1] = [part |-> "header", of |-> Sealed(h + x)]
        BY <2>1, Zenon DEF Carries
    <2>3. t[2 * m - 0] = s[2 * x - 1] /\ t[2 * m - 1 - 0] = s[2 * x - 1 - 1]
        BY <2>1
    <2> QED
        BY <2>1, <2>2, <2>3
<1> QED
    BY <1>1, <1>2, <1>3 DEF Carries

LEMMA CarriesMore ==
    ASSUME NEW T \in Nat, NEW s, NEW t, NEW off \in {0, 1}, NEW h \in Nat, NEW d \in Nat, Carries(s, T, off, h, d),
           \A i \in 1..T : t[i] = s[i],
           t[T + 1] = [part |-> "header", of |-> Sealed(h + (d + 1))],
           t[T + 2] = [part |-> "body", of |-> Sealed(h + (d + 1))]
    PROVE  Carries(t, T + 2, off, h, d + 1)
<1>1. T + off = 2 * d /\ (T + 2) + off = 2 * (d + 1)
    <2>1. T + off = 2 * d
        BY DEF Carries
    <2> QED
        BY <2>1
<1>2. ASSUME NEW m \in 1..(d + 1)
      PROVE  /\ 2 * m - off \in 1..(T + 2) /\ t[2 * m - off] = [part |-> "body", of |-> Sealed(h + m)]
             /\ 2 * m - 1 - off >= 1 => t[2 * m - 1 - off] = [part |-> "header", of |-> Sealed(h + m)]
    <2>1. CASE m = d + 1
        <3>1. 2 * m - off = T + 2 /\ 2 * m - 1 - off = T + 1 /\ T + 2 \in 1..(T + 2)
            BY <1>1, <2>1
        <3> QED
            BY <2>1, <3>1
    <2>2. CASE m # d + 1
        <3>1. m \in 1..d
            BY <2>2
        <3>2. /\ 2 * m - off \in 1..T /\ s[2 * m - off] = [part |-> "body", of |-> Sealed(h + m)]
              /\ 2 * m - 1 - off >= 1 => s[2 * m - 1 - off] = [part |-> "header", of |-> Sealed(h + m)]
            BY <3>1, Zenon DEF Carries
        <3>3. 2 * m - off \in 1..(T + 2) /\ (2 * m - 1 - off >= 1 => 2 * m - 1 - off \in 1..T)
            BY <3>2
        <3> QED
            BY <3>2, <3>3
    <2> QED
        BY <2>1, <2>2
<1> QED
    BY <1>1, <1>2 DEF Carries

Straight == Honest => HonestShape

LEMMA StraightAtFirst == SecureInit => Straight
<1> SUFFICES ASSUME SecureInit, allowed PROVE HonestShape
    BY DEF Straight, Honest
<1>1. /\ buffered = <<>> /\ ~framed /\ inbox = <<>> /\ ~asked /\ spoken = 0 /\ stage = "hello"
      /\ wire = Framed(Plain("challenge"))
    BY DEF SecureInit
<1>2. Plain("challenge") \in Said
    BY Saids
<1>3. /\ Len(wire) = 2 /\ wire[1].of = Plain("challenge") /\ wire[2].of = Plain("challenge")
    <2> DEFINE m == Plain("challenge")
    <2>1. m \in Said /\ wire = Framed(m)
        BY <1>1, <1>2
    <2> HIDE DEF m
    <2>2. /\ Len(wire) = 2 /\ wire[1] = [part |-> "header", of |-> m] /\ wire[2] = [part |-> "body", of |-> m]
        BY <2>1, Pieces
    <2>3. Len(wire) = 2 /\ wire[1].of = m /\ wire[2].of = m
        BY <2>2
    <2> QED
        BY <2>3 DEF m
<1>4. Total = 2 /\ Len(buffered) = 0 /\ Off = 0
    BY <1>1, <1>3 DEF Total, Off
<1>5. Stream = [j \in 1..2 |-> wire[j]]
    BY <1>4 DEF Stream
<1>6. \A i \in 1..Total : Stream[i].of = Plain("challenge")
    BY <1>3, <1>4, <1>5
<1> QED
    BY <1>1, <1>4, <1>6 DEF HonestShape

LEMMA Differ == SecureTypes /\ LinkOrder => spoken - highest \in Nat /\ highest + (spoken - highest) = spoken
BY DEF SecureTypes, HostTypes, ViewerTypes, LinkOrder

LEMMA OffIs == SecureTypes => Off \in {0, 1}
BY DEF Off

LEMMA StraightStays ==
    ASSUME SecureTypes, LinkOrder, HonestShape, Total' = Total, \A i \in 1..Total : Stream'[i] = Stream[i],
           UNCHANGED <<asked, spoken, framed, inbox, highest, pending, delivered, batch, stage>>
    PROVE  HonestShape'
<1>1. Total \in Nat /\ spoken - highest \in Nat
    BY Streaming, Differ
<1>2. Off' = Off /\ Off \in {0, 1}
    BY OffIs DEF Off
<1>3. Continues => Continues'
    <2> SUFFICES ASSUME Continues PROVE Continues'
        OBVIOUS
    <2>1. Carries(Stream, Total, Off, highest, spoken - highest)
        BY DEF Continues
    <2>2. Carries(Stream', Total, Off, highest, spoken - highest)
        BY <1>1, <1>2, <2>1, CarriesSame
    <2>3. Carries(Stream, Total, Off, highest, spoken - highest)'
        BY <1>2, <2>2 DEF Carries
    <2> QED
        BY <2>3 DEF Continues
<1>4. (stage = "hello" => Total + Off = 2 /\ \A i \in 1..Total : Stream[i].of = Plain("challenge"))'
    BY <1>2 DEF HonestShape
<1> QED
    BY <1>3, <1>4 DEF HonestShape

(* The host goes on.                                                       *)
LEMMA StraightWhenSaid ==
    ASSUME SecureTypes, LinkOrder, HonestShape, HostSeals
    PROVE  HonestShape'
<1>1. /\ asked /\ spoken' = spoken + 1 /\ wire' = wire \o Framed(Sealed(spoken')) /\ buffered' = buffered
      /\ UNCHANGED <<asked, framed, inbox, highest, pending, delivered, batch, stage>>
    BY DEF HostSeals, reader, viewerEnd
<1>2. /\ Total \in Nat /\ spoken - highest \in Nat /\ highest + (spoken - highest) = spoken
      /\ spoken \in Nat /\ highest \in Nat
    BY Streaming, Differ DEF SecureTypes, HostTypes, ViewerTypes
<1>3. Off' = Off /\ Off \in {0, 1}
    BY <1>1, OffIs DEF Off
<1>4. Sealed(spoken') \in Said
    BY <1>1, <1>2, Saids
<1>5. /\ Total' = Total + 2 /\ \A i \in 1..Total : Stream'[i] = Stream[i]
      /\ Stream'[Total + 1] = [part |-> "header", of |-> Sealed(spoken')]
      /\ Stream'[Total + 2] = [part |-> "body", of |-> Sealed(spoken')]
    BY <1>1, <1>4, StreamGrows
<1>6. spoken' - highest' = (spoken - highest) + 1 /\ spoken' = highest + ((spoken - highest) + 1)
    BY <1>1, <1>2
<1>7. Continues => Continues'
    <2> SUFFICES ASSUME Continues PROVE Continues'
        OBVIOUS
    <2>1. Carries(Stream, Total, Off, highest, spoken - highest)
        BY DEF Continues
    <2> DEFINE d == spoken - highest
    <2>2. /\ d \in Nat /\ Carries(Stream, Total, Off, highest, d)
          /\ spoken' = highest + (d + 1) /\ spoken' - highest' = d + 1
        BY <1>2, <1>6, <2>1
    <2> HIDE DEF d
    <2>3. /\ Stream'[Total + 1] = [part |-> "header", of |-> Sealed(highest + (d + 1))]
          /\ Stream'[Total + 2] = [part |-> "body", of |-> Sealed(highest + (d + 1))]
        BY <1>5, <2>2
    <2>4. Carries(Stream', Total + 2, Off, highest, d + 1)
        BY <1>2, <1>3, <1>5, <2>2, <2>3, CarriesMore
    <2>5. Carries(Stream', Total', Off', highest', spoken' - highest')
        BY <1>1, <1>3, <1>5, <2>2, <2>4
    <2>6. Carries(Stream, Total, Off, highest, spoken - highest)'
        BY <2>5 DEF Carries
    <2> QED
        BY <1>1, <2>6 DEF Continues
<1>8. stage \notin {"hello", "challenged"}
    BY <1>1 DEF HonestShape
<1> QED
    BY <1>1, <1>7, <1>8 DEF HonestShape

(* The viewer reads.                                                       *)
LEMMA StraightInHeader ==
    ASSUME SecureTypes, LinkShape, LinkOrder, HonestShape, ReadHeader, buffered # <<>>
    PROVE  HonestShape'
<1>1. /\ ~framed /\ framed' = TRUE /\ buffered' = Tail(buffered)
      /\ UNCHANGED <<asked, spoken, wire, inbox, highest, pending, delivered, batch, stage>>
    BY DEF ReadHeader, hostEnd, viewerEnd
<1>2. /\ Total \in Nat \ {0} /\ Total' = Total - 1 /\ Stream[1] = buffered[1]
      /\ \A i \in 1..(Total - 1) : Stream'[i] = Stream[i + 1]
    BY <1>1, StreamRead
<1>3. Off = 0 /\ Off' = 1 /\ spoken - highest \in Nat
    BY <1>1, Differ DEF Off
<1>4. Continues => Continues'
    <2> SUFFICES ASSUME Continues PROVE Continues'
        OBVIOUS
    <2>1. Carries(Stream, Total, 0, highest, spoken - highest)
        BY <1>3 DEF Continues
    <2>2. Carries(Stream', Total - 1, 1, highest, spoken - highest)
        BY <1>2, <1>3, <2>1, CarriesHeader
    <2>3. Carries(Stream, Total, Off, highest, spoken - highest)'
        BY <1>1, <1>2, <1>3, <2>2 DEF Carries
    <2> QED
        BY <1>1, <2>3 DEF Continues
<1>5. (stage = "hello" => Total + Off = 2 /\ \A i \in 1..Total : Stream[i].of = Plain("challenge"))'
    <2> SUFFICES ASSUME stage = "hello"
                 PROVE  Total' + Off' = 2 /\ \A i \in 1..Total' : Stream'[i].of = Plain("challenge")
        BY <1>1
    <2>1. Total + Off = 2 /\ \A i \in 1..Total : Stream[i].of = Plain("challenge")
        BY DEF HonestShape
    <2>2. \A i \in 1..(Total - 1) : i + 1 \in 1..Total
        BY <1>2
    <2> QED
        BY <1>2, <1>3, <2>1, <2>2
<1>6. stage # "challenged"
    <2>1. Total # 0
        BY <1>2
    <2> QED
        BY <2>1 DEF HonestShape
<1> QED
    BY <1>1, <1>4, <1>5, <1>6 DEF HonestShape

LEMMA StraightInBody ==
    ASSUME SecureTypes, LinkShape, LinkOrder, HonestShape, ReadBody, buffered # <<>>, ~closed'
    PROVE  HonestShape'
<1> DEFINE m == buffered[1].of
<1>1. /\ framed /\ framed' = FALSE /\ buffered' = Tail(buffered) /\ busy = "reading"
      /\ UNCHANGED <<asked, spoken, wire, batch>>
      /\ IF stage \in {"hello", "challenged"} THEN ToInbox(m) ELSE ToControl(m)
    BY DEF ReadBody, hostEnd
<1>2. /\ Total \in Nat \ {0} /\ Total' = Total - 1 /\ Stream[1] = buffered[1]
      /\ \A i \in 1..(Total - 1) : Stream'[i] = Stream[i + 1]
    BY <1>1, StreamRead
<1>3. Off = 1 /\ Off' = 0 /\ spoken - highest \in Nat /\ highest \in Nat /\ spoken \in Nat
    BY <1>1, Differ DEF Off, SecureTypes, HostTypes, ViewerTypes
<1>4. stage # "challenged" /\ stage # "draining" /\ batch = <<>>
    <2>1. Total # 0
        BY <1>2
    <2> QED
        BY <1>1, <2>1 DEF HonestShape, LinkShape
<1>5. CASE stage = "hello"
    <2>1. Total = 1 /\ \A i \in 1..Total : Stream[i].of = Plain("challenge")
        <3>1. Total + Off = 2 /\ \A i \in 1..Total : Stream[i].of = Plain("challenge")
            BY <1>5 DEF HonestShape
        <3> QED
            BY <1>2, <1>3, <3>1
    <2>2. m = Plain("challenge")
        BY <1>2, <2>1
    <2>3. ToInbox(m) /\ inbox = <<>>
        BY <1>1, <1>5 DEF LinkShape
    <2>4. m \in Said
        BY <2>2, Saids
    <2> HIDE DEF m
    <2>5. stage' = "challenged" /\ inbox' = <<m>>
        BY <1>5, <2>3, <2>4 DEF ToInbox
    <2>6. ~asked' /\ spoken' = 0
        BY <1>1, <1>5 DEF HonestShape
    <2>7. Total' = 0 /\ ~framed'
        BY <1>1, <1>2, <2>1
    <2> QED
        BY <2>2, <2>5, <2>6, <2>7 DEF HonestShape
<1>6. CASE stage \notin {"hello", "challenged"}
    <2>1. ToControl(m)
        BY <1>1, <1>6
    <2>2. OpensNext(m) /\ Offer(m) /\ ViewerTypes
        BY <2>1 DEF ToControl, CloseLink, SecureTypes
    <2> HIDE DEF m
    <2>3. highest' = m.n /\ inbox' = inbox
        BY <2>2, OfferCases
    <2>4. \/ /\ control = "none" /\ pending' = Append(pending, m) /\ UNCHANGED <<stage, delivered>>
          \/ /\ control = "expect" /\ stage = "answer" /\ stage' = "answered" /\ UNCHANGED <<pending, delivered>>
          \/ control = "session" /\ delivered' = Append(delivered, m.n) /\ UNCHANGED <<pending, stage>>
        BY <2>2, OfferCases
    <2>5. CASE stage = "failed"
        <3>1. stage' = "failed"
            BY <2>4, <2>5 DEF LinkShape
        <3> QED
            BY <3>1 DEF HonestShape
    <2>6. CASE stage # "failed"
        <3>1. stage \in {"answer", "answered", "session"}
            BY <1>4, <1>6, <2>6 DEF SecureTypes, ViewerTypes
        <3>2. Carries(Stream, Total, 1, highest, spoken - highest) /\ asked /\ inbox = <<>>
            BY <1>3, <3>1 DEF HonestShape, Continues
        <3>3. /\ Stream[1] = [part |-> "body", of |-> Sealed(highest + 1)]
              /\ Carries(Stream', Total - 1, 0, highest + 1, (spoken - highest) - 1)
            BY <1>2, <1>3, <3>2, CarriesBody
        <3>4. m = Sealed(highest + 1) /\ m.n = highest + 1 /\ m \in Said
            <4>1. highest + 1 \in Nat
                BY <1>3
            <4>2. m = Sealed(highest + 1)
                BY <1>2, <3>3 DEF m
            <4> QED
                BY <4>1, <4>2, Saids
        <3>5. (spoken - highest) - 1 = spoken' - highest'
            BY <1>1, <1>3, <2>3, <3>4
        <3>6. Carries(Stream', Total', Off', highest', spoken' - highest')
            BY <1>2, <1>3, <2>3, <3>3, <3>4, <3>5
        <3>7. Carries(Stream, Total, Off, highest, spoken - highest)'
            BY <3>6 DEF Carries
        <3>8. Continues'
            BY <1>1, <2>3, <3>2, <3>7 DEF Continues
        <3>9. pending \in Seq(Said) /\ delivered \in Seq(Nat)
            BY DEF SecureTypes, ViewerTypes
        <3>10. CASE control = "none" /\ pending' = Append(pending, m) /\ UNCHANGED <<stage, delivered>>
            <4>1. stage = "answered" /\ stage' = "answered"
                BY <3>1, <3>10 DEF LinkShape
            <4>2. /\ highest >= 1 /\ Len(pending) = highest - 1
                  /\ \A i \in 1..Len(pending) : pending[i].n = i + 1
                BY <4>1 DEF HonestShape
            <4>3. /\ Len(pending') = Len(pending) + 1 /\ pending'[Len(pending) + 1] = m
                  /\ \A i \in 1..Len(pending) : pending'[i] = pending[i]
                  /\ \A i \in 1..(Len(pending) + 1) : i \in 1..Len(pending) \/ i = Len(pending) + 1
                BY <3>4, <3>9, <3>10
            <4>4. Len(pending) + 1 = highest' - 1 /\ m.n = (Len(pending) + 1) + 1 /\ highest' >= 1
                BY <1>3, <2>3, <3>4, <4>2
            <4>5. \A i \in 1..Len(pending') : pending'[i].n = i + 1
                BY <4>2, <4>3, <4>4
            <4>6. Len(pending') = highest' - 1
                BY <4>3, <4>4
            <4> QED
                BY <1>1, <1>4, <3>8, <4>1, <4>4, <4>5, <4>6 DEF HonestShape
        <3>11. CASE control = "expect" /\ stage = "answer" /\ stage' = "answered" /\ UNCHANGED <<pending, delivered>>
            <4>1. pending = <<>> /\ highest = 0
                BY <3>11 DEF HonestShape
            <4>2. highest' = 1 /\ pending' = <<>>
                BY <2>3, <3>4, <3>11, <4>1
            <4> QED
                BY <1>1, <1>4, <3>8, <3>11, <4>2 DEF HonestShape
        <3>12. CASE control = "session" /\ delivered' = Append(delivered, m.n) /\ UNCHANGED <<pending, stage>>
            <4>1. stage = "session" /\ stage' = "session"
                BY <3>12 DEF LinkShape
            <4>2. /\ highest >= 1 /\ Len(delivered) = highest - 1
                  /\ \A i \in 1..Len(delivered) : delivered[i] = i + 1
                <5>1. /\ highest >= 1 /\ Len(delivered) + Len(batch) = highest - 1
                      /\ \A i \in 1..Len(delivered) : delivered[i] = i + 1
                    BY <4>1 DEF HonestShape
                <5>2. Len(batch) = 0 /\ Len(delivered) \in Nat
                    BY <1>4, <3>9
                <5> QED
                    BY <1>3, <5>1, <5>2
            <4>3. /\ Len(delivered') = Len(delivered) + 1 /\ delivered'[Len(delivered) + 1] = m.n
                  /\ \A i \in 1..Len(delivered) : delivered'[i] = delivered[i]
                  /\ \A i \in 1..(Len(delivered) + 1) : i \in 1..Len(delivered) \/ i = Len(delivered) + 1
                BY <1>3, <3>4, <3>9, <3>12
            <4>4. /\ Len(delivered) + 1 = highest' - 1 /\ m.n = (Len(delivered) + 1) + 1 /\ highest' >= 1
                  /\ (highest' - 1) + 0 = highest' - 1
                BY <1>3, <2>3, <3>4, <4>2
            <4>5. \A i \in 1..Len(delivered') : delivered'[i] = i + 1
                BY <4>2, <4>3, <4>4
            <4>6. Len(delivered') + Len(batch') = highest' - 1 /\ Len(batch') = 0
                BY <1>1, <1>4, <4>3, <4>4
            <4>7. \A i \in 1..Len(batch') : batch'[i].n = Len(delivered') + i + 1
                BY <4>6
            <4> QED
                BY <3>8, <4>1, <4>4, <4>5, <4>6, <4>7 DEF HonestShape
        <3> QED
            BY <2>4, <3>10, <3>11, <3>12
    <2> QED
        BY <2>5, <2>6
<1> QED
    BY <1>4, <1>5, <1>6

(* The handshake and the handlers take their turn.                         *)
LEMMA StraightInTurn ==
    ASSUME SecureTypes, LinkShape, LinkOrder, HonestShape, ~closed, ~closed', allowed,
           Answer \/ Drain \/ Expect \/ Hand \/ Return \/ Timeout
    PROVE  HonestShape'
<1>1. /\ UNCHANGED <<wire, buffered, framed, spoken>>
      /\ asked' = asked \/ asked' = TRUE
    BY DEF Answer, Drain, Expect, Hand, Return, Timeout, hostEnd, reader
<1>2. Total' = Total /\ Stream' = Stream /\ Off' = Off
    BY <1>1, StreamSame DEF Off
<1>3. spoken \in Nat /\ highest \in Nat /\ batch \in Seq(Said) /\ pending \in Seq(Said) /\ delivered \in Seq(Nat)
    BY DEF SecureTypes, HostTypes, ReaderTypes, ViewerTypes
<1>4. ASSUME Continues, UNCHANGED <<asked, inbox, highest>> PROVE Continues'
    <2>1. Carries(Stream, Total, Off, highest, spoken - highest)'
        BY <1>1, <1>2, <1>4 DEF Continues, Carries
    <2> QED
        BY <1>4, <2>1 DEF Continues
<1>5. CASE Answer
    <2>1. stage = "challenged" /\ highest = 0 /\ pending = <<>>
        BY <1>5 DEF Answer, LinkShape
    <2>2. inbox = <<Plain("challenge")>> /\ Total = 0 /\ ~framed /\ spoken = 0
        BY <2>1 DEF HonestShape
    <2>3. inbox[1] = Plain("challenge") /\ Tail(inbox) = <<>>
        BY <2>2, Saids
    <2>4. inbox[1].kind = "challenge"
        BY <2>3, Saids
    <2>5. /\ asked' = TRUE /\ stage' = "draining" /\ batch' = <<>> /\ inbox' = <<>>
          /\ UNCHANGED <<highest, pending, delivered>>
        BY <1>5, <2>3, <2>4 DEF Answer
    <2>6. Carries(Stream', 0, 0, 0, 0)
        BY DEF Carries
    <2>7. Total' = 0 /\ Off' = 0 /\ highest' = 0 /\ spoken' - highest' = 0
        BY <1>1, <1>2, <2>1, <2>2, <2>5 DEF Off
    <2>8. Carries(Stream, Total, Off, highest, spoken - highest)'
        BY <2>6, <2>7 DEF Carries
    <2>9. Continues'
        BY <2>5, <2>8 DEF Continues
    <2> QED
        BY <2>1, <2>5, <2>9 DEF HonestShape
<1>6. CASE Drain
    <2>1. stage = "draining" /\ batch # <<>>
        BY <1>6 DEF Drain, LinkShape
    <2> QED
        BY <2>1 DEF HonestShape
<1>7. CASE Expect
    <2>1. stage = "draining" /\ UNCHANGED <<asked, inbox, highest, delivered>>
        BY <1>7 DEF Expect, LinkShape, hostEnd
    <2>2. pending = <<>> /\ highest = 0 /\ Continues
        BY <2>1 DEF HonestShape
    <2>3. stage' = "answer" /\ batch' = <<>> /\ pending' = <<>>
        BY <1>7, <2>2 DEF Expect
    <2>4. Continues'
        BY <1>4, <2>1, <2>2
    <2> QED
        BY <2>1, <2>2, <2>3, <2>4 DEF HonestShape
<1>8. CASE Return
    <2>1. /\ stage = "answered" /\ stage' = "session" /\ batch' = pending /\ pending' = <<>>
          /\ UNCHANGED <<asked, inbox, highest, delivered>>
        BY <1>8 DEF Return, hostEnd
    <2>2. delivered = <<>> /\ Len(delivered) = 0
        BY <2>1 DEF LinkShape
    <2>3. /\ highest >= 1 /\ Len(pending) = highest - 1 /\ Continues
          /\ \A i \in 1..Len(pending) : pending[i].n = i + 1
        BY <2>1 DEF HonestShape
    <2>4. Continues'
        BY <1>4, <2>1, <2>3
    <2>5. Len(delivered') + Len(batch') = highest' - 1
        BY <1>3, <2>1, <2>2, <2>3
    <2>6. \A i \in 1..Len(batch') : batch'[i].n = Len(delivered') + i + 1
        <3>1. \A i \in 1..Len(pending) : 0 + i + 1 = i + 1
            BY <1>3
        <3> QED
            BY <2>1, <2>2, <2>3, <3>1
    <2> QED
        BY <2>1, <2>2, <2>3, <2>4, <2>5, <2>6 DEF HonestShape
<1>9. CASE Hand
    <2>1. /\ busy = "handing" /\ batch # <<>> /\ batch' = Tail(batch) /\ UNCHANGED <<asked, inbox, highest, pending>>
        BY <1>9 DEF Hand, hostEnd
    <2>2. stage \notin {"draining", "hello", "challenged", "answer", "answered"}
        BY <2>1 DEF LinkShape, HonestShape
    <2>3. CASE control = "session"
        <3>1. stage = "session" /\ stage' = "session" /\ delivered' = Append(delivered, batch[1].n)
            BY <1>9, <2>3 DEF Hand, LinkShape
        <3>2. /\ highest >= 1 /\ Len(delivered) + Len(batch) = highest - 1 /\ Continues
              /\ \A i \in 1..Len(delivered) : delivered[i] = i + 1
              /\ \A i \in 1..Len(batch) : batch[i].n = Len(delivered) + i + 1
            BY <3>1 DEF HonestShape
        <3>3. /\ Len(batch') = Len(batch) - 1 /\ Len(batch) \in Nat \ {0} /\ 1 \in 1..Len(batch)
              /\ \A i \in 1..(Len(batch) - 1) : batch'[i] = batch[i + 1] /\ i + 1 \in 1..Len(batch)
            BY <1>3, <2>1, Rest
        <3>4. batch[1].n = Len(delivered) + 1 + 1 /\ Len(delivered) \in Nat
            <4>1. batch[1].n = Len(delivered) + 1 + 1
                BY <3>2, <3>3, Zenon
            <4> QED
                BY <1>3, <4>1
        <3>5. /\ Len(delivered') = Len(delivered) + 1
              /\ delivered'[Len(delivered) + 1] = (Len(delivered) + 1) + 1
              /\ \A i \in 1..Len(delivered) : delivered'[i] = delivered[i]
              /\ \A i \in 1..(Len(delivered) + 1) : i \in 1..Len(delivered) \/ i = Len(delivered) + 1
            <4>1. batch[1].n \in Nat
                BY <3>4
            <4> QED
                BY <1>3, <3>1, <3>4, <4>1
        <3>6. Len(delivered') + Len(batch') = highest' - 1 /\ highest' >= 1
            BY <1>3, <2>1, <3>2, <3>3, <3>4, <3>5
        <3>7. \A i \in 1..Len(delivered') : delivered'[i] = i + 1
            BY <3>2, <3>5
        <3>8. \A i \in 1..Len(batch') : batch'[i].n = Len(delivered') + i + 1
            <4>1. \A i \in 1..(Len(batch) - 1) : Len(delivered) + (i + 1) + 1 = (Len(delivered) + 1) + i + 1
                BY <3>3, <3>4
            <4>2. \A i \in 1..(Len(batch) - 1) : batch'[i].n = Len(delivered) + (i + 1) + 1
                BY <3>2, <3>3
            <4> QED
                BY <3>3, <3>5, <4>1, <4>2
        <3>9. Continues'
            BY <1>4, <2>1, <3>2
        <3> QED
            BY <3>1, <3>6, <3>7, <3>8, <3>9 DEF HonestShape
    <2>4. CASE control # "session"
        <3>1. stage = "failed"
            BY <2>2, <2>4 DEF LinkShape, SecureTypes, ViewerTypes
        <3>2. stage' = "failed"
            BY <1>9, <2>4, <3>1 DEF Hand, Outcome
        <3> QED
            BY <3>2 DEF HonestShape
    <2> QED
        BY <2>3, <2>4
<1>10. CASE Timeout
    <2>1. stage' = "failed"
        BY <1>10 DEF Timeout
    <2> QED
        BY <2>1 DEF HonestShape
<1> QED
    BY <1>5, <1>6, <1>7, <1>8, <1>9, <1>10

LEMMA StraightKeeps ==
    ASSUME SecureTypes, SecureTypes', LinkShape, LinkOrder, Straight, [SecureNext]_secureVars
    PROVE  Straight'
<1> SUFFICES ASSUME touched' = {}, ~closed', allowed' PROVE HonestShape'
    BY DEF Straight, Honest
<1>1. allowed' = allowed
    BY DEF SecureNext, HostSeals, HostErrs, Meddle, Chunk, Runs, ReadHeader, ReadBody, Drain, Expect, Hand, Handed,
           Answer, Return, Timeout, LinkDrops, secureVars, hostEnd
<1>2. touched' = touched \/ Meddle
    BY DEF SecureNext, HostSeals, HostErrs, Chunk, Runs, ReadHeader, ReadBody, Drain, Expect, Hand, Handed,
           Answer, Return, Timeout, LinkDrops, secureVars, hostEnd
<1>3. ~Meddle
    BY DEF Meddle
<1>4. ASSUME UNCHANGED <<closed, asked, spoken, framed, inbox, highest, pending, delivered, batch, stage>>,
             Total' = Total, \A i \in 1..Total : Stream'[i] = Stream[i]
      PROVE  HonestShape'
    <2>1. HonestShape
        BY <1>1, <1>2, <1>3, <1>4 DEF Straight, Honest
    <2> QED
        BY <1>4, <2>1, StraightStays
<1>5. CASE UNCHANGED secureVars \/ Handed \/ ((ReadHeader \/ ReadBody) /\ buffered = <<>>)
    <2>1. UNCHANGED <<closed, asked, spoken, framed, inbox, highest, pending, delivered, batch, stage, wire, buffered>>
        BY <1>5 DEF secureVars, hostEnd, reader, viewerEnd, Handed, ReadHeader, ReadBody
    <2> QED
        BY <1>4, <2>1, StreamSame
<1>6. ASSUME NEW k \in 1..MaxChunk, Chunk(k) PROVE HonestShape'
    <2>1. UNCHANGED <<closed, asked, spoken, framed, inbox, highest, pending, delivered, batch, stage>>
        BY <1>6 DEF Chunk, viewerEnd
    <2> QED
        BY <1>4, <1>6, <2>1, StreamKept
<1>7. ASSUME ~closed PROVE HonestShape
    BY <1>1, <1>2, <1>3, <1>7 DEF Straight, Honest
<1>8. CASE HostSeals
    <2>1. ~closed
        BY <1>8 DEF HostSeals, viewerEnd
    <2> QED
        BY <1>7, <1>8, <2>1, StraightWhenSaid
<1>9. ~HostErrs /\ ~LinkDrops
    BY <1>1 DEF HostErrs, LinkDrops, CloseLink
<1>10. CASE ReadHeader /\ buffered # <<>>
    <2>1. ~closed
        BY <1>10 DEF ReadHeader, viewerEnd
    <2> QED
        BY <1>7, <1>10, <2>1, StraightInHeader
<1>11. ASSUME NEW m, ToControl(m) PROVE ~closed
    <2>1. Offer(m) /\ ViewerTypes
        BY <1>11 DEF ToControl, CloseLink, SecureTypes
    <2> QED
        BY <2>1, OfferCases
<1>12. CASE ReadBody /\ buffered # <<>>
    <2>1. UNCHANGED closed \/ ToControl(buffered[1].of)
        BY <1>12 DEF ReadBody, ToInbox
    <2>2. ~closed
        BY <1>11, <2>1
    <2> QED
        BY <1>7, <1>12, <2>2, StraightInBody
<1>13. CASE Answer \/ Drain \/ Expect \/ Hand \/ Return \/ Timeout
    <2>1. UNCHANGED closed \/ ToControl(batch[1])
        BY <1>13 DEF Answer, Drain, Expect, Hand, Return, Timeout
    <2>2. ~closed
        BY <1>11, <2>1
    <2> QED
        BY <1>1, <1>7, <1>13, <2>2, StraightInTurn
<1> QED
    BY <1>3, <1>5, <1>6, <1>8, <1>9, <1>10, <1>12, <1>13 DEF SecureNext, Runs

LEMMA AllIsDelivered == SecureTypes /\ LinkShape /\ LinkOrder /\ Straight => NothingIsSwallowed
<1> SUFFICES ASSUME SecureTypes, LinkShape, LinkOrder, Straight, stage = "session", busy = "no", touched = {}, ~closed
             PROVE  /\ delivered = [i \in 1..(highest - 1) |-> i + 1]
                    /\ wire = <<>> => highest = spoken
    BY DEF NothingIsSwallowed
<1>1. allowed /\ buffered = <<>> /\ batch = <<>>
    BY DEF LinkShape
<1>2. HonestShape
    BY <1>1 DEF Straight, Honest
<1>3. delivered \in Seq(Nat) /\ highest \in Nat /\ spoken \in Nat /\ spoken - highest \in Nat
    BY Differ DEF SecureTypes, HostTypes, ViewerTypes
<1>4. /\ Len(delivered) = highest - 1 /\ \A i \in 1..Len(delivered) : delivered[i] = i + 1
      /\ Continues
    <2>1. /\ Len(delivered) + Len(batch) = highest - 1 /\ Continues
          /\ \A i \in 1..Len(delivered) : delivered[i] = i + 1
        BY <1>2 DEF HonestShape
    <2>2. Len(batch) = 0 /\ Len(delivered) \in Nat
        BY <1>1, <1>3
    <2> QED
        BY <1>3, <2>1, <2>2
<1>5. delivered = [i \in 1..(highest - 1) |-> i + 1]
    <2>1. delivered = [i \in 1..Len(delivered) |-> delivered[i]]
        BY <1>3
    <2> QED
        BY <1>4, <2>1
<1>6. ASSUME wire = <<>> PROVE highest = spoken
    <2>1. Total = 0
        BY <1>1, <1>6 DEF Total
    <2>2. Total + Off = 2 * (spoken - highest)
        BY <1>4, Zenon DEF Continues, Carries
    <2> QED
        BY <1>3, <2>1, <2>2, OffIs
<1> QED
    BY <1>5, <1>6

-----------------------------------------------------------------------------
(* The whole link.                                                         *)
SecureInv == SecureTypes /\ LinkShape /\ LinkOrder /\ Watched /\ Straight

LEMMA SecureInvAtFirst == SecureInit => SecureInv
BY SecureInitTypes, ShapeAtFirst, OrderAtFirst, WatchedAtFirst, StraightAtFirst DEF SecureInv

LEMMA SecureInvKeeps == SecureInv /\ [SecureNext]_secureVars => SecureInv'
BY SecureKeepsTypes, ShapeKeeps, OrderKeeps, WatchedKeeps, StraightKeeps DEF SecureInv

LEMMA SecurePromises == SecureInv => LinkHolds
<1>1. SecureInv => FailedIsClosed
    BY DEF SecureInv, LinkShape, FailedIsClosed
<1> QED
    BY <1>1, ForgedIsNoticed, AllIsDelivered DEF SecureInv, LinkHolds

LinkInv == SecureInv /\ EngineInv /\ NegotiationInv /\ ScreenInv /\ DiscoveryInv

LEMMA StepOfOne ==
    ASSUME [Next]_vars
    PROVE  /\ [SecureNext]_secureVars /\ [EngineNext]_engineVars /\ [NegotiationNext]_negotiationVars
           /\ [ScreenNext]_screenVars /\ [DiscoveryNext]_discoveryVars
BY DEF Next, vars, Linked, Spawned, Negotiated, Captures, Searches

LEMMA LinkInvariance == Spec => []LinkInv
<1>1. Init => LinkInv
    BY SecureInvAtFirst, EngineInitInv, NegotiationInitInv, ScreenInitInv, DiscoveryInitInv DEF Init, LinkInv
<1>2. LinkInv /\ [Next]_vars => LinkInv'
    BY StepOfOne, SecureInvKeeps, EngineKeeps, NegotiationKeeps, ScreenKeeps, DiscoveryKeeps DEF LinkInv
<1> QED
    BY <1>1, <1>2, PTL DEF Spec

(* An honest link hands on all that the host sealed, a connection that     *)
(* failed leaves nothing open, and a forged frame ends the link, whatever  *)
(* is lost, repeated, moved or altered on the way and however it is cut    *)
(* into chunks (framing.ts, session.ts, channel.ts).                       *)
THEOREM LinkKeepsPromises == Spec => []LinkHolds
<1>1. LinkInv => LinkHolds
    BY SecurePromises DEF LinkInv
<1> QED
    BY <1>1, LinkInvariance, PTL

(* The sealed link does what OrderedLink promises: each step is a message  *)
(* said, a message delivered after all that were delivered, or nothing.    *)
THEOREM LinkOrders == Spec => LinkIsOrdered
<1>1. Init => Promised!LinkInit
    BY DEF Init, SecureInit, Promised!LinkInit
<1>2. LinkInv /\ [Next]_vars => [Promised!Say \/ Promised!Deliver]_<<spoken, delivered>>
    BY StepOfOne, StepIsPromised DEF LinkInv, SecureInv
<1> QED
    BY <1>1, <1>2, LinkInvariance, PTL DEF Spec, LinkIsOrdered, Promised!LinkSpec

(* No candidate is applied before the description it belongs to, each is   *)
(* applied once while neither side broke, no media is set up over anything *)
(* insecure (negotiation.ts), and the host captures the screen once, unless*)
(* two requests for it overlapped (host-rtc.js).                           *)
THEOREM MediaKeepsPromises == Spec => []MediaHolds
<1>1. LinkInv => MediaHolds
    BY NegotiationPromises DEF LinkInv, ScreenInv, MediaHolds
<1> QED
    BY <1>1, LinkInvariance, PTL

(* What a search shows can be reached and has not withdrawn, for any       *)
(* number of hosts, networks and searches (mdns.ts, discovery.ts).         *)
THEOREM FoundCanBeReached == Spec => []FoundIsTrue
<1>1. LinkInv => FoundIsTrue
    BY DEF LinkInv, DiscoveryInv, FoundIsTrue, FoundIsReachable, FoundIsFresh
<1> QED
    BY <1>1, LinkInvariance, PTL

(* While the host changes the captured screen no session that is watching  *)
(* is left with a picture that has stopped, unless requests for the screen *)
(* overlapped or it was just being answered with the old one (host-rtc.js).*)
THEOREM SwitchesFreezeNobody == Spec => SwitchFreezesNobody
<1>1. LinkInv /\ [Next]_vars =>
        [\A x \in Switcher, s \in Watcher \ overtaken :
            /\ change'[x] # change[x] /\ at[s] = "ready" /\ at'[s] = "ready"
            /\ ~raced' /\ sends[s] \in live
            => sends'[s] \in live']_screenVars
    BY StepOfOne, NoSwitchFreezes DEF LinkInv
<1> QED
    BY <1>1, LinkInvariance, PTL DEF Spec, SwitchFreezesNobody

(* A viewer that failed is not shown as running again, unless it was never *)
(* spawned; one that reported an error does not begin to look alive; and   *)
(* one that was stopped on purpose is not shown as failed (engines.ts).    *)
THEOREM WhatIsToldIsTrue == Spec => ToldIsTrue
<1>1. LinkInv /\ [Next]_vars =>
        [/\ told = "failed" /\ told' = "running" => child = "unborn"
         /\ fatal => told' # "running" \/ told = "running"
         /\ stopCalled /\ stopping /\ child = "alive" => told' # "failed" \/ told = "failed"]_engineVars
    BY StepOfOne, NoStepLies DEF LinkInv
<1> QED
    BY <1>1, LinkInvariance, PTL DEF Spec, ToldIsTrue
=============================================================================
