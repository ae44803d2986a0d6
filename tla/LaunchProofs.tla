---------------------------- MODULE LaunchProofs -----------------------------
(***************************************************************************)
(* Within one run (ConfigWatch), the watcher goes back to sleep only over  *)
(* a file it has delivered, for any contents, any number of saves and both *)
(* ways of running.                                                        *)
(*                                                                         *)
(* From run to run (Launch), that stays so, and a start at login uses the  *)
(* configuration of the start that last set the LaunchAgent, for any       *)
(* directories, any environments, any .env files and any number of starts, *)
(* crashes and failed syncs in between, provided users leave the file      *)
(* alone while a start is between its load and its watcher's baseline.     *)
(***************************************************************************)
EXTENDS Launch, TLAPS

USE DEF fileVars, pollVars, Contents, StartPc, PollPc, Missing

-----------------------------------------------------------------------------
(* Types *)

LEMMA TypeInit == Init => TypeOK
  BY ContentsAssumption DEF Init, TypeOK

LEMMA TypeStep == TypeOK /\ [Next]_vars => TypeOK'
<1> SUFFICES ASSUME TypeOK, [Next]_vars PROVE TypeOK'
  OBVIOUS
<1> USE ContentsAssumption DEF TypeOK
<1>1. Fingerprint \in Nat
  BY DEF Fingerprint
<1>2. CASE Save
  BY <1>2 DEF Save, Change
<1>3. CASE Remove
  BY <1>3 DEF Remove, Change
<1>4. CASE CheckExists
  BY <1>4 DEF CheckExists, Goto
<1>5. CASE CreateDefault
  BY <1>5 DEF CreateDefault, Goto
<1>6. CASE Load
  BY <1>6 DEF Load, Goto
<1>7. CASE ReadBaseline
  BY <1>1, <1>7 DEF ReadBaseline, Goto
<1>8. CASE ReadBaselineSnapshot
  BY <1>8 DEF ReadBaselineSnapshot, Goto
<1>9. CASE Poll
  BY <1>1, <1>9 DEF Poll, Goto
<1>10. CASE Look
  BY <1>10 DEF Look, Goto
<1>11. CASE Deliver
  BY <1>11 DEF Deliver, Goto, Loaded, NoteSeen
<1>12. CASE HandleReload
  <2>1. Head(inbox) \in Good /\ Tail(inbox) \in Seq(Good)
    BY <1>12 DEF HandleReload
  <2> QED
    BY <1>12, <2>1 DEF HandleReload
<1>13. CASE UNCHANGED vars
  BY <1>13 DEF vars
<1> QED
  BY <1>2, <1>3, <1>4, <1>5, <1>6, <1>7, <1>8, <1>9, <1>10, <1>11, <1>12, <1>13
     DEF Next, Watch

\* The engine only ever runs with a configuration that parsed and validated,
\* and only such configurations are sent to the event loop.
THEOREM TypeCorrect == Spec => []TypeOK
  BY TypeInit, TypeStep, PTL DEF Spec

-----------------------------------------------------------------------------
(* What the watcher has delivered *)

\* Handling the oldest reload does not change which is the latest.
LEMMA HandledIsLatest ==
    ASSUME TypeOK, HandleReload PROVE Latest' = Latest
<1>1. inbox \in Seq(Good) /\ inbox # <<>> /\ inbox' = Tail(inbox) /\ applied' = Head(inbox)
  BY DEF TypeOK, HandleReload
<1>2. Len(inbox) \in Nat \ {0} /\ Len(Tail(inbox)) = Len(inbox) - 1 /\ Head(inbox) = inbox[1]
  BY <1>1
<1>3. CASE Tail(inbox) = <<>>
  <2>1. Len(inbox) = 1
    BY <1>2, <1>3
  <2> QED
    BY <1>1, <1>2, <1>3, <2>1 DEF Latest
<1>4. CASE Tail(inbox) # <<>>
  <2>1. Len(Tail(inbox)) \in 1 .. Len(Tail(inbox))
    BY <1>1, <1>2, <1>4
  <2>2. Tail(inbox)[Len(Tail(inbox))] = inbox[Len(inbox)]
    BY <1>1, <1>2, <2>1
  <2> QED
    BY <1>1, <1>4, <2>2 DEF Latest
<1> QED
  BY <1>3, <1>4

LEMMA WatchInit == Init => WatchInv
  BY DEF Init, WatchInv

LEMMA WatchStep == TypeOK /\ WatchInv /\ [Next]_vars => WatchInv'
<1> SUFFICES ASSUME TypeOK, WatchInv, [Next]_vars PROVE WatchInv'
  OBVIOUS
<1>1. ASSUME NEW c, Change(c) PROVE WatchInv'
  <2>1. Vouches(lastFingerprint, lastSnapshot)' /\ Vouches(fingerprint, snapshot)'
    BY <1>1 DEF TypeOK, WatchInv, Change, Vouches
  <2>2. clock' = clock + 1 /\ (QuietStart => pc \in PollPc)
    BY <1>1 DEF Change
  <2>3. UNCHANGED <<menubar, pc, applied, pollVars, inbox>> /\ Latest' = Latest
    BY <1>1 DEF Change, Latest
  <2> QED
    BY <2>1, <2>2, <2>3 DEF TypeOK, WatchInv
<1>2. CASE CheckExists
  BY <1>2 DEF CheckExists, Goto, TypeOK, WatchInv
<1>3. CASE CreateDefault
  BY <1>3 DEF CreateDefault, Goto, TypeOK, WatchInv
<1>4. CASE Load
  BY <1>4 DEF Load, Goto, TypeOK, WatchInv
<1>5. CASE ReadBaseline
  BY <1>5 DEF ReadBaseline, Goto, TypeOK, WatchInv, Fingerprint
<1>6. CASE ReadBaselineSnapshot
  BY <1>6 DEF ReadBaselineSnapshot, Goto, TypeOK, WatchInv, Vouches, Latest
<1>7. CASE Poll
  BY <1>7 DEF Poll, Goto, TypeOK, WatchInv, Vouches, Latest, Fingerprint
<1>8. CASE Look
  BY <1>8 DEF Look, Goto, TypeOK, WatchInv, Vouches, Latest
<1>9. CASE Deliver
  <2>1. Vouches(lastFingerprint, lastSnapshot)'
    BY <1>9 DEF Deliver, NoteSeen, Goto, WatchInv, Vouches
  <2>2. snapshot \in Good => Latest' = snapshot
    <3>1. Len(Append(inbox, snapshot)) = Len(inbox) + 1
          /\ Append(inbox, snapshot)[Len(inbox) + 1] = snapshot
          /\ Append(inbox, snapshot) # <<>>
      BY DEF TypeOK
    <3>2. CASE menubar
      BY <1>9, <3>1, <3>2 DEF Deliver, Loaded, Latest
    <3>3. CASE ~menubar
      <4>1. ASSUME snapshot \in Good PROVE applied' = snapshot /\ inbox' = inbox
        BY <1>9, <3>3, <4>1 DEF Deliver, Loaded
      <4>2. inbox = <<>>
        BY <3>3 DEF WatchInv
      <4> QED
        BY <4>1, <4>2 DEF Latest
    <3> QED
      BY <3>2, <3>3
  <2>3. menubar' = menubar /\ (~menubar => inbox' = inbox)
    BY <1>9 DEF Deliver
  <2>4. lastSnapshot' = snapshot /\ lastFingerprint' = fingerprint /\ pc' = "sleep"
        /\ UNCHANGED <<clock, fingerprint>>
    BY <1>9 DEF Deliver, NoteSeen, Goto
  <2> QED
    BY <2>1, <2>2, <2>3, <2>4 DEF WatchInv
<1>10. CASE HandleReload
  <2>1. Latest' = Latest
    BY <1>10, HandledIsLatest
  <2>2. inbox # <<>> /\ UNCHANGED <<fileVars, menubar, pc, pollVars>>
    BY <1>10 DEF HandleReload
  <2>3. pc \in PollPc /\ menubar
    BY <2>2 DEF WatchInv, TypeOK
  <2> QED
    BY <2>1, <2>2, <2>3 DEF WatchInv, Vouches
<1>11. CASE UNCHANGED vars
  BY <1>11 DEF vars, WatchInv, Vouches, Latest
<1> QED
  BY <1>1, <1>2, <1>3, <1>4, <1>5, <1>6, <1>7, <1>8, <1>9, <1>10, <1>11
     DEF Next, Watch, Save, Remove

\* The invariant says as much of a watcher that sleeps.
LEMMA WatchedIsApplied ==
    ASSUME QuietStart, TypeOK, WatchInv PROVE UnchangedMeansApplied
<1>1. ASSUME pc = "sleep", content \in Good, lastFingerprint = Fingerprint
      PROVE  Latest = content
  <2>1. content # Absent
    BY <1>1, ContentsAssumption
  <2>2. lastSnapshot = content
    BY <1>1, <2>1 DEF Fingerprint, WatchInv, Vouches
  <2> QED
    BY <1>1, <2>2 DEF WatchInv
<1> QED
  BY <1>1 DEF UnchangedMeansApplied

\* With users who leave the file alone until the watcher polls, a poll that sees
\* nothing new is right: the engine has, or is about to get, the file's content.
THEOREM UnchangedIsApplied == QuietStart => (Spec => []UnchangedMeansApplied)
<1> SUFFICES ASSUME QuietStart PROVE Spec => []UnchangedMeansApplied
  OBVIOUS
<1>1. TypeOK /\ WatchInv => UnchangedMeansApplied
  BY WatchedIsApplied
<1> QED
  BY TypeCorrect, WatchInit, WatchStep, <1>1, PTL DEF Spec

-----------------------------------------------------------------------------
(* From run to run *)

HIDE DEF Contents, StartPc, PollPc, Missing
USE DEF itemVars

-----------------------------------------------------------------------------
(* Places *)

\* No file is at a blank path.
LEMMA PlacesAreReal ==
    ASSUME NEW env, env.cwd # Blank, NEW place \in Places(env) PROVE place # Blank
<1>1. PICK path \in ConfigPath(env) : place = Locate(path, env)
  BY DEF Places
<1>2. path # Blank
  BY <1>1, PlaceAssumption DEF ConfigPath
<1> QED
  BY <1>1, <1>2 DEF Locate

\* Whatever HOME, XDG_CONFIG_HOME and the .env beside the file say, the path
\* that the LaunchAgent gives is the one that is used.
LEMMA GivenPathIsUsed ==
    ASSUME NEW env, NEW dir, dir # Blank, env.cwd = dir, env.shell["config"] = {dir}
    PROVE  Places(env) = {dir}
<1>1. Variable(env, "config") = {dir}
  BY DEF Variable, Layer
<1>2. ConfigPath(env) = {dir}
  BY <1>1 DEF ConfigPath
<1> QED
  BY <1>2 DEF Places, Locate

\* What a login start finds is what Render wrote, in the very same place.
LEMMA LoginPlace ==
    ASSUME NEW dir, dir # Blank, item = [config |-> dir, cwd |-> dir]
    PROVE  LoginEnv.cwd = dir /\ Places(LoginEnv) = {dir}
<1>1. item.config = dir /\ item.cwd = dir
  OBVIOUS
<1>2. LoginEnv.cwd = dir /\ LoginEnv.shell["config"] = {dir}
  BY <1>1 DEF LoginEnv
<1> QED
  BY <1>2, GivenPathIsUsed

-----------------------------------------------------------------------------
(* The invariant *)

LEMMA LaunchInvInit == LaunchInit => LaunchInv
  BY DEF LaunchInit, LaunchInv, Down

\* A start uses a real place, and one at login that of the last sync.
LEMMA StartFacts ==
    ASSUME NEW by, NEW env, Start(by, env), env.cwd # Blank
    PROVE  /\ Down /\ ~Down' /\ start'.by = by
           /\ InUse' \in Places(env) /\ InUse' # Blank
           /\ UNCHANGED itemVars
<1>1. start' = [by |-> by, env |-> env]
  BY DEF Start
<1>2. start'.by = by /\ start'.env = env
  BY <1>1
<1>3. InUse' \in Places(env)
  <2>1. Places(env) # {} /\ InUse' = CHOOSE dir \in Places(env) : TRUE
    BY <1>2 DEF Start, InUse
  <2> QED
    BY <2>1
<1> QED
  BY <1>2, <1>3, PlacesAreReal DEF Start, Down

LEMMA HandStart ==
    ASSUME LaunchInv, StartByHand
    PROVE  LaunchInv' /\ start'.by # "login"
<1>1. PICK env \in Terminals : Start("user", env)
  BY DEF StartByHand
<1>2. env.cwd # Blank
  BY PlaceAssumption
<1> QED
  BY <1>1, <1>2, StartFacts DEF LaunchInv

LEMMA LoginStart ==
    ASSUME LaunchInv, Login
    PROVE  LaunchInv' /\ lastSync = {InUse'}
<1>1. PICK dir : dir # Blank /\ item = [config |-> dir, cwd |-> dir] /\ lastSync = {dir}
  BY DEF Login, LaunchInv
<1>2. LoginEnv.cwd = dir /\ Places(LoginEnv) = {dir}
  BY <1>1, LoginPlace
<1>3. InUse' = dir /\ UNCHANGED itemVars /\ ~Down'
  BY <1>1, <1>2, StartFacts DEF Login
<1> QED
  BY <1>1, <1>3 DEF LaunchInv

-----------------------------------------------------------------------------
(* The watcher across starts *)

USE DEF Down, StartPc, PollPc, Missing

\* Every path is one of the directories or a relative one, and leads to one.
LEMMA PlacesAreDirs ==
    ASSUME NEW env, env.cwd \in Dirs,
           \A name \in {"config", "xdg", "home"} :
               env.shell[name] \subseteq Dirs \cup {Here, Blank}
    PROVE  ConfigPath(env) \subseteq Dirs \cup {Here} /\ Places(env) \subseteq Dirs
<1>1. \A name \in {"config", "xdg", "home"} :
        Variable(env, name) \subseteq Dirs \cup {Here, Blank}
  BY VariableAssumption DEF Variable, Layer
<1>2. ConfigPath(env) \subseteq Dirs \cup {Here}
  BY <1>1 DEF ConfigPath
<1> QED
  BY <1>2 DEF Places, Locate

LEMMA RestartInit ==
    LaunchInit => TypeOK /\ RestartInv /\ WatchInv
<1> SUFFICES ASSUME LaunchInit PROVE TypeOK /\ RestartInv /\ WatchInv
  OBVIOUS
<1>1. TypeOK
  <2>1. /\ pc = "refused" /\ changes = 0
        /\ content = Absent /\ clock = 1 /\ menubar = FALSE
        /\ applied = Default /\ inbox = <<>>
        /\ lastFingerprint = Missing /\ lastSnapshot = Absent
        /\ fingerprint = Missing /\ snapshot = Absent
    BY DEF LaunchInit
  <2>2. menubar \in BOOLEAN
    BY <2>1
  <2>3. inbox \in Seq(Good)
    BY <2>1
  <2> QED
    BY <2>1, <2>2, <2>3, ContentsAssumption DEF TypeOK, Contents
<1>2. RestartInv
  BY PlaceAssumption DEF LaunchInit, RestartInv, Contents
<1>3. WatchInv
  BY DEF LaunchInit, WatchInv
<1> QED
  BY <1>1, <1>2, <1>3

\* A start reads a file of some directory and nothing is known of it.
LEMMA RestartStart ==
    ASSUME TypeOK, RestartInv, WatchInv, NEW by, NEW env, Start(by, env),
           env.cwd \in Dirs, ConfigPath(env) \subseteq Dirs \cup {Here},
           Places(env) \subseteq Dirs
    PROVE  TypeOK' /\ RestartInv' /\ WatchInv'
<1>0. /\ ConfigPath(start.env)' # {}
      /\ ConfigPath(start.env)' \subseteq Dirs \cup {Here}
  <2>1. start'.env = env /\ Places(env) # {}
    BY DEF Start
  <2> QED
    BY <2>1 DEF Places, ConfigPath, Variable
<1>1. InUse' \in Dirs
  BY PlaceAssumption, StartFacts
<1>2. content' \in Contents
  BY <1>1 DEF Start, RestartInv
<1>3. pc' = "check" /\ clock' = 1 /\ menubar' \in BOOLEAN
      /\ UNCHANGED <<changes, applied, lastFingerprint, lastSnapshot, fingerprint,
                     snapshot, inbox, files, item>>
  BY DEF Start
<1>4. lastFingerprint = Missing /\ fingerprint = Missing /\ inbox = <<>>
  BY DEF Start, RestartInv, WatchInv
<1>5. TypeOK'
  BY <1>2, <1>3 DEF TypeOK
<1>6. RestartInv'
  BY <1>0, <1>1, <1>3, <1>4 DEF RestartInv
<1>7. WatchInv'
  BY <1>3, <1>4 DEF WatchInv
<1> QED
  BY <1>5, <1>6, <1>7

LEMMA RestartBegins ==
    ASSUME TypeOK, RestartInv, WatchInv, StartByHand \/ Login
    PROVE  TypeOK' /\ RestartInv' /\ WatchInv'
<1>1. CASE StartByHand
  <2>1. PICK env \in Terminals : Start("user", env)
    BY <1>1 DEF StartByHand
  <2>2. env.cwd \in Dirs /\ ConfigPath(env) \subseteq Dirs \cup {Here} /\ Places(env) \subseteq Dirs
    BY PlaceAssumption, VariableAssumption, PlacesAreDirs
  <2> QED
    BY <2>1, <2>2, RestartStart
<1>2. CASE Login
  <2>1. item.config \in Dirs \cup {Here} /\ item.cwd \in Dirs
    BY <1>2 DEF Login, RestartInv
  <2>2. /\ LoginEnv.cwd \in Dirs
        /\ \A name \in {"config", "xdg", "home"} :
              LoginEnv.shell[name] \subseteq Dirs \cup {Here, Blank}
    BY <2>1, PlaceAssumption DEF LoginEnv
  <2>3. ConfigPath(LoginEnv) \subseteq Dirs \cup {Here} /\ Places(LoginEnv) \subseteq Dirs
    BY <2>2, PlacesAreDirs
  <2> QED
    BY <1>2, <2>2, <2>3, RestartStart DEF Login
<1> QED
  BY <1>1, <1>2

\* An end forgets everything but the files.
LEMMA RestartEnd ==
    ASSUME TypeOK, RestartInv, WatchInv, End PROVE TypeOK' /\ RestartInv' /\ WatchInv'
<1>1. files' \in [Dirs -> Contents]
  <2>1. ASSUME NEW c \in Bad \cup (Good \ Autostart)
        PROVE  [files EXCEPT ![InUse] = c] \in [Dirs -> Contents]
    BY DEF RestartInv, Contents
  <2> QED
    BY <2>1 DEF End, RestartInv
<1>2. pc' = "refused" /\ UNCHANGED <<changes, item>>
  BY DEF End
<1>3. /\ content' = Absent /\ clock' = 1 /\ menubar' = FALSE
      /\ applied' = Default /\ inbox' = <<>>
      /\ lastFingerprint' = Missing /\ lastSnapshot' = Absent
      /\ fingerprint' = Missing /\ snapshot' = Absent
  BY DEF End, Forget
<1>4. TypeOK'
  <2>1. menubar' \in BOOLEAN
    BY <1>3
  <2>2. inbox' \in Seq(Good)
    BY <1>3
  <2> QED
    BY <1>2, <1>3, <2>1, <2>2, ContentsAssumption DEF TypeOK, Contents
<1>5. RestartInv'
  BY <1>1, <1>2, <1>3 DEF RestartInv
<1>6. WatchInv'
  BY <1>2, <1>3 DEF WatchInv
<1> QED
  BY <1>4, <1>5, <1>6

\* Before its baseline the watcher has read nothing.
LEMMA NothingReadYet ==
    ASSUME TypeOK, RestartInv, Next, ~Down
    PROVE  pc' \in StartPc \ {"baseline_snapshot"} =>
               lastFingerprint' = Missing /\ fingerprint' = Missing
<1> USE DEF RestartInv, Goto
<1>1. ASSUME NEW c, Change(c)
      PROVE  UNCHANGED <<pc, lastFingerprint, fingerprint>>
  BY <1>1 DEF Change
<1>2. CASE CheckExists \/ CreateDefault \/ Load
  BY <1>2 DEF CheckExists, CreateDefault, Load
<1>3. CASE ReadBaseline \/ ReadBaselineSnapshot
  BY <1>3 DEF ReadBaseline, ReadBaselineSnapshot
<1>4. CASE Poll \/ Look \/ Deliver
  BY <1>4 DEF Poll, Look, Deliver
<1>5. CASE HandleReload
  BY <1>5 DEF HandleReload
<1> QED
  BY <1>1, <1>2, <1>3, <1>4, <1>5 DEF Next, Watch, Save, Remove

\* What the LaunchAgent then says leads to one of the directories.
LEMMA RenderType ==
    ASSUME RestartInv, ~Down PROVE Render \in [config : Dirs \cup {Here}, cwd : Dirs]
<1>1. Canonical \in [config : Dirs \cup {Here}, cwd : Dirs]
  BY DEF RestartInv, Canonical
<1>2. AsGiven \in [config : Dirs \cup {Here}, cwd : Dirs]
  <2> DEFINE given == CHOOSE path \in ConfigPath(start.env) : TRUE
  <2>1. given \in Dirs \cup {Here}
    BY DEF RestartInv
  <2>2. AsGiven = [config |-> given, cwd |-> IF given = Here THEN Root ELSE given]
    BY DEF AsGiven
  <2> HIDE DEF given
  <2> QED
    BY <2>1, <2>2, PlaceAssumption
<1> QED
  BY <1>1, <1>2 DEF Render

LEMMA RestartStep ==
    TypeOK /\ RestartInv /\ WatchInv /\ [LaunchNext]_allVars
    => TypeOK' /\ RestartInv' /\ WatchInv'
<1> SUFFICES ASSUME TypeOK, RestartInv, WatchInv, [LaunchNext]_allVars
             PROVE  TypeOK' /\ RestartInv' /\ WatchInv'
  OBVIOUS
<1>1. CASE StartByHand \/ Login
  BY <1>1, RestartBegins
<1>2. CASE End
  BY <1>2, RestartEnd
<1>3. ASSUME UNCHANGED vars, UNCHANGED start, files' \in [Dirs -> Contents],
             \/ UNCHANGED item
             \/ item' \in {NoItem, Torn}
             \/ ~Down /\ item' = Render
      PROVE  TypeOK' /\ RestartInv' /\ WatchInv'
  <2>1. InUse' = InUse
    BY <1>3 DEF InUse
  <2>2. TypeOK' /\ WatchInv'
    BY <1>3, TypeStep, WatchStep
  <2> QED
    BY <1>3, <2>1, <2>2, RenderType DEF RestartInv, vars
<1>4. CASE SyncAutostart
  <2>1. item' \in {item, NoItem, Torn, Render} /\ UNCHANGED <<vars, start, files>>
    BY <1>4 DEF SyncAutostart, SyncFails, SyncSucceeds, Write
  <2>2. ~Down
    BY <1>4 DEF SyncAutostart
  <2> QED
    BY <1>3, <2>1, <2>2 DEF RestartInv
<1>5. ASSUME NEW dir \in Dirs, NEW c \in Contents, Edit(dir, c)
      PROVE  TypeOK' /\ RestartInv' /\ WatchInv'
  <2>1. /\ changes' = changes + 1 /\ files' \in [Dirs -> Contents]
        /\ UNCHANGED <<content, clock, menubar, pc, applied, pollVars, inbox, start, item>>
    BY <1>5 DEF Edit, RestartInv
  <2>2. InUse' = InUse
    BY <2>1 DEF InUse
  <2>3. TypeOK'
    BY <2>1 DEF TypeOK
  <2>4. WatchInv'
    BY <2>1 DEF WatchInv, Vouches, Latest
  <2> QED
    BY <2>1, <2>2, <2>3, <2>4 DEF RestartInv
<1>6. CASE Running(Next)
  <2>1. Next /\ ~Down /\ UNCHANGED <<start, item>>
    BY <1>6 DEF Running
  <2>2. TypeOK' /\ WatchInv'
    BY <2>1, TypeStep, WatchStep
  <2>3. InUse' = InUse /\ InUse \in Dirs
    BY <2>1 DEF InUse, RestartInv
  <2>4. files' \in [Dirs -> Contents]
    BY <1>6, <2>2 DEF Running, RestartInv, TypeOK
  <2> QED
    BY <2>1, <2>2, <2>3, <2>4, NothingReadYet DEF RestartInv
<1>7. CASE UNCHANGED allVars
  <2>1. UNCHANGED vars /\ UNCHANGED <<start, files, item>>
    BY <1>7 DEF allVars, launchVars
  <2> QED
    BY <1>3, <2>1 DEF RestartInv
<1> QED
  BY <1>1, <1>2, <1>4, <1>5, <1>6, <1>7 DEF LaunchNext

LEMMA RestartInvariant == LaunchSpec => [](TypeOK /\ RestartInv /\ WatchInv)
  BY RestartInit, RestartStep, PTL DEF LaunchSpec

-----------------------------------------------------------------------------
(* The LaunchAgent *)

\* A file that was loaded and then left alone is there: canonicalize finds it.
LEMMA SyncFindsFile ==
    ASSUME QuietStart, TypeOK, WatchInv, pc = "baseline" PROVE Render = Canonical
<1>1. applied \in Good /\ applied = content
  BY DEF TypeOK, WatchInv
<1>2. content # Absent
  BY <1>1, ContentsAssumption
<1> QED
  BY <1>2 DEF Render

\* The sync leaves the whole file, none, the old one, or a torn one.
LEMMA SyncStep ==
    ASSUME QuietStart, TypeOK, WatchInv, LaunchInv, SyncAutostart
    PROVE  LaunchInv' /\ ~Down
<1>1. UNCHANGED <<pc, start>> /\ pc = "baseline"
  BY DEF SyncAutostart, vars
<1>2. Down' = Down /\ ~Down /\ InUse' = InUse /\ InUse # Blank
  BY <1>1 DEF Down, InUse, LaunchInv
<1>3. CASE SyncFails
  BY <1>2, <1>3 DEF SyncFails, LaunchInv
<1>4. CASE SyncSucceeds
  <2>1. Render = Canonical
    BY <1>1, SyncFindsFile
  <2> QED
    BY <1>2, <1>4, <2>1 DEF SyncSucceeds, LaunchInv, Write, Canonical
<1> QED
  BY <1>2, <1>3, <1>4 DEF SyncAutostart

\* Everything else leaves the LaunchAgent and the start as they are.
LEMMA LaunchInvFrame ==
    ASSUME LaunchInv, UNCHANGED <<start, itemVars>>, Down => Down' PROVE LaunchInv'
<1>1. InUse' = InUse
  BY DEF InUse
<1> QED
  BY <1>1 DEF LaunchInv

LEMMA LaunchStep ==
    ASSUME QuietStart, TypeOK, WatchInv, LaunchInv, [LaunchNext]_allVars
    PROVE  /\ LaunchInv'
           /\ Down /\ ~Down' /\ start'.by = "login" => lastSync = {InUse'}
<1>1. CASE StartByHand
  BY <1>1, HandStart
<1>2. CASE Login
  BY <1>2, LoginStart
<1>3. CASE SyncAutostart
  BY <1>3, SyncStep
<1>4. CASE End
  BY <1>4, LaunchInvFrame DEF End, Down
<1>5. ASSUME NEW dir \in Dirs, NEW c \in Contents, Edit(dir, c)
      PROVE  LaunchInv' /\ Down' = Down
  BY <1>5, LaunchInvFrame DEF Edit, Down
<1>6. CASE Running(Next)
  BY <1>6, LaunchInvFrame DEF Running
<1>7. CASE UNCHANGED allVars
  BY <1>7, LaunchInvFrame DEF allVars, vars, launchVars, Down
<1> QED
  BY <1>1, <1>2, <1>3, <1>4, <1>5, <1>6, <1>7 DEF LaunchNext

\* With users who leave the file alone until the watcher polls, a login start uses
\* the very file of the start whose sync last succeeded, and there is none when
\* that sync has found autostart off (autostart.rs, sync_autostart).  A file that
\* is removed between load and sync would leave the path as it was given, which
\* need not lead to the same file from elsewhere.
THEOREM LoginFollowsSync == QuietStart => (LaunchSpec => LoginUsesLastSync)
<1> SUFFICES ASSUME QuietStart PROVE LaunchSpec => LoginUsesLastSync
  OBVIOUS
<1>1. TypeOK /\ WatchInv /\ LaunchInv /\ [LaunchNext]_allVars => LaunchInv'
  BY LaunchStep
<1>2. TypeOK /\ WatchInv /\ LaunchInv /\ [LaunchNext]_allVars =>
        [Down /\ ~Down' /\ start'.by = "login" => lastSync = {InUse'}]_allVars
  BY LaunchStep
<1> QED
  BY LaunchInvInit, RestartInvariant, <1>1, <1>2, PTL DEF LaunchSpec, LoginUsesLastSync

-----------------------------------------------------------------------------
(* Within a run, whatever came before it *)

\* However the program ends and starts again, and whatever a torn default left
\* in the file, the engine only ever runs with a valid configuration.
THEOREM LaunchTypeCorrect == LaunchSpec => []TypeOK
  BY RestartInvariant, PTL

\* A run never takes over what the run before it knew of the file: the watcher
\* goes back to sleep only over a file that this run's engine has been given.
THEOREM UnchangedAcrossStarts == QuietStart => (LaunchSpec => []UnchangedMeansApplied)
<1> SUFFICES ASSUME QuietStart PROVE LaunchSpec => []UnchangedMeansApplied
  OBVIOUS
<1>1. TypeOK /\ WatchInv => UnchangedMeansApplied
  BY WatchedIsApplied
<1> QED
  BY RestartInvariant, <1>1, PTL
=============================================================================
