----------------------- MODULE IsolatedLauncherProofs -----------------------
(* What launchers do to the firewall they share, for any number of them,   *)
(* any profiles and any executables.                                       *)
EXTENDS IsolatedLauncher, TLAPS

(* Phases in which no rule of the launcher exists, in which all do, after  *)
(* it may have enabled profiles, and in which it takes them for enabled.   *)
NoRules  == {"idle", "enabling", "confirming", "testing", "restoring", "ended"}
AllRules == {"listing", "launching", "finding", "watching"}
Enabled  == {"confirming", "testing", "adding_rules", "removing_rules", "restoring"}
            \cup AllRules
Relying  == {"testing", "adding_rules"} \cup AllRules

(* A launcher that will disable p, or has disabled it.                     *)
Restores(m, p) == allowed[m] /\ p \in restore[m]

RulesInv(l) ==
    /\ pc[l] \in NoRules => RulesOf(l) \cap rules = {}
    /\ pc[l] \in AllRules => RulesOf(l) \subseteq rules

(* What is off, and was not when the launcher looked or enabled it, was    *)
(* turned off by another launcher that had found it off.                   *)
ProfilesInv(l) ==
    /\ pc[l] = "idle" => restore[l] = {}
    /\ pc[l] = "restoring" => allowed[l]
    /\ restore[l] \cap initially = {}
    /\ pc[l] \in {"enabling", "confirming"} =>
          \A p \in Profiles \ enabled :
              p \in restore[l] \/ \E m \in Launchers \ {l} : Restores(m, p)
    /\ pc[l] \in Relying =>
          \A p \in Profiles \ enabled : \E m \in Launchers \ {l} : Restores(m, p)

(* What is on and was not at first has a launcher that will disable it.    *)
OwedInv ==
    /\ initially \subseteq enabled
    /\ \A p \in enabled \ initially :
          \E l \in Launchers : Restores(l, p) /\ pc[l] \in Enabled

(* A client is asked for once, and only a client that runs is watched.     *)
ProcessInv(l) ==
    /\ process[l] # "none" =>
          pc[l] \in {"finding", "watching", "removing_rules", "restoring", "ended"}
    /\ pc[l] = "watching" =>
          watched[l] \in Launchers /\ process[watched[l]] \in {"running", "exited"}

IInv ==
    /\ TypeOK
    /\ \A l \in Launchers : RulesInv(l) /\ ProfilesInv(l) /\ ProcessInv(l)
    /\ OwedInv

(* What a step leaves alone, by kind.                                      *)
Moves(l) == Refuse(l) \/ ConfirmProfiles(l) \/ TestServer(l) \/ ListKnownClients(l)
            \/ Launch(l) \/ FindClient(l) \/ LaunchDeadline(l) \/ Watch(l) \/ Interrupt(l)
Lives(l) == ClientStarts(l) \/ ClientConnectsOutside(l) \/ ClientExits(l)
Changes(l) == Begin(l) \/ EnableProfiles(l) \/ AddRule(l) \/ RemoveRules(l) \/ RestoreProfiles(l)

(* Every step is a launcher's or a client's, with or without a change of  *)
(* the firewall.                                                          *)
LEMMA Kinds == Next => \E l \in Launchers : Moves(l) \/ Lives(l) \/ Changes(l)
BY DEF Next, Step, Finish, Moves, Lives, Changes

(* A launcher moves its own place in the script only; how the machine     *)
(* began is remembered.                                                   *)
LEMMA MovesFrame ==
    ASSUME TypeOK, NEW l \in Launchers, Moves(l) \/ Changes(l)
    PROVE  /\ \E phase \in Phases : pc' = [pc EXCEPT ![l] = phase]
           /\ initially' = initially /\ allowed' = allowed
BY DEF Moves, Changes, Refuse, ConfirmProfiles, TestServer, ListKnownClients, Launch,
       FindClient, LaunchDeadline, Watch, Interrupt, Begin, EnableProfiles, AddRule,
       RemoveRules, RestoreProfiles, Goto, Constant, Phases, Guarded

(* The rules of two launchers have different names.                       *)
LEMMA RulesDisjoint ==
    ASSUME NEW l \in Launchers, NEW m \in Launchers, l # m
    PROVE  RulesOf(l) \cap RulesOf(m) = {}
BY DEF RulesOf

(* Each step keeps the types.                                             *)
LEMMA TypeStep ==
    ASSUME IInv, NEW l \in Launchers, Moves(l) \/ Lives(l) \/ Changes(l)
    PROVE  /\ enabled' \subseteq Profiles /\ initially' \subseteq Profiles
           /\ rules' \subseteq UNION {RulesOf(m) : m \in Launchers}
           /\ allowed' \in [Launchers -> BOOLEAN]
           /\ restore' \in [Launchers -> SUBSET Profiles]
           /\ known' \in [Launchers -> SUBSET Launchers]
           /\ watched' \in [Launchers -> Launchers \cup {NoProcess}]
           /\ pc' \in [Launchers -> Phases]
           /\ process' \in [Launchers -> {"none", "asked", "running", "exited"}]
           /\ outside' \subseteq Launchers
<1>1. CASE Moves(l)
  <2>1. UNCHANGED <<enabled, rules, restore>>
    BY <1>1 DEF Moves, Refuse, ConfirmProfiles, TestServer, ListKnownClients, Launch,
       FindClient, LaunchDeadline, Watch, Interrupt, Locals
  <2>2. /\ known' \in [Launchers -> SUBSET Launchers]
        /\ watched' \in [Launchers -> Launchers \cup {NoProcess}]
        /\ process' \in [Launchers -> {"none", "asked", "running", "exited"}]
        /\ outside' \subseteq Launchers
    BY <1>1 DEF Moves, Refuse, ConfirmProfiles, TestServer, ListKnownClients, Launch,
       FindClient, LaunchDeadline, Watch, Interrupt, Locals, Clients, IInv, TypeOK
  <2>. QED BY <1>1, <2>1, <2>2, MovesFrame DEF IInv, TypeOK
<1>2. CASE Lives(l)
  BY <1>2 DEF Lives, ClientStarts, ClientConnectsOutside, ClientExits, Locals, Constant,
     IInv, TypeOK
<1>3. CASE Changes(l)
  <2>1. /\ enabled' \subseteq Profiles
        /\ restore' \in [Launchers -> SUBSET Profiles]
        /\ UNCHANGED <<known, watched, process, outside>>
    BY <1>3 DEF Changes, Begin, EnableProfiles, AddRule, RemoveRules, RestoreProfiles, Locals,
       Clients, IInv, TypeOK
  <2>2. rules' \subseteq UNION {RulesOf(m) : m \in Launchers}
    BY <1>3 DEF Changes, Begin, EnableProfiles, AddRule, RemoveRules, RestoreProfiles,
       IInv, TypeOK
  <2>. QED BY <1>3, <2>1, <2>2, MovesFrame DEF IInv, TypeOK
<1>. QED BY <1>1, <1>2, <1>3

(* Launchers add and remove rules of their own only.                       *)
LEMMA RulesStep ==
    ASSUME IInv, NEW l \in Launchers, Moves(l) \/ Lives(l) \/ Changes(l),
           NEW d \in Launchers
    PROVE  RulesInv(d)'
<1>1. CASE Lives(l)
  BY <1>1 DEF Lives, ClientStarts, ClientConnectsOutside, ClientExits, IInv, RulesInv, RulesOf
<1>2. CASE Moves(l)
  <2>1. CASE d = l
    BY <1>2, <2>1 DEF Moves, Refuse, ConfirmProfiles, TestServer, ListKnownClients, Launch,
       FindClient, LaunchDeadline, Watch, Interrupt, Goto, IInv, TypeOK, RulesInv, RulesOf,
       NoRules, AllRules, Guarded
  <2>2. CASE d # l
    <3>1. rules' = rules
      BY <1>2 DEF Moves, Refuse, ConfirmProfiles, TestServer, ListKnownClients, Launch,
         FindClient, LaunchDeadline, Watch, Interrupt
    <3>2. pc'[d] = pc[d]
      BY <1>2, <2>2, MovesFrame DEF IInv, TypeOK
    <3>. QED BY <3>1, <3>2 DEF IInv, RulesInv, RulesOf
  <2>. QED BY <2>1, <2>2
<1>3. CASE Changes(l)
  <2>1. CASE d = l
    BY <1>3, <2>1 DEF Changes, Begin, EnableProfiles, AddRule, RemoveRules, RestoreProfiles,
       Goto, IInv, TypeOK, RulesInv, RulesOf, NoRules, AllRules
  <2>2. CASE d # l
    <3>1. RulesOf(d) \cap rules' = RulesOf(d) \cap rules
      BY <1>3, <2>2, RulesDisjoint DEF Changes, Begin, EnableProfiles, AddRule, RemoveRules,
         RestoreProfiles
    <3>2. pc'[d] = pc[d]
      BY <1>3, <2>2, MovesFrame DEF IInv, TypeOK
    <3>. QED BY <3>1, <3>2 DEF IInv, RulesInv, RulesOf
  <2>. QED BY <2>1, <2>2
<1>. QED BY <1>1, <1>2, <1>3

(* Each step keeps what is known of processes: a watched client has       *)
(* started, once.                                                         *)
LEMMA ProcessStep ==
    ASSUME IInv, NEW l \in Launchers, Moves(l) \/ Lives(l) \/ Changes(l),
           NEW d \in Launchers
    PROVE  ProcessInv(d)'
<1>1. CASE Lives(l)
  BY <1>1 DEF Lives, ClientStarts, ClientConnectsOutside, ClientExits, Locals, IInv, TypeOK,
     ProcessInv
<1>2. CASE Changes(l)
  BY <1>2 DEF Changes, Begin, EnableProfiles, AddRule, RemoveRules, RestoreProfiles, Goto,
     Locals, Clients, IInv, TypeOK, ProcessInv
<1>3. CASE Launch(l)
  BY <1>3 DEF Launch, Goto, Locals, IInv, TypeOK, ProcessInv
<1>4. CASE Watch(l)
  BY <1>4 DEF Watch, Goto, Locals, IInv, TypeOK, ProcessInv
<1>5. CASE FindClient(l)
  BY <1>5 DEF FindClient, Goto, Clients, IInv, TypeOK, ProcessInv
<1>6. CASE Refuse(l) \/ ConfirmProfiles(l) \/ TestServer(l) \/ ListKnownClients(l)
           \/ LaunchDeadline(l) \/ Interrupt(l)
  BY <1>6 DEF Refuse, ConfirmProfiles, TestServer, ListKnownClients, LaunchDeadline, Interrupt,
     Goto, Locals, Clients, IInv, TypeOK, ProcessInv, Guarded
<1>. QED BY <1>1, <1>2, <1>3, <1>4, <1>5, <1>6 DEF Moves

(* restore[m] is assigned once; whoever restores p goes on to do so, and   *)
(* what is turned off is turned off by one of them.                        *)
LEMMA RestoresStays ==
    ASSUME IInv, NEW l \in Launchers, Moves(l) \/ Lives(l) \/ Changes(l),
           NEW m \in Launchers, NEW p \in Profiles, Restores(m, p)
    PROVE  Restores(m, p)' /\ (m # l => restore'[m] = restore[m] /\ pc'[m] = pc[m])
<1>1. restore' = restore \/ (Begin(l) /\ restore' = [restore EXCEPT ![l] = Profiles \ enabled])
  BY DEF Moves, Lives, Changes, Refuse, ConfirmProfiles, TestServer, ListKnownClients, Launch,
     FindClient, LaunchDeadline, Watch, Interrupt, Begin, EnableProfiles, AddRule,
     RemoveRules, RestoreProfiles, ClientStarts, ClientConnectsOutside, ClientExits, Locals
<1>2. allowed' = allowed /\ (m # l => pc'[m] = pc[m])
  BY MovesFrame DEF IInv, TypeOK, Lives, ClientStarts, ClientConnectsOutside, ClientExits, Constant
<1>3. Begin(l) => restore[l] = {}
  BY DEF Begin, IInv, ProfilesInv
<1>4. restore'[m] = restore[m] \/ (m = l /\ Begin(l))
  BY <1>1 DEF IInv, TypeOK
<1>. QED BY <1>1, <1>2, <1>3, <1>4 DEF Restores

(* A profile goes off only when a launcher restores it as it found it.    *)
LEMMA OffByAnother ==
    ASSUME IInv, NEW l \in Launchers, Moves(l) \/ Lives(l) \/ Changes(l)
    PROVE  \A p \in enabled \ enabled' : pc[l] = "restoring" /\ Restores(l, p)
BY DEF Moves, Lives, Changes, Refuse, ConfirmProfiles, TestServer, ListKnownClients, Launch,
   FindClient, LaunchDeadline, Watch, Interrupt, Begin, EnableProfiles, AddRule,
   RemoveRules, RestoreProfiles, ClientStarts, ClientConnectsOutside, ClientExits,
   IInv, TypeOK, ProfilesInv, Restores

(* Each step keeps the invariant of the profiles a launcher relies on.    *)
LEMMA ProfilesStep ==
    ASSUME IInv, NEW l \in Launchers, Moves(l) \/ Lives(l) \/ Changes(l),
           NEW d \in Launchers
    PROVE  ProfilesInv(d)'
<1>1. initially' = initially /\ allowed' = allowed
  BY MovesFrame DEF IInv, Lives, ClientStarts, ClientConnectsOutside, ClientExits, Constant
<1>2. ASSUME NEW p \in Profiles, \E m \in Launchers \ {d} : Restores(m, p)
      PROVE  \E m \in Launchers \ {d} : Restores(m, p)'
  BY <1>2, RestoresStays
<1>3. ASSUME d # l, NEW p \in Profiles \ enabled', p \in enabled
      PROVE  \E m \in Launchers \ {d} : Restores(m, p)'
  BY <1>3, OffByAnother, RestoresStays
<1>4. CASE d # l \/ Lives(l)
  <2>1. pc'[d] = pc[d] /\ restore'[d] = restore[d]
    BY <1>4, MovesFrame DEF Lives, ClientStarts, ClientConnectsOutside, ClientExits, Locals,
       Moves, Changes, Refuse, ConfirmProfiles, TestServer, ListKnownClients, Launch,
       FindClient, LaunchDeadline, Watch, Interrupt, Begin, EnableProfiles, AddRule,
       RemoveRules, RestoreProfiles, IInv, TypeOK
  <2>2. Lives(l) => enabled' = enabled
    BY DEF Lives, ClientStarts, ClientConnectsOutside, ClientExits
  <2>3. ProfilesInv(d)
    BY DEF IInv
  <2>4. ASSUME NEW p \in Profiles \ enabled', \E m \in Launchers \ {d} : Restores(m, p)
        PROVE  \E m \in Launchers \ {d} : Restores(m, p)'
    BY <1>2, <2>4
  <2>5. \A p \in Profiles \ enabled' :
           p \notin enabled \/ \E m \in Launchers \ {d} : Restores(m, p)'
    BY <1>3, <1>4, <2>2
  <2>6. pc[d] \in {"enabling", "confirming"} =>
          \A p \in Profiles \ enabled' :
              p \in restore[d] \/ \E m \in Launchers \ {d} : Restores(m, p)'
    BY <2>3, <2>4, <2>5 DEF ProfilesInv
  <2>7. pc[d] \in Relying =>
          \A p \in Profiles \ enabled' : \E m \in Launchers \ {d} : Restores(m, p)'
    BY <2>3, <2>4, <2>5 DEF ProfilesInv
  <2>. QED BY <1>1, <2>1, <2>3, <2>6, <2>7 DEF ProfilesInv
<1>5. CASE d = l /\ (Moves(l) \/ AddRule(l) \/ RemoveRules(l))
  <2>1. enabled' = enabled /\ restore' = restore
    BY <1>5 DEF Moves, Refuse, ConfirmProfiles, TestServer, ListKnownClients, Launch,
       FindClient, LaunchDeadline, Watch, Interrupt, AddRule, RemoveRules, Locals
  <2>2. \/ pc[l] \in Relying
        \/ pc'[l] \notin Relying
        \/ pc[l] = "confirming" /\ restore[l] \subseteq enabled
    BY <1>5 DEF Moves, Refuse, ConfirmProfiles, TestServer, ListKnownClients, Launch,
       FindClient, LaunchDeadline, Watch, Interrupt, AddRule, RemoveRules, Goto, Relying,
       AllRules, IInv, TypeOK
  <2>3. /\ pc'[l] \notin {"idle", "enabling", "confirming"}
        /\ pc'[l] = "restoring" => allowed[l]
    BY <1>5 DEF Moves, Refuse, ConfirmProfiles, TestServer, ListKnownClients, Launch,
       FindClient, LaunchDeadline, Watch, Interrupt, AddRule, RemoveRules, Goto, IInv, TypeOK
  <2>4. pc'[l] \in Relying =>
           \A p \in Profiles \ enabled : \E m \in Launchers \ {l} : Restores(m, p)
    BY <2>2 DEF IInv, ProfilesInv
  <2>5. \A m, p : Restores(m, p)' <=> Restores(m, p)
    BY <1>1, <2>1, Zenon DEF Restores
  <2>6. restore[l] \cap initially = {}
    BY DEF IInv, ProfilesInv
  <2>. QED BY <1>1, <1>5, <2>1, <2>3, <2>4, <2>5, <2>6 DEF ProfilesInv
<1>6. CASE d = l /\ Begin(l)
  <2>1. pc'[l] = "enabling" /\ restore'[l] = Profiles \ enabled /\ enabled' = enabled
    BY <1>6 DEF Begin, Goto, IInv, TypeOK
  <2>2. initially \subseteq enabled
    BY DEF IInv, OwedInv
  <2>. QED BY <1>1, <1>6, <2>1, <2>2 DEF ProfilesInv, Relying, AllRules
<1>7. CASE d = l /\ EnableProfiles(l)
  <2>1. /\ restore' = restore /\ enabled \subseteq enabled'
        /\ \/ pc'[l] = "testing" /\ restore[l] = {}
           \/ pc'[l] = "confirming"
           \/ pc'[l] = "removing_rules"
    BY <1>7 DEF EnableProfiles, Goto, Locals, IInv, TypeOK
  <2>2. /\ restore[l] \cap initially = {}
        /\ \A p \in Profiles \ enabled :
              p \in restore[l] \/ \E m \in Launchers \ {l} : Restores(m, p)
    BY <1>7 DEF IInv, ProfilesInv, EnableProfiles
  <2>3. \A m, p : Restores(m, p)' <=> Restores(m, p)
    BY <1>1, <2>1, Zenon DEF Restores
  <2>. QED BY <1>1, <1>7, <2>1, <2>2, <2>3 DEF ProfilesInv, Relying, AllRules
<1>8. CASE d = l /\ RestoreProfiles(l)
  <2>1. pc'[l] = "ended" /\ restore' = restore
    BY <1>8 DEF RestoreProfiles, Goto, Locals, IInv, TypeOK
  <2>. QED BY <1>1, <1>8, <2>1 DEF IInv, ProfilesInv, Relying, AllRules
<1>. QED BY <1>4, <1>5, <1>6, <1>7, <1>8 DEF Changes

(* Each step keeps that a profile enabled since the beginning has someone *)
(* to disable it.                                                         *)
LEMMA OwedStep ==
    ASSUME IInv, NEW l \in Launchers, Moves(l) \/ Lives(l) \/ Changes(l)
    PROVE  OwedInv'
<1>1. initially' = initially
  BY MovesFrame DEF IInv, Lives, ClientStarts, ClientConnectsOutside, ClientExits, Constant
<1>2. initially \subseteq enabled'
  <2>1. initially \subseteq enabled /\ restore[l] \cap initially = {}
    BY DEF IInv, OwedInv, ProfilesInv
  <2>. QED BY <2>1, OffByAnother DEF Restores
<1>3. ASSUME NEW p \in enabled' \ initially
      PROVE  \E m \in Launchers : Restores(m, p)' /\ pc'[m] \in Enabled
  <2>0. p \in Profiles
    BY TypeStep
  <2>1. CASE p \notin enabled
    <3>1. EnableProfiles(l) /\ allowed[l] /\ p \in restore[l] /\ pc'[l] = "confirming"
      BY <2>1 DEF Moves, Lives, Changes, Refuse, ConfirmProfiles, TestServer,
         ListKnownClients, Launch, FindClient, LaunchDeadline, Watch, Interrupt, Begin,
         EnableProfiles, AddRule, RemoveRules, RestoreProfiles, ClientStarts,
         ClientConnectsOutside, ClientExits, Goto, IInv, TypeOK
    <3>2. Restores(l, p)
      BY <3>1 DEF Restores
    <3>. QED BY <2>0, <3>1, <3>2, RestoresStays DEF Enabled
  <2>2. CASE p \in enabled
    <3>1. PICK m \in Launchers : Restores(m, p) /\ pc[m] \in Enabled
      BY <2>2 DEF IInv, OwedInv
    <3>2. CASE m # l \/ Lives(l)
      BY <2>0, <3>1, <3>2, RestoresStays DEF Lives, ClientStarts, ClientConnectsOutside, ClientExits
    <3>3. CASE m = l /\ (Moves(l) \/ Changes(l))
      <4>1. allowed[l] /\ p \in restore[l]
        BY <3>1, <3>3 DEF Restores
      <4>2. ~RestoreProfiles(l)
        BY <4>1 DEF RestoreProfiles
      <4>3. pc'[l] \in Enabled
        BY <3>1, <3>3, <4>1, <4>2 DEF Moves, Changes, Refuse, ConfirmProfiles, TestServer,
           ListKnownClients, Launch, FindClient, LaunchDeadline, Watch, Interrupt, Begin,
           EnableProfiles, AddRule, RemoveRules, Goto, IInv, TypeOK, Enabled, AllRules
      <4>. QED BY <2>0, <3>1, <3>3, <4>3, RestoresStays
    <3>. QED BY <3>2, <3>3
  <2>. QED BY <2>1, <2>2
<1>. QED BY <1>1, <1>2, <1>3 DEF OwedInv

(* The invariant holds before any launcher starts.                        *)
LEMMA InitIInv == Init => IInv
<1>. SUFFICES ASSUME Init PROVE IInv  OBVIOUS
<1>1. TypeOK
  BY DEF Init, TypeOK, Phases
<1>2. ASSUME NEW l \in Launchers PROVE RulesInv(l) /\ ProfilesInv(l) /\ ProcessInv(l)
  BY DEF Init, RulesInv, ProfilesInv, ProcessInv, AllRules, Relying
<1>3. OwedInv
  BY DEF Init, OwedInv
<1>. QED BY <1>1, <1>2, <1>3 DEF IInv

(* It is inductive, by the three kinds of steps.                          *)
LEMMA StepIInv == IInv /\ [Next]_vars => IInv'
<1>1. ASSUME IInv, Next PROVE IInv'
  <2>1. PICK l \in Launchers : Moves(l) \/ Lives(l) \/ Changes(l)
    BY <1>1, Kinds
  <2>2. \A d \in Launchers : RulesInv(d)' /\ ProfilesInv(d)' /\ ProcessInv(d)'
    BY <1>1, <2>1, RulesStep, ProfilesStep, ProcessStep
  <2>3. OwedInv'
    BY <1>1, <2>1, OwedStep
  <2>4. TypeOK'
    <3>1. \A d \in Launchers :
             pc'[d] = "watching" => watched'[d] # NoProcess /\ process'[watched'[d]] # "asked"
      BY <2>2, LauncherAssumption DEF ProcessInv
    <3>. QED BY <1>1, <2>1, <3>1, TypeStep DEF TypeOK, RulesOf
  <2>. QED BY <2>2, <2>3, <2>4 DEF IInv
<1>2. ASSUME IInv, UNCHANGED vars PROVE IInv'
  BY <1>2 DEF vars, IInv, TypeOK, RulesInv, ProfilesInv, ProcessInv, OwedInv, Restores, RulesOf
<1>. QED BY <1>1, <1>2

(* So it holds always.                                                    *)
LEMMA SpecIInv == Spec => []IInv
BY InitIInv, StepIInv, PTL DEF Spec

(* Every variable keeps its type, and a launcher watches a process that    *)
(* has started.  run-local-client-isolated.ps1:115-151                     *)
THEOREM LauncherTypeCorrect == Spec => []TypeOK
<1>1. IInv => TypeOK  BY DEF IInv
<1>. QED BY <1>1, SpecIInv, PTL

(* From the request to the shell to the end of the watch the client is     *)
(* isolated, unless another launcher has found profiles disabled.          *)
(* run-local-client-isolated.ps1:55-186                                    *)
THEOREM LauncherIsolatedWhileWatched == Spec => []IsolatedWhileWatched
<1>1. IInv => IsolatedWhileWatched
  <2>. SUFFICES ASSUME IInv, NEW l \in Launchers, pc[l] \in {"launching", "finding", "watching"},
                       \A m \in Launchers \ {l} : restore[m] = {} \/ ~allowed[m]
                PROVE  Isolated
    BY DEF IsolatedWhileWatched
  <2>1. RulesOf(l) \subseteq rules
    BY DEF IInv, RulesInv, AllRules
  <2>2. \A p \in Profiles \ enabled : \E m \in Launchers \ {l} : Restores(m, p)
    BY DEF IInv, ProfilesInv, Relying, AllRules
  <2>3. enabled = Profiles
    BY <2>2 DEF Restores, IInv, TypeOK
  <2>. QED BY <2>1, <2>3 DEF Isolated, RulesOf
<1>. QED BY <1>1, SpecIInv, PTL

(* However launchers overlap and wherever they are interrupted, the last   *)
(* one leaves the firewall as the first one found it.                      *)
(* run-local-client-isolated.ps1:188-200                                   *)
THEOREM LauncherLeavesNoTrace == Spec => []LeavesNoTrace
<1>1. IInv => LeavesNoTrace
  <2>. SUFFICES ASSUME IInv, \A l \in Launchers : pc[l] = "ended"
                PROVE  rules = {} /\ enabled = initially
    BY DEF LeavesNoTrace
  <2>1. ASSUME NEW l \in Launchers PROVE RulesOf(l) \cap rules = {}
    <3>1. RulesInv(l) /\ pc[l] = "ended"
      BY DEF IInv
    <3>. QED BY <3>1 DEF RulesInv, NoRules
  <2>2. rules = {}
    BY <2>1 DEF IInv, TypeOK
  <2>3. enabled = initially
    BY DEF IInv, OwedInv, Enabled, AllRules
  <2>. QED BY <2>2, <2>3
<1>. QED BY <1>1, SpecIInv, PTL
=============================================================================
