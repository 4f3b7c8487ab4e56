-------------------------- MODULE IsolatedLauncher --------------------------
(***************************************************************************)
(* scripts/run-local-client-isolated.ps1, as several launchers of the same *)
(* patched copy.  A launcher enables the firewall profiles that are off,   *)
(* if it was given -TemporarilyEnableFirewallProfiles, adds outbound block *)
(* rules for every executable of the copy, asks the desktop shell to start *)
(* the client, waits fifteen seconds for its process to appear, watches it *)
(* until it exits, and then removes its rules and disables the profiles it *)
(* found disabled.  The shell starts the client on its own time.           *)
(*                                                                         *)
(* The profiles are shared by the whole machine, and a rule names a        *)
(* program, not a process: the rules of every launcher apply to every      *)
(* client.  The cmdlets of the finally block are taken to succeed.         *)
(***************************************************************************)
CONSTANTS Launchers,    \* the running copies of the script
          Profiles,     \* the Windows Firewall profiles
          Executables,  \* the executables of the patched copy
          NoProcess     \* $null

ASSUME LauncherAssumption == NoProcess \notin Launchers

VARIABLES
    enabled,    \* the profiles that are enabled
    initially,  \* history: the profiles that were enabled at first
    rules,      \* the rules that exist: <<launcher, executable, family>>
    allowed,    \* [Launchers -> BOOLEAN]: -TemporarilyEnableFirewallProfiles
    restore,    \* [Launchers -> SUBSET Profiles]: $profilesToRestore
    known,      \* [Launchers -> SUBSET Launchers]: $knownClientIds
    watched,    \* [Launchers -> Launchers \cup {NoProcess}]: $clientProcess
    pc,         \* [Launchers -> Phases]
    process,    \* [Launchers -> ...]: the client each launcher asked for
    outside     \* clients with a TCP connection that leaves the machine

vars == <<enabled, initially, rules, allowed, restore, known, watched, pc, process, outside>>

Families == {"IPv4", "IPv6"}
RulesOf(l) == {l} \X Executables \X Families

Guarded == {"enabling", "confirming", "testing", "adding_rules", "listing",
            "launching", "finding", "watching"}
Phases == {"idle", "removing_rules", "restoring", "ended"} \cup Guarded

(* The block rules cover each executable and no profile switches them off. *)
Isolated ==
    /\ enabled = Profiles
    /\ \A e \in Executables, f \in Families : \E l \in Launchers : <<l, e, f>> \in rules

Init ==
    /\ enabled \in SUBSET Profiles
    /\ initially = enabled
    /\ rules = {}
    /\ allowed \in [Launchers -> BOOLEAN]
    /\ restore = [l \in Launchers |-> {}]
    /\ known = [l \in Launchers |-> {}]
    /\ watched = [l \in Launchers |-> NoProcess]
    /\ pc = [l \in Launchers |-> "idle"]
    /\ process = [l \in Launchers |-> "none"]
    /\ outside = {}

Goto(l, phase) == pc' = [pc EXCEPT ![l] = phase]
Clients == <<process, outside>>
Locals == <<restore, known, watched>>
Constant == <<initially, allowed>>

(* The copy fails its verification, before anything was changed.           *)
Refuse(l) ==
    /\ pc[l] = "idle"
    /\ Goto(l, "ended")
    /\ UNCHANGED <<enabled, rules, Locals, Clients, Constant>>

Begin(l) ==
    /\ pc[l] = "idle"
    /\ restore' = [restore EXCEPT ![l] = Profiles \ enabled]
    /\ Goto(l, "enabling")
    /\ UNCHANGED <<enabled, rules, known, watched, Clients, Constant>>

EnableProfiles(l) ==
    /\ pc[l] = "enabling"
    /\ \/ /\ restore[l] = {}
          /\ Goto(l, "testing")
          /\ UNCHANGED enabled
       \/ /\ restore[l] # {}
          /\ ~allowed[l]
          /\ Goto(l, "removing_rules")
          /\ UNCHANGED enabled
       \/ /\ restore[l] # {}
          /\ allowed[l]
          /\ enabled' = enabled \cup restore[l]
          /\ Goto(l, "confirming")
    /\ UNCHANGED <<rules, Locals, Clients, Constant>>

(* $stillDisabled                                                          *)
ConfirmProfiles(l) ==
    /\ pc[l] = "confirming"
    /\ Goto(l, IF restore[l] \subseteq enabled THEN "testing" ELSE "removing_rules")
    /\ UNCHANGED <<enabled, rules, Locals, Clients, Constant>>

(* Test-NetConnection: the local server listens, or it does not.           *)
TestServer(l) ==
    /\ pc[l] = "testing"
    /\ \E phase \in {"adding_rules", "removing_rules"} : Goto(l, phase)
    /\ UNCHANGED <<enabled, rules, Locals, Clients, Constant>>

(* Fault: the rules for IPv6 are forgotten.                                *)
AddRuleIPv4(l) ==
    /\ pc[l] = "adding_rules"
    /\ \E rule \in RulesOf(l) \ rules :
          /\ rules' = rules \cup {rule}
          /\ Goto(l, IF {l} \X Executables \X {"IPv4"} \subseteq rules'
                     THEN "listing" ELSE "adding_rules")
    /\ UNCHANGED <<enabled, Locals, Clients, Constant>>

(* One New-NetFirewallRule.                                                *)
AddRule(l) ==
    /\ pc[l] = "adding_rules"
    /\ \E rule \in RulesOf(l) \ rules :
          /\ rules' = rules \cup {rule}
          /\ Goto(l, IF RulesOf(l) \subseteq rules' THEN "listing" ELSE "adding_rules")
    /\ UNCHANGED <<enabled, Locals, Clients, Constant>>

ListKnownClients(l) ==
    /\ pc[l] = "listing"
    /\ known' = [known EXCEPT ![l] = {m \in Launchers : process[m] = "running"}]
    /\ Goto(l, "launching")
    /\ UNCHANGED <<enabled, rules, restore, watched, Clients, Constant>>

Launch(l) ==
    /\ pc[l] = "launching"
    /\ process' = [process EXCEPT ![l] = "asked"]
    /\ Goto(l, "finding")
    /\ UNCHANGED <<enabled, rules, Locals, outside, Constant>>

(* A process of the client that was not there before.                      *)
FindClient(l) ==
    /\ pc[l] = "finding"
    /\ \E m \in Launchers \ known[l] :
          /\ process[m] = "running"
          /\ watched' = [watched EXCEPT ![l] = m]
    /\ Goto(l, "watching")
    /\ UNCHANGED <<enabled, rules, restore, known, Clients, Constant>>

(* $launchDeadline passes without a candidate.                             *)
LaunchDeadline(l) ==
    /\ pc[l] = "finding"
    /\ Goto(l, "removing_rules")
    /\ UNCHANGED <<enabled, rules, Locals, Clients, Constant>>

(* Fault: the process is never refreshed.                                  *)
WatchUnrefreshed(l) ==
    /\ pc[l] = "watching"
    /\ process[watched[l]] = "running"
    /\ watched[l] \in outside
    /\ process' = [process EXCEPT ![watched[l]] = "exited"]
    /\ Goto(l, "removing_rules")
    /\ UNCHANGED <<enabled, rules, Locals, outside, Constant>>

(* The loop over the client's connections ends when it exits, or stops it. *)
Watch(l) ==
    /\ pc[l] = "watching"
    /\ \/ /\ process[watched[l]] = "exited"
          /\ UNCHANGED process
       \/ /\ process[watched[l]] = "running"
          /\ watched[l] \in outside
          /\ process' = [process EXCEPT ![watched[l]] = "exited"]
    /\ Goto(l, "removing_rules")
    /\ UNCHANGED <<enabled, rules, Locals, outside, Constant>>

(* A cmdlet that raises, or Ctrl+C, anywhere in the try block.             *)
Interrupt(l) ==
    /\ pc[l] \in Guarded
    /\ Goto(l, "removing_rules")
    /\ UNCHANGED <<enabled, rules, Locals, Clients, Constant>>

(* Fault: the profiles are restored only after a client was watched.       *)
RemoveRulesOnSuccess(l) ==
    /\ pc[l] = "removing_rules"
    /\ rules' = rules \ RulesOf(l)
    /\ Goto(l, IF restore[l] # {} /\ watched[l] # NoProcess THEN "restoring" ELSE "ended")
    /\ UNCHANGED <<enabled, Locals, Clients, Constant>>

(* finally                                                                 *)
RemoveRules(l) ==
    /\ pc[l] = "removing_rules"
    /\ rules' = rules \ RulesOf(l)
    /\ Goto(l, IF restore[l] # {} /\ allowed[l] THEN "restoring" ELSE "ended")
    /\ UNCHANGED <<enabled, Locals, Clients, Constant>>

RestoreProfiles(l) ==
    /\ pc[l] = "restoring"
    /\ enabled' = enabled \ restore[l]
    /\ Goto(l, "ended")
    /\ UNCHANGED <<rules, Locals, Clients, Constant>>

Finish(l) == LaunchDeadline(l) \/ Watch(l) \/ RemoveRules(l) \/ RestoreProfiles(l)

Step(l) ==
    \/ Refuse(l) \/ Begin(l) \/ EnableProfiles(l) \/ ConfirmProfiles(l) \/ TestServer(l)
    \/ AddRule(l) \/ ListKnownClients(l) \/ Launch(l) \/ FindClient(l) \/ Finish(l)

----------------------------------------------------------------------------
(* The desktop shell starts the client some time after it was asked to.    *)
ClientStarts(l) ==
    /\ process[l] = "asked"
    /\ process' = [process EXCEPT ![l] = "running"]
    /\ UNCHANGED <<enabled, rules, Locals, outside, pc, Constant>>

ClientConnectsOutside(l) ==
    /\ process[l] = "running"
    /\ outside' = outside \cup {l}
    /\ UNCHANGED <<enabled, rules, Locals, process, pc, Constant>>

ClientExits(l) ==
    /\ process[l] = "running"
    /\ process' = [process EXCEPT ![l] = "exited"]
    /\ UNCHANGED <<enabled, rules, Locals, outside, pc, Constant>>

Next ==
    \E l \in Launchers :
        \/ Step(l) \/ Interrupt(l)
        \/ ClientStarts(l) \/ ClientConnectsOutside(l) \/ ClientExits(l)

Spec == Init /\ [][Next]_vars /\ \A l \in Launchers : WF_vars(Step(l))

----------------------------------------------------------------------------
(* Every variable keeps its type, and a launcher watches a process that    *)
(* has started.                                                            *)
TypeOK ==
    /\ enabled \subseteq Profiles
    /\ initially \subseteq Profiles
    /\ rules \subseteq UNION {RulesOf(l) : l \in Launchers}
    /\ allowed \in [Launchers -> BOOLEAN]
    /\ restore \in [Launchers -> SUBSET Profiles]
    /\ known \in [Launchers -> SUBSET Launchers]
    /\ watched \in [Launchers -> Launchers \cup {NoProcess}]
    /\ pc \in [Launchers -> Phases]
    /\ process \in [Launchers -> {"none", "asked", "running", "exited"}]
    /\ outside \subseteq Launchers
    /\ \A l \in Launchers :
          pc[l] = "watching" => watched[l] # NoProcess /\ process[watched[l]] # "asked"

(* From before the shell is asked for the client to the end of the watch,  *)
(* the client is isolated: each block rule exists and every profile is on. *)
(* The one exception is another launcher that has found profiles disabled, *)
(* which may disable them again while this one still runs.                 *)
IsolatedWhileWatched ==
    \A l \in Launchers :
        /\ pc[l] \in {"launching", "finding", "watching"}
        /\ \A m \in Launchers \ {l} : restore[m] = {} \/ ~allowed[m]
        => Isolated

(* When every launcher has ended, the machine is as it was: no rule is     *)
(* left, and the profiles that were disabled are disabled, in whatever     *)
(* order overlapping launchers found, enabled and restored them.           *)
LeavesNoTrace ==
    (\A l \in Launchers : pc[l] = "ended") => rules = {} /\ enabled = initially

(* A launcher ends unless a client it watches goes on running inside.      *)
EndsWithItsClient ==
    \A l \in Launchers :
        <>[](pc[l] = "ended" \/ (pc[l] = "watching" /\ process[watched[l]] = "running"))

(* Every client the script started runs isolated, as the project demands   *)
(* of any run of it ("only in an isolated environment that blocks          *)
(* connections to the Internet by default", ROADMAP.md:35-36).  The code   *)
(* does not hold it to that: a client the shell starts after the deadline, *)
(* or one that is running when the launcher is interrupted, goes on        *)
(* without the rules.                                                      *)
ClientsRunIsolated ==
    \A l \in Launchers : process[l] = "running" => Isolated
=============================================================================
