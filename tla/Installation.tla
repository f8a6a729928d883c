---------------------------- MODULE Installation ----------------------------
(***************************************************************************)
(* init and uninstall: the managed block of .gitignore, the files generated *)
(* from templates (INDEX files and .context/config.json), and the private  *)
(* files they leave under .context (the lock file and the backups).        *)
(*                                                                         *)
(* What runs under the repository lock is one step, which may be cut short *)
(* by a crash after any part of its writes (see DurableWrites for the      *)
(* writes one by one).                                                     *)
(***************************************************************************)
EXTENDS Naturals, FiniteSets

CONSTANTS
  Generated,  \* paths of the template files
  Process,
  Absent

Ignore == ".gitignore"
ASSUME GeneratedAssumption == Ignore \notin Generated

\* How .gitignore lists Core's rules: not at all, as plain lines, in the
\* managed block as this version writes it or as an older one did, or with
\* markers that are duplicated or do not pair.
Rules == {"none", "plain", "current", "stale", "damaged"}

IgnoreFile == [user : BOOLEAN, rules : Rules]

ASSUME AbsentAssumption == Absent \notin IgnoreFile \cup {"template", "edited"}

VARIABLES
  ignore,     \* .gitignore: whether it has lines of the user's, and the rules
  generated,  \* each template file: missing, as generated, or edited
  lockFile,   \* .context/context.lock exists
  backups,    \* .context/backups exists
  pc,         \* which processes are between init's validation and its lock
  last        \* history: the command that took the last step, if it ended well

vars == <<ignore, generated, lockFile, backups, pc, last>>

\* A repository Core has never touched.
Init ==
  /\ ignore \in {f \in IgnoreFile \cup {Absent} :
                   f # Absent => f.user /\ f.rules \in {"none", "plain", "damaged"}}
  /\ generated \in [Generated -> {"edited", Absent}]
  /\ lockFile = FALSE
  /\ backups = FALSE
  /\ pc = [p \in Process |-> "idle"]
  /\ last = "user"

-----------------------------------------------------------------------------

RulesIn(file) == IF file = Absent THEN "none" ELSE file.rules
UserIn(file) == file # Absent /\ file.user
Damaged == RulesIn(ignore) = "damaged"

\* _managed_gitignore: rules listed by hand are enough, an older block is
\* replaced in place, and the user's lines are kept.
Managed(file) ==
  IF RulesIn(file) = "plain" THEN file
    ELSE [user |-> UserIn(file), rules |-> "current"]

\* The file without its managed block; nothing left means no file.
Stripped(file) ==
  IF UserIn(file) THEN [file EXCEPT !.rules = "none"] ELSE Absent

\* Mutant: a repository with a config file counts as installed.
InitPlanOnce ==
  IF \E path \in Generated : generated[path] # Absent THEN {}
    ELSE Generated \cup (IF Managed(ignore) # ignore THEN {Ignore} ELSE {})

\* What init is to write: the template files that are missing, and .gitignore
\* unless it already has the rules.
InitPlan ==
  {path \in Generated : generated[path] = Absent}
    \cup (IF Managed(ignore) # ignore THEN {Ignore} ELSE {})

\* Mutant: every generated path is deleted, edited or not.
UninstallPlanAll(private) ==
  {path \in Generated : generated[path] # Absent}
    \cup (IF ~private /\ RulesIn(ignore) \in {"current", "stale"}
            THEN {Ignore} ELSE {})

\* What uninstall is to delete or strip: the template files nobody edited,
\* and the managed block once no private file needs its rules.
UninstallPlan(private) ==
  {path \in Generated : generated[path] = "template"}
    \cup (IF ~private /\ RulesIn(ignore) \in {"current", "stale"}
            THEN {Ignore} ELSE {})

\* The part of a plan that lands: all of it, or less if the process dies.
\* The backup precedes the first write.
Land(plan, command, file, content) ==
  \E landed \in SUBSET plan, saved \in BOOLEAN :
    /\ landed # {} => saved
    /\ landed = plan => saved = (plan # {})
    /\ ignore' = IF Ignore \in landed THEN file ELSE ignore
    /\ generated' = [path \in Generated |->
                       IF path \in landed THEN content ELSE generated[path]]
    /\ backups' = (backups \/ saved)
    /\ last' = IF landed = plan THEN command ELSE "failed"

\* init validates the markers before it creates the lock file.
InitValidates(p) ==
  /\ pc[p] = "idle"
  /\ ~Damaged
  /\ pc' = [pc EXCEPT ![p] = "validated"]
  /\ UNCHANGED <<ignore, generated, lockFile, backups, last>>

\* It then plans again under the lock, where damage raises.
InitLocked(p) ==
  /\ pc[p] = "validated"
  /\ pc' = [pc EXCEPT ![p] = "idle"]
  /\ lockFile' = TRUE
  /\ IF Damaged
       THEN last' = "failed" /\ UNCHANGED <<ignore, generated, backups>>
       ELSE Land(InitPlan, "init", Managed(ignore), "template")

\* uninstall takes the lock first; its plan then looks for damage, and for
\* private files, of which the lock file is one.
Uninstall(p) ==
  /\ pc[p] = "idle"
  /\ lockFile' = TRUE
  /\ IF Damaged
       THEN last' = "failed" /\ UNCHANGED <<ignore, generated, backups>>
       ELSE Land(UninstallPlan(backups \/ lockFile'), "uninstall",
                 Stripped(ignore), Absent)
  /\ UNCHANGED pc

\* The user edits or deletes any of the files, or removes .context.
Edit ==
  /\ \/ /\ \E file \in IgnoreFile \cup {Absent} : ignore' = file
        /\ UNCHANGED <<generated, lockFile, backups>>
     \/ /\ \E path \in Generated, content \in {"edited", Absent} :
             generated' = [generated EXCEPT ![path] = content]
        /\ UNCHANGED <<ignore, lockFile, backups>>
     \/ /\ lockFile' = FALSE
        /\ backups' = FALSE
        /\ UNCHANGED <<ignore, generated>>
  /\ last' = "user"
  /\ UNCHANGED pc

Next ==
  \/ \E p \in Process : InitValidates(p) \/ InitLocked(p) \/ Uninstall(p)
  \/ Edit

Spec == Init /\ [][Next]_vars

-----------------------------------------------------------------------------

\* An init that ends well leaves a complete installation, from whatever an
\* interrupted init or uninstall, a second init or the user left behind.
InitCompletes ==
  last = "init" =>
    /\ \A path \in Generated : generated[path] # Absent
    /\ RulesIn(ignore) \in {"plain", "current"}

\* What the user wrote survives every init and uninstall, interrupted ones
\* included: files edited since they were generated, and the user's lines of
\* .gitignore.
UserContentSurvives ==
  [][last' # "user" =>
       /\ \A path \in Generated :
            generated[path] = "edited" => generated'[path] = "edited"
       /\ UserIn(ignore) => UserIn(ignore')]_vars

\* The comment of _uninstall_plan: corrupt markers must fail without creating
\* the tool-owned .context directory or lock file.
UninstallValidatesFirst ==
  [][\A p \in Process : Uninstall(p) /\ Damaged => lockFile' = lockFile]_vars
=============================================================================
