------------------------- MODULE InstallationProofs -------------------------
(***************************************************************************)
(* Theorems about Installation, for any template files and any processes.  *)
(*                                                                         *)
(* Types are the whole invariant: an interrupted command leaves nothing    *)
(* behind that the next one relies on, since each plans again from the     *)
(* files it finds.                                                         *)
(***************************************************************************)
EXTENDS Installation, TLAPS

TypeOK ==
  /\ ignore \in IgnoreFile \cup {Absent}
  /\ generated \in [Generated -> {"template", "edited", Absent}]
  /\ lockFile \in BOOLEAN
  /\ backups \in BOOLEAN
  /\ pc \in [Process -> {"idle", "validated"}]
  /\ last \in {"user", "init", "uninstall", "failed"}

\* What init makes of .gitignore has the rules, and keeps the user's lines.
LEMMA ManagedFile ==
  ASSUME NEW file \in IgnoreFile \cup {Absent}
  PROVE  /\ Managed(file) \in IgnoreFile
         /\ RulesIn(Managed(file)) \in {"plain", "current"}
         /\ UserIn(file) => UserIn(Managed(file))
<1>1. CASE RulesIn(file) = "plain"
  <2>1. file # Absent
    BY <1>1 DEF RulesIn
  <2> QED
    BY <1>1, <2>1 DEF Managed
<1>2. CASE RulesIn(file) # "plain"
  <2>1. UserIn(file) \in BOOLEAN
    BY DEF UserIn, IgnoreFile
  <2>2. Managed(file) = [user |-> UserIn(file), rules |-> "current"]
    BY <1>2 DEF Managed
  <2>3. Managed(file) \in IgnoreFile
    BY <2>1, <2>2 DEF IgnoreFile, Rules
  <2>4. Managed(file) # Absent
    BY <2>3, AbsentAssumption
  <2>5. Managed(file).rules = "current" /\ Managed(file).user = UserIn(file)
    BY <2>2
  <2>6. RulesIn(Managed(file)) = "current"
    BY <2>4, <2>5 DEF RulesIn
  <2>7. UserIn(file) => Managed(file).user
    BY <2>5
  <2>8. UserIn(file) => UserIn(Managed(file))
    BY <2>4, <2>7 DEF UserIn
  <2> QED
    BY <2>3, <2>6, <2>8
<1> QED
  BY <1>1, <1>2

\* What uninstall makes of it keeps them, too.
LEMMA StrippedFile ==
  ASSUME NEW file \in IgnoreFile \cup {Absent}
  PROVE  /\ Stripped(file) \in IgnoreFile \cup {Absent}
         /\ UserIn(file) => UserIn(Stripped(file))
<1>1. CASE UserIn(file)
  <2>1. /\ file \in IgnoreFile /\ file.user
        /\ Stripped(file) = [file EXCEPT !.rules = "none"]
    BY <1>1 DEF UserIn, Stripped
  <2>2. Stripped(file) \in IgnoreFile /\ Stripped(file).user
    BY <2>1 DEF IgnoreFile, Rules
  <2> QED
    BY <2>2, AbsentAssumption DEF UserIn
<1>2. CASE ~UserIn(file)
  BY <1>2 DEF Stripped
<1> QED
  BY <1>1, <1>2

\* A plan that lands, in whole or in part, touches what it names and nothing else.
LEMMA Landed ==
  ASSUME TypeOK, NEW plan, NEW command \in {"init", "uninstall"},
         NEW file \in IgnoreFile \cup {Absent}, NEW content \in {"template", Absent},
         Land(plan, command, file, content)
  PROVE  /\ ignore' \in {ignore, file}
         /\ generated' \in [Generated -> {"template", "edited", Absent}]
         /\ backups' \in BOOLEAN
         /\ last' \in {command, "failed"}
         /\ \A path \in Generated \ plan : generated'[path] = generated[path]
         /\ last' = command =>
              /\ ignore' = IF Ignore \in plan THEN file ELSE ignore
              /\ \A path \in Generated \cap plan : generated'[path] = content
<1>1. PICK landed \in SUBSET plan, saved \in BOOLEAN :
        /\ ignore' = IF Ignore \in landed THEN file ELSE ignore
        /\ generated' = [path \in Generated |->
                           IF path \in landed THEN content ELSE generated[path]]
        /\ backups' = (backups \/ saved)
        /\ last' = IF landed = plan THEN command ELSE "failed"
  BY DEF Land
<1>2. generated' \in [Generated -> {"template", "edited", Absent}]
  BY <1>1 DEF TypeOK
<1>3. backups' \in BOOLEAN
  BY <1>1 DEF TypeOK
<1>4. last' = command => landed = plan
  BY <1>1
<1>5. \A path \in Generated \ plan : generated'[path] = generated[path]
  BY <1>1
<1>6. last' = command => \A path \in Generated \cap plan : generated'[path] = content
  BY <1>1, <1>4
<1> QED
  BY <1>1, <1>2, <1>3, <1>4, <1>5, <1>6

\* What a command that finds no damage does.
LEMMA InitLands ==
  ASSUME TypeOK, NEW p \in Process, InitLocked(p), ~Damaged
  PROVE  Land(InitPlan, "init", Managed(ignore), "template")
BY DEF InitLocked

LEMMA UninstallLands ==
  ASSUME TypeOK, NEW p \in Process, Uninstall(p), ~Damaged
  PROVE  \E private \in BOOLEAN :
           Land(UninstallPlan(private), "uninstall", Stripped(ignore), Absent)
<1>1. (backups \/ lockFile') \in BOOLEAN
  BY DEF Uninstall, TypeOK
<1> QED
  BY <1>1 DEF Uninstall

LEMMA TypeStep == TypeOK /\ [Next]_vars => TypeOK'
<1> SUFFICES ASSUME TypeOK, [Next]_vars
             PROVE  TypeOK'
  OBVIOUS
<1>1. ASSUME NEW p \in Process, InitValidates(p)
      PROVE  TypeOK'
  BY <1>1 DEF TypeOK, InitValidates
<1>2. ASSUME NEW p \in Process, InitLocked(p)
      PROVE  TypeOK'
  <2>1. lockFile' \in BOOLEAN /\ pc' \in [Process -> {"idle", "validated"}]
    BY <1>2 DEF InitLocked, TypeOK
  <2>2. CASE Damaged
    BY <1>2, <2>1, <2>2 DEF InitLocked, TypeOK
  <2>3. CASE ~Damaged
    <3>1. Managed(ignore) \in IgnoreFile
      BY ManagedFile DEF TypeOK
    <3> QED
      BY <1>2, <2>1, <2>3, <3>1, InitLands, Landed DEF TypeOK
  <2> QED
    BY <2>2, <2>3
<1>3. ASSUME NEW p \in Process, Uninstall(p)
      PROVE  TypeOK'
  <2>1. lockFile' \in BOOLEAN /\ pc' \in [Process -> {"idle", "validated"}]
    BY <1>3 DEF Uninstall, TypeOK
  <2>2. CASE Damaged
    BY <1>3, <2>1, <2>2 DEF Uninstall, TypeOK
  <2>3. CASE ~Damaged
    <3>1. Stripped(ignore) \in IgnoreFile \cup {Absent}
      BY StrippedFile DEF TypeOK
    <3> QED
      BY <1>3, <2>1, <2>3, <3>1, UninstallLands, Landed DEF TypeOK
  <2> QED
    BY <2>2, <2>3
<1>4. CASE Edit
  BY <1>4 DEF Edit, TypeOK
<1>5. CASE UNCHANGED vars
  BY <1>5 DEF vars, TypeOK
<1> QED
  BY <1>1, <1>2, <1>3, <1>4, <1>5 DEF Next

LEMMA InitType == Init => TypeOK
BY DEF Init, TypeOK

\* Types of the files, and of where each process is.
THEOREM TypeCorrect == Spec => []TypeOK
BY InitType, TypeStep, PTL DEF Spec

\* An init that ends well leaves a complete installation, whatever it found
\* (InitCompletes).
THEOREM InitIsComplete == Spec => []InitCompletes
<1>1. Init => InitCompletes
  BY DEF Init, InitCompletes
<1>2. TypeOK /\ InitCompletes /\ [Next]_vars => InitCompletes'
  <2> SUFFICES ASSUME TypeOK, InitCompletes, [Next]_vars, last' = "init"
               PROVE  /\ \A path \in Generated : generated'[path] # Absent
                      /\ RulesIn(ignore') \in {"plain", "current"}
    BY DEF InitCompletes, RulesIn
  <2>1. ASSUME NEW p \in Process, InitValidates(p)
        PROVE  /\ \A path \in Generated : generated'[path] # Absent
               /\ RulesIn(ignore') \in {"plain", "current"}
    BY <2>1 DEF InitValidates, InitCompletes
  <2>2. ASSUME NEW p \in Process, InitLocked(p)
        PROVE  /\ \A path \in Generated : generated'[path] # Absent
               /\ RulesIn(ignore') \in {"plain", "current"}
    <3>1. ~Damaged
      BY <2>2 DEF InitLocked
    <3>2. /\ Managed(ignore) \in IgnoreFile
          /\ RulesIn(Managed(ignore)) \in {"plain", "current"}
      BY ManagedFile DEF TypeOK
    <3>3. /\ \A path \in Generated \ InitPlan : generated'[path] = generated[path]
          /\ ignore' = IF Ignore \in InitPlan THEN Managed(ignore) ELSE ignore
          /\ \A path \in Generated \cap InitPlan : generated'[path] = "template"
      BY <2>2, <3>1, <3>2, InitLands, Landed
    <3>4. Ignore \in InitPlan <=> Managed(ignore) # ignore
      BY GeneratedAssumption DEF InitPlan
    <3>5. ignore' = Managed(ignore)
      BY <3>3, <3>4
    <3>6. ASSUME NEW path \in Generated
          PROVE  generated'[path] # Absent
      <4>1. CASE generated[path] = Absent
        BY <3>3, <4>1, AbsentAssumption DEF InitPlan
      <4>2. CASE generated[path] # Absent /\ path \notin InitPlan
        BY <3>3, <4>2
      <4>3. CASE path \in InitPlan
        BY <3>3, <4>3, AbsentAssumption
      <4> QED
        BY <4>1, <4>2, <4>3
    <3> QED
      BY <3>2, <3>5, <3>6
  <2>3. ASSUME NEW p \in Process, Uninstall(p)
        PROVE  FALSE
    <3>1. CASE Damaged
      BY <2>3, <3>1 DEF Uninstall
    <3>2. CASE ~Damaged
      <4>1. Stripped(ignore) \in IgnoreFile \cup {Absent}
        BY StrippedFile DEF TypeOK
      <4> QED
        BY <2>3, <3>2, <4>1, UninstallLands, Landed
    <3> QED
      BY <3>1, <3>2
  <2>4. CASE Edit
    BY <2>4 DEF Edit
  <2>5. CASE UNCHANGED vars
    BY <2>5 DEF vars, InitCompletes
  <2> QED
    BY <2>1, <2>2, <2>3, <2>4, <2>5 DEF Next
<1> QED
  BY <1>1, <1>2, TypeCorrect, PTL DEF Spec

\* No init and no uninstall, finished or interrupted, changes a template file the
\* user edited or removes the user's lines of .gitignore (UserContentSurvives).
THEOREM UserContentIsKept == Spec => UserContentSurvives
<1> DEFINE Kept == /\ \A path \in Generated :
                        generated[path] = "edited" => generated'[path] = "edited"
                   /\ UserIn(ignore) => UserIn(ignore')
<1>1. TypeOK /\ [Next]_vars => [last' # "user" => Kept]_vars
  <2> SUFFICES ASSUME TypeOK, Next, last' # "user"
               PROVE  Kept
    OBVIOUS
  <2>1. ASSUME NEW p \in Process, InitValidates(p)
        PROVE  Kept
    BY <2>1 DEF InitValidates
  <2>2. ASSUME NEW p \in Process, InitLocked(p)
        PROVE  Kept
    <3>1. CASE Damaged
      BY <2>2, <3>1 DEF InitLocked
    <3>2. CASE ~Damaged
      <4>1. /\ Managed(ignore) \in IgnoreFile
            /\ UserIn(ignore) => UserIn(Managed(ignore))
        BY ManagedFile DEF TypeOK
      <4>2. /\ ignore' \in {ignore, Managed(ignore)}
            /\ \A path \in Generated \ InitPlan : generated'[path] = generated[path]
        BY <2>2, <3>2, <4>1, InitLands, Landed
      <4>3. \A path \in Generated : generated[path] = "edited" => path \notin InitPlan
        BY AbsentAssumption, GeneratedAssumption DEF InitPlan
      <4> QED
        BY <4>1, <4>2, <4>3
    <3> QED
      BY <3>1, <3>2
  <2>3. ASSUME NEW p \in Process, Uninstall(p)
        PROVE  Kept
    <3>1. CASE Damaged
      BY <2>3, <3>1 DEF Uninstall
    <3>2. CASE ~Damaged
      <4>1. /\ Stripped(ignore) \in IgnoreFile \cup {Absent}
            /\ UserIn(ignore) => UserIn(Stripped(ignore))
        BY StrippedFile DEF TypeOK
      <4>2. PICK private \in BOOLEAN :
              Land(UninstallPlan(private), "uninstall", Stripped(ignore), Absent)
        BY <2>3, <3>2, UninstallLands
      <4>3. /\ ignore' \in {ignore, Stripped(ignore)}
            /\ \A path \in Generated \ UninstallPlan(private) :
                 generated'[path] = generated[path]
        BY <4>1, <4>2, Landed
      <4>4. \A path \in Generated :
              generated[path] = "edited" => path \notin UninstallPlan(private)
        BY GeneratedAssumption DEF UninstallPlan
      <4> QED
        BY <4>1, <4>3, <4>4
    <3> QED
      BY <3>1, <3>2
  <2>4. CASE Edit
    BY <2>4 DEF Edit
  <2> QED
    BY <2>1, <2>2, <2>3, <2>4 DEF Next
<1> QED
  BY <1>1, TypeCorrect, PTL DEF Spec, UserContentSurvives
=============================================================================
