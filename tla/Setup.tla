-------------------------------- MODULE Setup --------------------------------
(***************************************************************************)
(* lacon init and lacon doctor (commands/init.rs, commands/doctor.rs):     *)
(* processes that install the hook, the instructions and the import of a   *)
(* scope, a doctor that reads what is there, and a user who edits the same *)
(* files, all at once.  settings.json is replaced by a rename; LACON.md    *)
(* and CLAUDE.md are truncated and written, and an init may stop anywhere. *)
(***************************************************************************)
EXTENDS SequencesExt, Integers

CONSTANTS
    Inits,          \* processes that run lacon init
    Runs,           \* what each may be told: scope flags, terminal, answer
    Disks,          \* what the scopes may look like in the beginning
    Machines,       \* what the doctor's global checks may meet
    Lines,          \* the lines a CLAUDE.md may have
    NoFile,         \* a CLAUDE.md that is not there
    Commands,       \* the commands a hook may run
    Malformed,      \* a group's hooks that are no array
    MaxMishaps      \* bound: edits by the user, inits that stop half way

Scopes == {"project", "user"}

\* What the text of a settings.json is; "no array" is an object whose
\* PreToolUse is something else than an array.
Kinds == {"absent", "garbage", "no object", "no array", "object"}

ASSUME InitsAssumption == IsFiniteSet(Inits)
ASSUME MishapsAssumption == MaxMishaps \in Nat
ASSUME RunsAssumption == \A p \in Inits: \A run \in Runs[p]: run.flags \subseteq Scopes
ASSUME LinesAssumption ==
    {"blank", "import", "new"} \subseteq Lines /\ NoFile \notin Seq(Lines)
ASSUME CommandsAssumption ==
    {"lacon", "own"} \subseteq Commands /\ Malformed \notin Seq(Commands)

\* A group of PreToolUse: whether it is for Bash, and the commands it runs.
Group == [bash: BOOLEAN, hooks: Seq(Commands) \cup {Malformed}]
Settings == [kind: Kinds, pretool: Seq(Group)]

ASSUME DisksAssumption ==
    Disks \subseteq [Scopes -> [settings: Settings,
                               lacon_md: {"absent", "empty", "body"},
                               claude_md: Seq(Lines) \cup {NoFile},
                               rules: BOOLEAN]]

VARIABLES
    disk,           \* scope -> [settings, lacon_md, claude_md, rules]
    init,           \* process -> the progress of its lacon init
    doctor,         \* the progress of the doctor
    mishaps,        \* edits and stops so far
    mine,           \* history: scope -> what the user last put into the files
    lost,           \* history: scope -> files where somebody got in between
    whole           \* history: scope -> "whole" once an init has completed it
                    \* and nobody edited it or stopped there since

vars == <<disk, init, doctor, mishaps, mine, lost, whole>>

-----------------------------------------------------------------------------
(***************************************************************************)
(* The files.  Of a settings.json its kind and its PreToolUse array count; *)
(* a group has a matcher and commands; "lacon" stands for every command    *)
(* that starts with lacon-claude-hook.  CLAUDE.md is its lines; "import"   *)
(* stands for the scope's token, whatever blanks follow it.                *)
(*****************************************************************************)
IsObject(settings) == settings.kind \in {"object", "no array"}
Groups(settings) == IF settings.kind = "object" THEN settings.pretool ELSE <<>>

LaconGroup == [bash |-> TRUE, hooks |-> <<"lacon">>]

\* Vec::retain.
Retained(seq, Test(_)) ==
    FoldLeft(LAMBDA kept, e: IF Test(e) THEN Append(kept, e) ELSE kept, <<>>, seq)

WithoutLacon(group) ==
    IF group.bash /\ group.hooks # Malformed
    THEN [group EXCEPT !.hooks = Retained(@, LAMBDA h: h # "lacon")]
    ELSE group

IsTidy(group) == group.bash => group.hooks \notin {<<>>, Malformed}

\* Mutant: only a canonical group is recognised as lacon's own.
InstallLaconHookNoScrub(settings) ==
    LET groups == Groups(settings)
    IN  [kind |-> "object", pretool |-> Append(Retained(groups, IsTidy), LaconGroup)]

\* Mutant: a group with lacon's hook in it goes as a whole.
InstallLaconHookByGroup(settings) ==
    LET groups == Groups(settings)
        Keep(g) == ~(g.bash /\ g.hooks # Malformed /\ Contains(g.hooks, "lacon"))
    IN  [kind |-> "object", pretool |-> Append(Retained(groups, Keep), LaconGroup)]

\* Mutant: the groups that the scrub has emptied stay.
InstallLaconHookUntidy(settings) ==
    LET groups == Groups(settings)
        scrubbed == [i \in DOMAIN groups |-> WithoutLacon(groups[i])]
    IN  [kind |-> "object", pretool |-> Append(scrubbed, LaconGroup)]

\* Scrub, clean up, insert; what is not an array is replaced.
InstallLaconHook(settings) ==
    LET groups == Groups(settings)
        scrubbed == [i \in DOMAIN groups |-> WithoutLacon(groups[i])]
    IN  [kind |-> "object",
         pretool |-> Append(Retained(scrubbed, IsTidy), LaconGroup)]

InstallReferenceLine(existing) ==
    IF Contains(existing, "import") THEN existing
    ELSE IF existing = <<>> THEN <<"import">>
    ELSE existing \o <<"blank", "import">>

\* What a write at the start of a file leaves of what was written since the
\* truncation.
Overlay(new, old) == new \o SubSeq(old, Len(new) + 1, Len(old))

\* Where a command stands among the hooks for Bash: its group and its place.
PlacesOf(command, settings) ==
    LET groups == Groups(settings)
    IN  UNION {{<<i, j>> : j \in {j \in DOMAIN groups[i].hooks:
                                    groups[i].hooks[j] = command}} :
               i \in {i \in DOMAIN groups:
                        groups[i].bash /\ groups[i].hooks # Malformed}}

\* Mutant: only the first group is looked at.
SettingsHasHookFirst(settings) ==
    \E place \in PlacesOf("lacon", settings): place[1] = 1

SettingsHasHook(settings) ==
    \E i \in DOMAIN Groups(settings):
        /\ Groups(settings)[i].bash
        /\ Groups(settings)[i].hooks # Malformed
        /\ "lacon" \in Range(Groups(settings)[i].hooks)

-----------------------------------------------------------------------------
(***************************************************************************)
(* lacon init.                                                             *)
(***************************************************************************)
NotStarted ==
    [pc |-> "start", scopes |-> <<>>,
     settings |-> [kind |-> "absent", pretool |-> <<>>], claude_md |-> <<>>]

\* Project before user.
InOrder(scopes) == (IF "project" \in scopes THEN <<"project">> ELSE <<>>)
                     \o (IF "user" \in scopes THEN <<"user">> ELSE <<>>)

\* The scopes of a command line; none: no usable answer.
SelectScopes(run) ==
    IF run.flags # {} THEN InOrder(run.flags)
    ELSE IF ~run.terminal THEN <<"project">>
    ELSE CASE run.answer \in {"enter", "p"} -> <<"project">>
           [] run.answer = "u" -> <<"user">>
           [] run.answer = "b" -> <<"project", "user">>
           [] OTHER -> <<>>

Ended == {"start", "done", "failed", "killed"}
In(p, s) == init[p].pc \notin Ended /\ Head(init[p].scopes) = s
Active(s) == \E p \in Inits: In(p, s)
At(p, s, pc) == In(p, s) /\ init[p].pc = pc
Others(p) == Inits \ {p}

Enters(p, scopes, next) ==
    IF scopes = <<>> THEN [init[p] EXCEPT !.pc = next, !.scopes = <<>>]
    ELSE [NotStarted EXCEPT !.pc = "skeleton", !.scopes = scopes]

\* The doctor remembers which scopes nobody touched while it ran.
Touch(s) ==
    doctor' = [doctor EXCEPT !.still = @ \ {s}]

StartInit(p) ==
    /\ init[p].pc = "start"
    /\ \E run \in Runs[p]:
          init' = [init EXCEPT ![p] = Enters(p, SelectScopes(run), "failed")]
    /\ UNCHANGED <<disk, doctor, mishaps, mine, lost, whole>>

Skeleton(p, s) ==
    /\ At(p, s, "skeleton")
    /\ disk' = [disk EXCEPT ![s].rules = TRUE]
    /\ init' = [init EXCEPT ![p].pc = "read settings"]
    /\ whole' = IF whole[s] = "spoilt" /\ \A q \in Others(p):
                       In(q, s) => init[q].pc = "skeleton"
                THEN [whole EXCEPT ![s] = "in progress"] ELSE whole
    /\ Touch(s)
    /\ UNCHANGED <<mishaps, mine, lost>>

\* Mutant: only a text that is no JSON is refused.
ReadSettingsOfAnyKind(p, s) ==
    /\ At(p, s, "read settings")
    /\ LET text == disk[s].settings
       IN  init' = [init EXCEPT
              ![p].settings = IF text.kind = "absent"
                              THEN [kind |-> "object", pretool |-> <<>>] ELSE text,
              ![p].pc = IF text.kind = "garbage" THEN "failed"
                        ELSE "write settings"]
    /\ UNCHANGED <<disk, doctor, mishaps, mine, lost, whole>>

\* A missing file is an empty object; what is not an object is refused.
ReadSettings(p, s) ==
    /\ At(p, s, "read settings")
    /\ LET text == disk[s].settings
       IN  init' = [init EXCEPT
              ![p].settings = IF text.kind = "absent"
                              THEN [kind |-> "object", pretool |-> <<>>] ELSE text,
              ![p].pc = IF text.kind \in {"garbage", "no object"} THEN "failed"
                        ELSE "write settings"]
    /\ UNCHANGED <<disk, doctor, mishaps, mine, lost, whole>>

\* atomic_write_json: the rename is the only step others see.
WriteSettings(p, s) ==
    /\ At(p, s, "write settings")
    /\ disk' = [disk EXCEPT ![s].settings = InstallLaconHook(init[p].settings)]
    /\ init' = [init EXCEPT ![p].pc = "truncate LACON.md"]
    /\ Touch(s)
    /\ UNCHANGED <<mishaps, mine, lost, whole>>

TruncateLaconMd(p, s) ==
    /\ At(p, s, "truncate LACON.md")
    /\ disk' = [disk EXCEPT ![s].lacon_md = "empty"]
    /\ init' = [init EXCEPT ![p].pc = "fill LACON.md"]
    /\ Touch(s)
    /\ UNCHANGED <<mishaps, mine, lost, whole>>

FillLaconMd(p, s) ==
    /\ At(p, s, "fill LACON.md")
    /\ disk' = [disk EXCEPT ![s].lacon_md = "body"]
    /\ init' = [init EXCEPT ![p].pc = "read CLAUDE.md"]
    /\ Touch(s)
    /\ UNCHANGED <<mishaps, mine, lost, whole>>

\* Another init may have truncated the file and not yet written it.
ReadClaudeMd(p, s) ==
    /\ At(p, s, "read CLAUDE.md")
    /\ LET text == disk[s].claude_md
       IN  init' = [init EXCEPT
              ![p].claude_md = IF text = NoFile THEN <<>> ELSE text,
              ![p].pc = "truncate CLAUDE.md"]
    /\ lost' = IF \E q \in Others(p): At(q, s, "fill CLAUDE.md")
               THEN [lost EXCEPT ![s] = @ \cup {"CLAUDE.md"}] ELSE lost
    /\ UNCHANGED <<disk, doctor, mishaps, mine, whole>>

\* fs::write: the file is empty until the second step.
TruncateClaudeMd(p, s) ==
    /\ At(p, s, "truncate CLAUDE.md")
    /\ disk' = [disk EXCEPT ![s].claude_md = <<>>]
    /\ init' = [init EXCEPT ![p].pc = "fill CLAUDE.md"]
    /\ Touch(s)
    /\ UNCHANGED <<mishaps, mine, lost, whole>>

\* A scope is whole once its inits have all come through undisturbed.
FillClaudeMd(p, s) ==
    /\ At(p, s, "fill CLAUDE.md")
    /\ disk' = [disk EXCEPT ![s].claude_md =
                    Overlay(InstallReferenceLine(init[p].claude_md), @)]
    /\ init' = [init EXCEPT ![p] = Enters(p, Tail(init[p].scopes), "done")]
    /\ whole' = IF whole[s] = "in progress" /\ \A q \in Others(p): ~In(q, s)
                THEN [whole EXCEPT ![s] = "whole"] ELSE whole
    /\ Touch(s)
    /\ UNCHANGED <<mishaps, mine, lost>>

InitStep(p, s) ==
    \/ Skeleton(p, s) \/ ReadSettings(p, s) \/ WriteSettings(p, s)
    \/ TruncateLaconMd(p, s) \/ FillLaconMd(p, s)
    \/ ReadClaudeMd(p, s) \/ TruncateClaudeMd(p, s) \/ FillClaudeMd(p, s)

\* Mutant: a CLAUDE.md that cannot be read is taken for a missing one.
StopReadingOn(p, s) ==
    /\ In(p, s)
    /\ mishaps < MaxMishaps
    /\ mishaps' = mishaps + 1
    /\ init' = [init EXCEPT
            ![p].pc = IF @ = "read CLAUDE.md" THEN "truncate CLAUDE.md"
                      ELSE "failed",
            ![p].claude_md = <<>>]
    /\ lost' = IF init[p].pc = "fill CLAUDE.md"
               THEN [lost EXCEPT ![s] = @ \cup {"CLAUDE.md"}] ELSE lost
    /\ whole' = [whole EXCEPT ![s] = "spoilt"]
    /\ UNCHANGED <<disk, doctor, mine>>

\* An I/O error ends the init with 1, the scopes after this one untouched; a
\* signal ends it without a word.  What it has written stays.
Stop(p, s) ==
    /\ In(p, s)
    /\ mishaps < MaxMishaps
    /\ mishaps' = mishaps + 1
    /\ \E end \in {"failed", "killed"}: init' = [init EXCEPT ![p].pc = end]
    /\ lost' = IF init[p].pc = "fill CLAUDE.md"
               THEN [lost EXCEPT ![s] = @ \cup {"CLAUDE.md"}] ELSE lost
    /\ whole' = [whole EXCEPT ![s] = "spoilt"]
    /\ UNCHANGED <<disk, doctor, mine>>
-----------------------------------------------------------------------------
(***************************************************************************)
(* The user.                                                               *)
(***************************************************************************)
Foreign(settings) ==
    UNION {IF g.hooks # Malformed THEN Range(g.hooks) \ {"lacon"} ELSE {} :
           g \in Range(Groups(settings))}

OwnLines(text) == IF text = NoFile THEN {} ELSE Range(text) \ {"import", "blank"}

\* What the user may make of a settings file: a hook more, no hook of
\* lacon's, or a text that is no JSON for now.
Saves(settings) ==
    LET groups == Groups(settings)
    IN  {[kind |-> "garbage", pretool |-> <<>>],
         [kind |-> "object",
          pretool |-> Append(groups, [bash |-> TRUE, hooks |-> <<"own">>])],
         [kind |-> "object",
          pretool |-> [i \in DOMAIN groups |-> WithoutLacon(groups[i])]]}

EditSettings(s) ==
    /\ \E new \in Saves(disk[s].settings):
          /\ disk' = [disk EXCEPT ![s].settings = new]
          /\ mine' = [mine EXCEPT ![s].hooks = Foreign(new)]
    /\ lost' = IF \E p \in Inits: At(p, s, "write settings")
               THEN [lost EXCEPT ![s] = @ \cup {"settings.json"}] ELSE lost

EditClaudeMd(s) ==
    LET text == IF disk[s].claude_md = NoFile THEN <<>> ELSE disk[s].claude_md
        Imports == {i \in DOMAIN text: text[i] = "import"}
    IN  /\ \E new \in {Append(text, "new")} \cup {RemoveAt(text, i) : i \in Imports}:
              /\ disk' = [disk EXCEPT ![s].claude_md = new]
              /\ mine' = [mine EXCEPT ![s].lines = OwnLines(new)]
        /\ lost' = IF \E p \in Inits: \/ At(p, s, "truncate CLAUDE.md")
                                      \/ At(p, s, "fill CLAUDE.md")
                   THEN [lost EXCEPT ![s] = @ \cup {"CLAUDE.md"}] ELSE lost

Edit(s) ==
    /\ mishaps < MaxMishaps
    /\ mishaps' = mishaps + 1
    /\ EditSettings(s) \/ EditClaudeMd(s)
    /\ whole' = [whole EXCEPT ![s] = "spoilt"]
    /\ Touch(s)
    /\ UNCHANGED init

-----------------------------------------------------------------------------
(***************************************************************************)
(* lacon doctor.                                                           *)
(***************************************************************************)
DoctorUnchanged == UNCHANGED <<disk, init, mishaps, mine, lost, whole>>

Target == Head(doctor.left)

\* The doctor goes on with the scopes left, then with the machine.
Onward(d, left) ==
    [d EXCEPT !.left = left, !.pc = IF left = <<>> THEN "machine" ELSE "hook"]

StartDoctor ==
    /\ doctor.pc = "start"
    /\ doctor' = [doctor EXCEPT !.pc = "probe", !.left = <<"project", "user">>,
                                !.still = {s \in Scopes: ~Active(s)}]
    /\ DoctorUnchanged

\* scope_hook_present: a text that is no JSON counts as not configured.
Probe ==
    /\ doctor.pc = "probe"
    /\ LET configured == doctor.configured \cup
                IF SettingsHasHook(disk[Target].settings) THEN {Target} ELSE {}
           probed == [doctor EXCEPT !.configured = configured,
                                    !.left = Tail(@)]
       IN  doctor' = IF Tail(doctor.left) # <<>> THEN probed
                     ELSE Onward(probed, InOrder(configured))
    /\ DoctorUnchanged

Finding(label, ok) == IF ok THEN {} ELSE {<<Target, label>>}

\* check_scope reads the file again, and returns when it is gone or broken.
CheckHook ==
    /\ doctor.pc = "hook"
    /\ LET text == disk[Target].settings
           after == [doctor EXCEPT
                        !.fails = @ \cup Finding("hook", SettingsHasHook(text))]
       IN  doctor' = IF text.kind \in {"absent", "garbage"}
                     THEN Onward(after, Tail(doctor.left))
                     ELSE [after EXCEPT !.pc = "instructions"]
    /\ DoctorUnchanged

CheckInstructions ==
    /\ doctor.pc = "instructions"
    /\ doctor' = [doctor EXCEPT
            !.fails = @ \cup Finding("instructions",
                                     disk[Target].lacon_md # "absent"),
            !.pc = "reference"]
    /\ DoctorUnchanged

\* Mutant: the last check of a scope decides.
CheckReferenceOnly ==
    /\ doctor.pc = "reference"
    /\ LET text == disk[Target].claude_md
           found == text # NoFile /\ "import" \in Range(text)
       IN  doctor' = [Onward(doctor, Tail(doctor.left)) EXCEPT
                        !.fails = Finding("reference", found)]
    /\ DoctorUnchanged

CheckReference ==
    /\ doctor.pc = "reference"
    /\ LET text == disk[Target].claude_md
           found == text # NoFile /\ "import" \in Range(text)
       IN  doctor' = [Onward(doctor, Tail(doctor.left)) EXCEPT
                        !.fails = @ \cup Finding("reference", found)]
    /\ DoctorUnchanged

\* Absent files are fine, a missing home for them is not.
CheckConfigs(m) == \A s \in Scopes: m.configs[s] # "invalid"
CheckRules(m) == m.rules
CheckDbPerms(m) == m.data /\ m.dir # "open"
CheckTracker(m) == m.data /\ m.db # "corrupt"

\* What these read no init writes: one step, on any machine.
CheckMachine ==
    /\ doctor.pc = "machine"
    /\ \E m \in Machines:
          LET failed == {l \in {"config", "rules", "db-perms", "tracker"}:
                            ~ CASE l = "config" -> CheckConfigs(m)
                                [] l = "rules" -> CheckRules(m)
                                [] l = "db-perms" -> CheckDbPerms(m)
                                [] l = "tracker" -> CheckTracker(m)}
          IN  doctor' = [doctor EXCEPT !.pc = "done",
                            !.fails = @ \cup {"machine"} \X failed]
    /\ DoctorUnchanged

DoctorStep ==
    \/ Probe \/ CheckHook \/ CheckInstructions \/ CheckReference
    \/ CheckMachine

-----------------------------------------------------------------------------
Init ==
    /\ disk \in Disks
    /\ init = [p \in Inits |-> NotStarted]
    /\ doctor = [pc |-> "start", left |-> <<>>, configured |-> {}, fails |-> {},
                 still |-> {}]
    /\ mishaps = 0
    /\ mine = [s \in Scopes |-> [hooks |-> Foreign(disk[s].settings),
                                 lines |-> OwnLines(disk[s].claude_md)]]
    /\ lost = [s \in Scopes |-> {}]
    /\ whole = [s \in Scopes |-> "spoilt"]

Over ==
    /\ \A p \in Inits: init[p].pc \in Ended \ {"start"}
    /\ doctor.pc = "done"
    /\ UNCHANGED vars

Next ==
    \/ \E p \in Inits: StartInit(p)
    \/ \E p \in Inits, s \in Scopes: InitStep(p, s) \/ Stop(p, s)
    \/ \E s \in Scopes: Edit(s)
    \/ StartDoctor \/ DoctorStep
    \/ Over

Spec == Init /\ [][Next]_vars

-----------------------------------------------------------------------------
(***************************************************************************)
(* Properties.                                                             *)
(***************************************************************************)
Pcs == Ended \cup {"skeleton", "read settings", "write settings",
                   "truncate LACON.md", "fill LACON.md", "read CLAUDE.md",
                   "truncate CLAUDE.md", "fill CLAUDE.md"}

SetupTypeOK ==
    /\ \A p \in Inits: /\ init[p].pc \in Pcs
                       /\ init[p].pc \notin Ended => init[p].scopes # <<>>
                       /\ Range(init[p].scopes) \subseteq Scopes
                       /\ init[p].pc = "write settings"
                            => IsObject(init[p].settings)
    /\ \A s \in Scopes: /\ disk[s].lacon_md \in {"absent", "empty", "body"}
                        /\ whole[s] \in {"spoilt", "in progress", "whole"}
    /\ doctor.configured \subseteq Scopes /\ doctor.still \subseteq Scopes
    /\ doctor.pc \in {"hook", "instructions", "reference"}
            => doctor.left # <<>>

\* However many inits ran, one after the other or at once, lacon's hook is
\* in the settings exactly once when they are through (init.rs:341).
OneHook ==
    \A s \in Scopes: whole[s] = "whole" =>
        Cardinality(PlacesOf("lacon", disk[s].settings)) = 1

\* No hook of the user's is lost, whatever group it is in, unless the user
\* saves the file between an init's read and its rename.
ForeignHooksKept ==
    \A s \in Scopes: "settings.json" \notin lost[s] =>
        mine[s].hooks \subseteq Foreign(disk[s].settings)

\* No line of the user's CLAUDE.md is lost, unless an init stops between the
\* truncation and the write, another reads the file just then, or the user
\* saves it between an init's read and its write.
OwnLinesKept ==
    \A s \in Scopes:
        \/ "CLAUDE.md" \in lost[s]
        \/ \E p \in Inits: At(p, s, "fill CLAUDE.md")
        \/ mine[s].lines \subseteq OwnLines(disk[s].claude_md)

\* Over a scope that is whole an init writes what is there (init.rs:344,
\* "byte-stable").
ReRunWritesTheSame ==
    \A s \in Scopes, p \in Inits: whole[s] = "whole" =>
        /\ At(p, s, "write settings") =>
              InstallLaconHook(init[p].settings) = disk[s].settings
        /\ At(p, s, "truncate CLAUDE.md") /\ lost[s] = {}
              /\ (\A q \in Others(p): ~At(q, s, "fill CLAUDE.md")) =>
                    InstallReferenceLine(init[p].claude_md) = disk[s].claude_md

\* What an init has completed and nobody has touched, the doctor finds
\* configured and complete, if nobody writes in that scope while it looks.
DoctorAcceptsInit ==
    doctor.pc = "done" => \A s \in doctor.still:
        whole[s] = "whole" =>
            /\ s \in doctor.configured
            /\ \A f \in doctor.fails: f[1] # s

\* A scope with the hook but without the instructions or the import, as an
\* init leaves it that stops half way, is never passed over (doctor.rs:44).
HalfInstalledIsReported ==
    doctor.pc = "done" => \A s \in doctor.still \cap doctor.configured:
        \/ /\ disk[s].lacon_md # "absent"
           /\ disk[s].claude_md # NoFile
           /\ "import" \in Range(disk[s].claude_md)
        \/ \E f \in doctor.fails: f[1] = s
=============================================================================
