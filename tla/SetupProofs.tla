----------------------------- MODULE SetupProofs -----------------------------
(***************************************************************************)
(* Proofs about Setup: what lacon init keeps and leaves behind, and what   *)
(* lacon doctor says of it, for any number of inits, any files and any     *)
(* number of mishaps.                                                      *)
(***************************************************************************)
EXTENDS Setup, FiniteSetTheorems, TLAPS

InitPcs == {"skeleton", "read settings", "write settings",
            "truncate LACON.md", "fill LACON.md", "read CLAUDE.md",
            "truncate CLAUDE.md", "fill CLAUDE.md"}
DoctorPcs == {"start", "probe", "hook", "instructions", "reference", "machine",
              "done"}
Files == {"settings.json", "CLAUDE.md"}
Labels == {"hook", "instructions", "reference", "config", "rules", "db-perms",
           "tracker"}
Findings == (Scopes \cup {"machine"}) \X Labels

Doctors == [pc: DoctorPcs, left: Seq(Scopes), configured: SUBSET Scopes,
            fails: SUBSET Findings, still: SUBSET Scopes]

InitOK(r) ==
    /\ DOMAIN r = {"pc", "scopes", "settings", "claude_md"}
    /\ r.settings \in Settings
    /\ r.pc \in Ended \cup InitPcs
    /\ r.scopes \in Seq(Scopes)
    /\ r.pc \notin Ended => r.scopes # <<>>
    /\ r.claude_md \in Seq(Lines)
    /\ r.pc = "write settings" => IsObject(r.settings)

DiskOK(r) ==
    /\ DOMAIN r = {"settings", "lacon_md", "claude_md", "rules"}
    /\ r.settings \in Settings
    /\ r.lacon_md \in {"absent", "empty", "body"}
    /\ r.claude_md \in Seq(Lines) \cup {NoFile}

DiskInv == DOMAIN disk = Scopes /\ \A s \in Scopes: DiskOK(disk[s])

InitInv == DOMAIN init = Inits /\ \A p \in Inits: InitOK(init[p])

DoctorInv ==
    /\ doctor \in Doctors
    /\ doctor.pc \in {"probe", "hook", "instructions", "reference"}
            => doctor.left # <<>>
    /\ doctor.pc \in {"machine", "done"} => doctor.left = <<>>

HistoryInv ==
    /\ mishaps \in Nat
    /\ DOMAIN mine = Scopes
    /\ \A s \in Scopes: DOMAIN mine[s] = {"hooks", "lines"}
    /\ lost \in [Scopes -> SUBSET Files]
    /\ whole \in [Scopes -> {"spoilt", "in progress", "whole"}]

TypeInv == DiskInv /\ InitInv /\ DoctorInv /\ HistoryInv

\* Nobody takes CLAUDE.md away between an init's truncation and its write.
FillInv ==
    \A p \in Inits, s \in Scopes:
        At(p, s, "fill CLAUDE.md") => disk[s].claude_md # NoFile

-----------------------------------------------------------------------------
LEMMA InOrderType ==
    ASSUME NEW S \in SUBSET Scopes
    PROVE  /\ InOrder(S) \in Seq(Scopes)
           /\ Range(InOrder(S)) = S
<1>1. CASE S = {}
  BY <1>1 DEF InOrder, Range
<1>2. CASE S = {"project"}
  BY <1>2 DEF InOrder, Range, Scopes
<1>3. CASE S = {"user"}
  BY <1>3 DEF InOrder, Range, Scopes
<1>4. CASE S = Scopes
  BY <1>4 DEF InOrder, Range, Scopes
<1>5. QED
  BY <1>1, <1>2, <1>3, <1>4 DEF Scopes

LEMMA RangeTail ==
    ASSUME NEW S, NEW l \in Seq(S), l # <<>>
    PROVE  /\ Head(l) \in S
           /\ Tail(l) \in Seq(S)
           /\ Range(l) = {Head(l)} \cup Range(Tail(l))
<1>1. Head(l) \in S /\ Tail(l) \in Seq(S) /\ Len(l) \in Nat \ {0}
  OBVIOUS
<1>2. ASSUME NEW i \in 1 .. Len(l), i # 1
      PROVE  i - 1 \in DOMAIN Tail(l) /\ Tail(l)[i - 1] = l[i]
  BY <1>1, <1>2
<1>3. ASSUME NEW i \in DOMAIN Tail(l)
      PROVE  i + 1 \in DOMAIN l /\ Tail(l)[i] = l[i + 1]
  BY <1>1
<1>4. ASSUME NEW i \in DOMAIN l
      PROVE  l[i] \in {Head(l)} \cup Range(Tail(l))
  <2>1. CASE i = 1
    BY <2>1
  <2>2. CASE i # 1
    <3>1. i \in 1 .. Len(l)
      OBVIOUS
    <3>2. i - 1 \in DOMAIN Tail(l) /\ Tail(l)[i - 1] = l[i]
      BY <1>2, <2>2, <3>1
    <3>3. QED
      BY <3>2 DEF Range
  <2>3. QED
    BY <2>1, <2>2
<1>5. {Head(l)} \cup Range(Tail(l)) \subseteq Range(l)
  BY <1>1, <1>3 DEF Range
<1>6. QED
  BY <1>1, <1>4, <1>5 DEF Range

LEMMA RangeConcat ==
    ASSUME NEW S, NEW a \in Seq(S), NEW b \in Seq(S)
    PROVE  /\ a \o b \in Seq(S)
           /\ Range(a \o b) = Range(a) \cup Range(b)
<1>1. a \o b \in Seq(S)
  OBVIOUS
<1>2. Range(a \o b) \subseteq Range(a) \cup Range(b)
  BY DEF Range
<1>3. ASSUME NEW i \in DOMAIN a PROVE a[i] \in Range(a \o b)
  BY DEF Range
<1>4. ASSUME NEW i \in DOMAIN b PROVE b[i] \in Range(a \o b)
  <2>1. Len(a) + i \in DOMAIN (a \o b) /\ (a \o b)[Len(a) + i] = b[i]
    OBVIOUS
  <2>2. QED
    BY <2>1 DEF Range
<1>5. QED
  BY <1>1, <1>2, <1>3, <1>4 DEF Range

LEMMA EmptyInSeq ==
    ASSUME NEW S
    PROVE  <<>> \in Seq(S) /\ Range(<<>>) = {}
BY DEF Range

LEMMA TuplesInSeq ==
    ASSUME NEW S, NEW a \in S, NEW b \in S
    PROVE  <<a>> \in Seq(S) /\ <<a, b>> \in Seq(S)
OBVIOUS

\* The import is there afterwards and no line is lost (init.rs:417).
LEMMA ReferenceLineInstalled ==
    ASSUME NEW text \in Seq(Lines)
    PROVE  /\ InstallReferenceLine(text) \in Seq(Lines)
           /\ Range(text) \subseteq Range(InstallReferenceLine(text))
           /\ "import" \in Range(InstallReferenceLine(text))
<1> DEFINE one == <<"import">>
           two == <<"blank", "import">>
<1>0. "blank" \in Lines /\ "import" \in Lines
  BY LinesAssumption DEF LinesAssumption
<1>1. one \in Seq(Lines) /\ 1 \in DOMAIN one /\ one[1] = "import"
  BY <1>0, TuplesInSeq
<1>2. two \in Seq(Lines) /\ 2 \in DOMAIN two /\ two[2] = "import"
  BY <1>0, TuplesInSeq
<1>3. "import" \in Range(one) /\ "import" \in Range(two)
  BY <1>1, <1>2 DEF Range
<1> HIDE DEF one, two
<1>4. CASE Contains(text, "import")
  <2>1. InstallReferenceLine(text) = text
    BY <1>4 DEF InstallReferenceLine
  <2>2. PICK i \in 1 .. Len(text): text[i] = "import"
    BY <1>4 DEF Contains
  <2>3. i \in DOMAIN text
    OBVIOUS
  <2>4. QED
    BY <2>1, <2>2, <2>3 DEF Range
<1>5. CASE ~Contains(text, "import") /\ text = <<>>
  <2>1. InstallReferenceLine(text) = one /\ Range(text) = {}
    BY <1>5 DEF InstallReferenceLine, Range, one
  <2>2. QED
    BY <1>1, <1>3, <2>1
<1>6. CASE ~Contains(text, "import") /\ text # <<>>
  <2>1. InstallReferenceLine(text) = text \o two
    BY <1>6 DEF InstallReferenceLine, two
  <2>2. QED
    BY <1>2, <1>3, <2>1, RangeConcat
<1>7. QED
  BY <1>4, <1>5, <1>6

\* What is written stays whole over whatever is beneath.
LEMMA OverlayKeeps ==
    ASSUME NEW new \in Seq(Lines), NEW old \in Seq(Lines)
    PROVE  /\ Overlay(new, old) \in Seq(Lines)
           /\ Range(new) \subseteq Range(Overlay(new, old))
<1> DEFINE rest == SubSeq(old, Len(new) + 1, Len(old))
<1>1. rest \in Seq(Lines)
  <2>1. CASE Len(new) < Len(old)
    BY <2>1
  <2>2. CASE Len(new) >= Len(old)
    <3>1. rest = <<>>
      BY <2>2
    <3>2. QED
      BY <3>1
  <2>3. QED
    BY <2>1, <2>2
<1> HIDE DEF rest
<1>2. new \o rest \in Seq(Lines)
      /\ Range(new \o rest) = Range(new) \cup Range(rest)
  BY <1>1, RangeConcat
<1>3. QED
  BY <1>2 DEF Overlay, rest

LEMMA AppendLast ==
    ASSUME NEW s, NEW e
    PROVE  \E i \in DOMAIN Append(s, e): Append(s, e)[i] = e
OBVIOUS

-----------------------------------------------------------------------------
(***************************************************************************)
(* The settings.  What lacon init writes is canonical: groups without      *)
(* lacon's hook and none of them empty, then lacon's own.  Writing it      *)
(* keeps every other hook, and writing it over itself changes nothing.     *)
(***************************************************************************)
KeepForeign(kept, h) == IF h # "lacon" THEN Append(kept, h) ELSE kept
KeepTidy(kept, g) == IF IsTidy(g) THEN Append(kept, g) ELSE kept

HookFold == INSTANCE Folding WITH Op <- KeepForeign
GroupFold == INSTANCE Folding WITH Op <- KeepTidy

\* The two retains of install_lacon_hook.
ForeignHooks(hooks) == Retained(hooks, LAMBDA h: h # "lacon")
Tidied(groups) == Retained(groups, IsTidy)

ForeignCommands == Commands \ {"lacon"}

\* What the scrub leaves of a group, and what the cleanup leaves of those.
Scrubbed == {g \in Group: g.bash /\ g.hooks # Malformed => g.hooks \in Seq(ForeignCommands)}
Clean == {g \in Scrubbed: IsTidy(g)}

LEMMA HooksAreFold == \A hooks: ForeignHooks(hooks) = HookFold!Fold(<<>>, hooks)
BY DEF ForeignHooks, Retained, HookFold!Fold, HookFold!IsIter, FoldLeft,
       MapThenFoldSet, Max, HookFold!Max, KeepForeign

LEMMA GroupsAreFold == \A groups: Tidied(groups) = GroupFold!Fold(<<>>, groups)
BY DEF Tidied, Retained, GroupFold!Fold, GroupFold!IsIter, FoldLeft,
       MapThenFoldSet, Max, GroupFold!Max, KeepTidy

LEMMA RangeAppend ==
    ASSUME NEW S, NEW a \in Seq(S), NEW e
    PROVE  Range(Append(a, e)) = Range(a) \cup {e}
<1>1. /\ DOMAIN Append(a, e) = 1 .. Len(a) + 1 /\ DOMAIN a = 1 .. Len(a)
      /\ \A i \in 1 .. Len(a): Append(a, e)[i] = a[i]
      /\ Append(a, e)[Len(a) + 1] = e /\ Len(a) \in Nat
  OBVIOUS
<1>2. Range(Append(a, e)) \subseteq Range(a) \cup {e}
  <2>1. ASSUME NEW i \in 1 .. Len(a) + 1 PROVE Append(a, e)[i] \in Range(a) \cup {e}
    <3>1. CASE i = Len(a) + 1
      BY <1>1, <3>1
    <3>2. CASE i # Len(a) + 1
      BY <1>1, <3>2 DEF Range
    <3>3. QED
      BY <3>1, <3>2
  <2>2. QED
    BY <1>1, <2>1 DEF Range
<1>3. e \in Range(Append(a, e))
  BY <1>1 DEF Range
<1>4. Range(a) \subseteq Range(Append(a, e))
  BY <1>1 DEF Range
<1>5. QED
  BY <1>2, <1>3, <1>4

\* The scrub of one group's hooks: lacon's go, all others stay, and a second
\* scrub changes nothing.
LEMMA ForeignHooksKeeps ==
    ASSUME NEW hooks \in Seq(Commands)
    PROVE  /\ ForeignHooks(hooks) \in Seq(ForeignCommands)
           /\ Range(ForeignHooks(hooks)) = Range(hooks) \ {"lacon"}
           /\ hooks \in Seq(ForeignCommands) => ForeignHooks(hooks) = hooks
<1> DEFINE Good(s) == /\ ForeignHooks(s) \in Seq(ForeignCommands)
                      /\ Range(ForeignHooks(s)) = Range(s) \ {"lacon"}
                      /\ "lacon" \notin Range(s) => ForeignHooks(s) = s
           T == {s \in Seq(Commands): Good(s)}
<1>1. <<>> \in T
  <2>1. ForeignHooks(<<>>) = <<>>
    BY HooksAreFold, HookFold!FoldEmpty
  <2>2. <<>> \in Seq(Commands) /\ <<>> \in Seq(ForeignCommands) /\ Range(<<>>) = {}
    BY DEF Range
  <2>3. QED
    BY <2>1, <2>2
<1>2. ASSUME NEW s \in T, NEW h \in Commands PROVE Append(s, h) \in T
  <2>1. s \in Seq(Commands) /\ Good(s)
    OBVIOUS
  <2> DEFINE kept == ForeignHooks(s)
  <2>2. ForeignHooks(Append(s, h)) = KeepForeign(kept, h)
    BY <2>1, HooksAreFold, HookFold!FoldAppend
  <2>3. /\ Append(s, h) \in Seq(Commands)
        /\ Range(Append(s, h)) = Range(s) \cup {h}
    BY <2>1, RangeAppend
  <2>4. kept \in Seq(ForeignCommands) /\ Range(kept) = Range(s) \ {"lacon"}
        /\ ("lacon" \notin Range(s) => kept = s)
    BY <2>1
  <2> HIDE DEF kept, Good
  <2>5. CASE h = "lacon"
    <3>1. ForeignHooks(Append(s, h)) = kept
      BY <2>2, <2>5 DEF KeepForeign
    <3>2. QED
      BY <2>3, <2>4, <2>5, <3>1 DEF Good
  <2>6. CASE h # "lacon"
    <3>1. ForeignHooks(Append(s, h)) = Append(kept, h)
      BY <2>2, <2>6 DEF KeepForeign
    <3>2. Append(kept, h) \in Seq(ForeignCommands)
          /\ Range(Append(kept, h)) = Range(kept) \cup {h}
      BY <2>4, <2>6, RangeAppend DEF ForeignCommands
    <3>3. Range(ForeignHooks(Append(s, h))) = Range(Append(s, h)) \ {"lacon"}
      BY <2>3, <2>4, <2>6, <3>1, <3>2
    <3>4. "lacon" \notin Range(Append(s, h)) => ForeignHooks(Append(s, h)) = Append(s, h)
      BY <2>3, <2>4, <3>1
    <3>5. QED
      BY <2>3, <3>1, <3>2, <3>3, <3>4 DEF Good
  <2>7. QED
    BY <2>5, <2>6
<1>3. T \in SUBSET Seq(Commands)
  OBVIOUS
<1> HIDE DEF T
<1>4. T = Seq(Commands)
  BY <1>1, <1>2, <1>3, HookFold!SeqInduction
<1>5. Good(hooks)
  BY <1>4 DEF T
<1>6. hooks \in Seq(ForeignCommands) => "lacon" \notin Range(hooks)
  BY DEF Range, ForeignCommands
<1>7. QED
  BY <1>5, <1>6

\* The cleanup: what is tidy stays and nothing comes in.
LEMMA TidiedKeeps ==
    ASSUME NEW groups \in Seq(Scrubbed)
    PROVE  /\ Tidied(groups) \in Seq(Clean)
           /\ \A g \in Range(groups): IsTidy(g) => g \in Range(Tidied(groups))
           /\ groups \in Seq(Clean) => Tidied(groups) = groups
<1> DEFINE Good(s) == /\ Tidied(s) \in Seq(Clean)
                      /\ \A g \in Range(s): IsTidy(g) => g \in Range(Tidied(s))
                      /\ (\A g \in Range(s): IsTidy(g)) => Tidied(s) = s
           T == {s \in Seq(Scrubbed): Good(s)}
<1>1. <<>> \in T
  <2>1. Tidied(<<>>) = <<>>
    BY GroupsAreFold, GroupFold!FoldEmpty
  <2>2. <<>> \in Seq(Scrubbed) /\ <<>> \in Seq(Clean) /\ Range(<<>>) = {}
    BY DEF Range
  <2>3. QED
    BY <2>1, <2>2
<1>2. ASSUME NEW s \in T, NEW g \in Scrubbed PROVE Append(s, g) \in T
  <2>1. s \in Seq(Scrubbed) /\ Good(s)
    OBVIOUS
  <2> DEFINE kept == Tidied(s)
  <2>2. Tidied(Append(s, g)) = KeepTidy(kept, g)
    BY <2>1, GroupsAreFold, GroupFold!FoldAppend
  <2>3. /\ Append(s, g) \in Seq(Scrubbed)
        /\ Range(Append(s, g)) = Range(s) \cup {g}
    BY <2>1, RangeAppend
  <2>4. /\ kept \in Seq(Clean)
        /\ \A e \in Range(s): IsTidy(e) => e \in Range(kept)
        /\ (\A e \in Range(s): IsTidy(e)) => kept = s
    BY <2>1
  <2> HIDE DEF kept, Good
  <2>5. CASE ~IsTidy(g)
    <3>1. Tidied(Append(s, g)) = kept
      BY <2>2, <2>5 DEF KeepTidy
    <3>2. QED
      BY <2>3, <2>4, <2>5, <3>1 DEF Good
  <2>6. CASE IsTidy(g)
    <3>1. Tidied(Append(s, g)) = Append(kept, g)
      BY <2>2, <2>6 DEF KeepTidy
    <3>2. Append(kept, g) \in Seq(Clean)
          /\ Range(Append(kept, g)) = Range(kept) \cup {g}
      BY <2>4, <2>6, RangeAppend DEF Clean
    <3>3. QED
      BY <2>3, <2>4, <3>1, <3>2 DEF Good
  <2>7. QED
    BY <2>5, <2>6
<1>3. T \in SUBSET Seq(Scrubbed)
  OBVIOUS
<1> HIDE DEF T
<1>4. T = Seq(Scrubbed)
  BY <1>1, <1>2, <1>3, GroupFold!SeqInduction
<1>5. Good(groups)
  BY <1>4 DEF T
<1>6. groups \in Seq(Clean) => \A g \in Range(groups): IsTidy(g)
  BY DEF Range, Clean
<1>7. QED
  BY <1>5, <1>6

\* A group after the scrub.
LEMMA WithoutLaconOK ==
    ASSUME NEW g \in Group
    PROVE  /\ WithoutLacon(g) \in Scrubbed
           /\ WithoutLacon(g).bash = g.bash
           /\ g.bash /\ g.hooks # Malformed => WithoutLacon(g).hooks = ForeignHooks(g.hooks)
           /\ ~(g.bash /\ g.hooks # Malformed) => WithoutLacon(g) = g
           /\ g \in Scrubbed => WithoutLacon(g) = g
<1>1. Malformed \notin Seq(Commands) /\ Seq(ForeignCommands) \subseteq Seq(Commands)
  BY CommandsAssumption DEF CommandsAssumption, ForeignCommands
<1>2. CASE g.bash /\ g.hooks # Malformed
  <2> DEFINE left == ForeignHooks(g.hooks)
  <2>1. g.hooks \in Seq(Commands)
    BY <1>2 DEF Group
  <2>2. left \in Seq(ForeignCommands) /\ (g.hooks \in Seq(ForeignCommands) => left = g.hooks)
    BY <2>1, ForeignHooksKeeps
  <2>3. WithoutLacon(g) = [g EXCEPT !.hooks = left]
    BY <1>2 DEF WithoutLacon, ForeignHooks
  <2> HIDE DEF left
  <2>4. [g EXCEPT !.hooks = left] \in Group
    BY <1>1, <2>2 DEF Group
  <2>5. QED
    BY <1>2, <2>2, <2>3, <2>4 DEF Scrubbed, Group, left
<1>3. CASE ~(g.bash /\ g.hooks # Malformed)
  <2>1. WithoutLacon(g) = g
    BY <1>3 DEF WithoutLacon
  <2>2. QED
    BY <1>3, <2>1 DEF Scrubbed
<1>4. QED
  BY <1>2, <1>3

\* What an init writes: groups that need no scrub and no cleanup, and lacon's
\* own at the end.
Canonical(settings) ==
    /\ settings.kind = "object"
    /\ \E groups \in Seq(Clean): settings.pretool = Append(groups, LaconGroup)

ScrubbedGroups(groups) == [i \in DOMAIN groups |-> WithoutLacon(groups[i])]

LEMMA LaconGroupOK ==
    /\ LaconGroup \in Group /\ IsTidy(LaconGroup)
    /\ LaconGroup.bash /\ LaconGroup.hooks = <<"lacon">>
    /\ LaconGroup.hooks # Malformed
    /\ WithoutLacon(LaconGroup) \in Scrubbed
    /\ ~IsTidy(WithoutLacon(LaconGroup))
<1>1. <<"lacon">> \in Seq(Commands) /\ <<"lacon">> # Malformed /\ <<"lacon">> # <<>>
  BY CommandsAssumption DEF CommandsAssumption
<1>2. LaconGroup \in Group /\ LaconGroup.bash /\ LaconGroup.hooks = <<"lacon">>
  BY <1>1 DEF LaconGroup, Group
<1>3. WithoutLacon(LaconGroup) \in Scrubbed
      /\ WithoutLacon(LaconGroup).hooks = ForeignHooks(<<"lacon">>)
      /\ WithoutLacon(LaconGroup).bash
  BY <1>1, <1>2, WithoutLaconOK
<1>4. ForeignHooks(<<"lacon">>) = <<>>
  <2> DEFINE left == ForeignHooks(<<"lacon">>)
  <2>1. left \in Seq(ForeignCommands) /\ Range(left) = Range(<<"lacon">>) \ {"lacon"}
    BY <1>1, ForeignHooksKeeps
  <2>2. Range(<<"lacon">>) = {"lacon"}
    BY DEF Range
  <2> HIDE DEF left
  <2>3. Range(left) = {}
    BY <2>1, <2>2
  <2>4. left = <<>>
    <3>1. left # <<>> => 1 \in DOMAIN left
      BY <2>1
    <3>2. QED
      BY <2>3, <3>1 DEF Range
  <2>5. QED
    BY <2>4 DEF left
<1>5. QED
  BY <1>1, <1>2, <1>3, <1>4 DEF IsTidy

LEMMA GroupsOK ==
    ASSUME NEW settings \in Settings
    PROVE  /\ Groups(settings) \in Seq(Group)
           /\ ScrubbedGroups(Groups(settings)) \in Seq(Scrubbed)
<1> DEFINE groups == Groups(settings)
<1>1. groups \in Seq(Group)
  BY DEF Groups, Settings
<1> HIDE DEF groups
<1>2. \A i \in 1 .. Len(groups): WithoutLacon(groups[i]) \in Scrubbed
  BY <1>1, WithoutLaconOK
<1>3. ScrubbedGroups(groups) \in Seq(Scrubbed)
  BY <1>1, <1>2 DEF ScrubbedGroups
<1>4. QED
  BY <1>1, <1>3 DEF groups

\* What an init writes is canonical, whatever was there (init.rs:349).
LEMMA InstallIsCanonical ==
    ASSUME NEW settings \in Settings
    PROVE  /\ InstallLaconHook(settings) \in Settings
           /\ Canonical(InstallLaconHook(settings))
<1> DEFINE kept == Tidied(ScrubbedGroups(Groups(settings)))
<1>1. kept \in Seq(Clean)
  BY GroupsOK, TidiedKeeps
<1>2. InstallLaconHook(settings) = [kind |-> "object", pretool |-> Append(kept, LaconGroup)]
  BY DEF InstallLaconHook, Tidied, ScrubbedGroups
<1> HIDE DEF kept
<1>3. Append(kept, LaconGroup) \in Seq(Group)
  <2>1. Clean \subseteq Group
    BY DEF Clean, Scrubbed
  <2>2. kept \in Seq(Group)
    BY <1>1, <2>1
  <2>3. QED
    BY <2>2, LaconGroupOK
<1>4. InstallLaconHook(settings) \in Settings
  <2> DEFINE new == Append(kept, LaconGroup)
  <2>1. new \in Seq(Group) /\ InstallLaconHook(settings) = [kind |-> "object", pretool |-> new]
    BY <1>2, <1>3
  <2> HIDE DEF new
  <2>2. \A groups \in Seq(Group): [kind |-> "object", pretool |-> groups] \in Settings
    <3> "object" \in Kinds
      BY DEF Kinds
    <3> QED
      BY DEF Settings
  <2>3. QED
    BY <2>1, <2>2
<1>5. Canonical(InstallLaconHook(settings))
  BY <1>1, <1>2 DEF Canonical
<1>6. QED
  BY <1>4, <1>5

\* Over what an init has written an init writes the same.
LEMMA CanonicalIsFixed ==
    ASSUME NEW settings \in Settings, Canonical(settings)
    PROVE  InstallLaconHook(settings) = settings
<1>1. PICK kept \in Seq(Clean): settings.pretool = Append(kept, LaconGroup)
  BY DEF Canonical
<1> DEFINE bare == WithoutLacon(LaconGroup)
<1>2. bare \in Scrubbed /\ ~IsTidy(bare)
  BY LaconGroupOK
<1>3. \A i \in 1 .. Len(kept): WithoutLacon(kept[i]) = kept[i]
  BY WithoutLaconOK DEF Clean, Scrubbed
<1> HIDE DEF bare
<1>4. ScrubbedGroups(Append(kept, LaconGroup)) = Append(kept, bare)
  <2>1. /\ DOMAIN Append(kept, LaconGroup) = 1 .. Len(kept) + 1 /\ Len(kept) \in Nat
        /\ \A i \in 1 .. Len(kept): Append(kept, LaconGroup)[i] = kept[i]
        /\ Append(kept, LaconGroup)[Len(kept) + 1] = LaconGroup
    OBVIOUS
  <2>2. /\ DOMAIN Append(kept, bare) = 1 .. Len(kept) + 1
        /\ \A i \in 1 .. Len(kept): Append(kept, bare)[i] = kept[i]
        /\ Append(kept, bare)[Len(kept) + 1] = bare
    OBVIOUS
  <2>6. Append(kept, bare) = [i \in 1 .. Len(kept) + 1 |-> Append(kept, bare)[i]]
    <3>1. Append(kept, bare) \in Seq(Scrubbed)
      BY <1>2 DEF Clean
    <3> DEFINE t == Append(kept, bare)
    <3> HIDE DEF t
    <3>2. t \in Seq(Scrubbed) => t = [i \in DOMAIN t |-> t[i]]
      OBVIOUS
    <3>3. QED
      BY <2>2, <3>1, <3>2 DEF t
  <2> DEFINE new == Append(kept, LaconGroup)
             old == Append(kept, bare)
  <2> HIDE DEF new, old
  <2>3. ASSUME NEW i \in 1 .. Len(kept) + 1
        PROVE  WithoutLacon(new[i]) = old[i]
    <3>1. CASE i = Len(kept) + 1
      BY <2>1, <2>2, <3>1 DEF new, old, bare
    <3>2. CASE i # Len(kept) + 1
      <4>1. i \in 1 .. Len(kept)
        BY <2>1, <3>2
      <4>2. new[i] = kept[i] /\ old[i] = kept[i]
        BY <2>1, <2>2, <4>1 DEF new, old
      <4>3. QED
        BY <1>3, <4>1, <4>2
    <3>3. QED
      BY <3>1, <3>2
  <2>4. DOMAIN new = 1 .. Len(kept) + 1 /\ old = [i \in 1 .. Len(kept) + 1 |-> old[i]]
    BY <2>1, <2>2, <2>6 DEF new, old
  <2>5. [i \in DOMAIN new |-> WithoutLacon(new[i])] = old
    BY <2>3, <2>4
  <2>7. QED
    BY <2>5 DEF ScrubbedGroups, new, old
<1>5. Tidied(Append(kept, bare)) = Tidied(kept)
  <2>1. kept \in Seq(Scrubbed)
    BY DEF Clean
  <2>2. Tidied(Append(kept, bare)) = KeepTidy(Tidied(kept), bare)
    BY <1>2, <2>1, GroupsAreFold, GroupFold!FoldAppend
  <2>3. QED
    BY <1>2, <2>2 DEF KeepTidy
<1>6. Tidied(kept) = kept
  <2>1. kept \in Seq(Scrubbed)
    BY DEF Clean
  <2>2. QED
    BY <2>1, TidiedKeeps
<1>7. Groups(settings) = Append(kept, LaconGroup)
  BY <1>1 DEF Groups, Canonical
<1>8. InstallLaconHook(settings)
        = [kind |-> "object", pretool |-> Append(kept, LaconGroup)]
  <2>1. Tidied(ScrubbedGroups(Groups(settings))) = kept
    BY <1>4, <1>5, <1>6, <1>7
  <2>2. InstallLaconHook(settings)
          = [kind |-> "object",
             pretool |-> Append(Tidied(ScrubbedGroups(Groups(settings))), LaconGroup)]
    BY DEF InstallLaconHook, Tidied, ScrubbedGroups
  <2>3. QED
    BY <2>1, <2>2
<1>9. settings = [kind |-> "object", pretool |-> Append(kept, LaconGroup)]
  <2>1. settings.kind = "object"
    BY DEF Canonical
  <2>2. QED
    BY <1>1, <2>1 DEF Settings
<1>10. QED
  BY <1>8, <1>9

\* In what an init has written lacon's hook stands in one place, the last.
LEMMA CanonicalHasOne ==
    ASSUME NEW settings \in Settings, Canonical(settings)
    PROVE  \E place: PlacesOf("lacon", settings) = {place}
<1>1. PICK kept \in Seq(Clean): settings.pretool = Append(kept, LaconGroup)
  BY DEF Canonical
<1> DEFINE groups == Append(kept, LaconGroup)
           n == Len(kept) + 1
           In1(i, j) == i \in DOMAIN groups /\ groups[i].bash /\ groups[i].hooks # Malformed
                        /\ j \in DOMAIN groups[i].hooks /\ groups[i].hooks[j] = "lacon"
<1>2. /\ DOMAIN groups = 1 .. n /\ n \in Nat /\ n \in 1 .. n
      /\ \A i \in 1 .. n: i # n => groups[i] \in Clean
      /\ groups[n] = LaconGroup
  OBVIOUS
<1>3. Groups(settings) = groups
  BY <1>1 DEF Groups, Canonical
<1> HIDE DEF groups, n
<1>4. ASSUME NEW i \in 1 .. n, i # n, groups[i].bash, groups[i].hooks # Malformed,
             NEW j \in DOMAIN groups[i].hooks
      PROVE  groups[i].hooks[j] # "lacon"
  <2>1. groups[i].hooks \in Seq(ForeignCommands)
    BY <1>2, <1>4 DEF Clean, Scrubbed
  <2>2. QED
    BY <2>1 DEF ForeignCommands
<1>5. DOMAIN groups[n].hooks = {1} /\ groups[n].hooks[1] = "lacon"
      /\ groups[n].bash /\ groups[n].hooks # Malformed
  <2>1. DOMAIN <<"lacon">> = {1} /\ <<"lacon">>[1] = "lacon"
    OBVIOUS
  <2>2. QED
    BY <1>2, <2>1, LaconGroupOK
<1> DEFINE bash == {i \in DOMAIN groups: groups[i].bash /\ groups[i].hooks # Malformed}
           at(i) == {<<i, j>> : j \in {j \in DOMAIN groups[i].hooks:
                                        groups[i].hooks[j] = "lacon"}}
<1>6. PlacesOf("lacon", settings) = UNION {at(i) : i \in bash}
  BY <1>3 DEF PlacesOf
<1>7. n \in bash
  BY <1>2, <1>5
<1>8. at(n) = {<<n, 1>>}
  BY <1>5
<1>9. \A i \in bash: i # n => at(i) = {}
  BY <1>2, <1>4
<1> HIDE DEF at, bash
<1>10. UNION {at(i) : i \in bash} = {<<n, 1>>}
  BY <1>7, <1>8, <1>9
<1>11. QED
  BY <1>6, <1>10

\* The user's hooks stay, whatever group they are in (init.rs:341).
LEMMA InstallKeepsForeign ==
    ASSUME NEW settings \in Settings
    PROVE  Foreign(settings) \subseteq Foreign(InstallLaconHook(settings))
<1> DEFINE groups == Groups(settings)
           scrubbed == ScrubbedGroups(groups)
           kept == Tidied(scrubbed)
           Commands1(g) == IF g.hooks # Malformed THEN Range(g.hooks) \ {"lacon"} ELSE {}
<1>1. groups \in Seq(Group) /\ scrubbed \in Seq(Scrubbed) /\ kept \in Seq(Clean)
      /\ \A g \in Range(scrubbed): IsTidy(g) => g \in Range(kept)
  BY GroupsOK, TidiedKeeps
<1>2. Groups(InstallLaconHook(settings)) = Append(kept, LaconGroup)
  BY DEF InstallLaconHook, Tidied, ScrubbedGroups, Groups
<1>3. Foreign(settings) = UNION {Commands1(g) : g \in Range(groups)}
  BY DEF Foreign
<1>4. Foreign(InstallLaconHook(settings))
        = UNION {Commands1(g) : g \in Range(Append(kept, LaconGroup))}
  BY <1>2 DEF Foreign
<1>5. Range(kept) \subseteq Range(Append(kept, LaconGroup))
  BY <1>1, RangeAppend
<1>6. ASSUME NEW i \in 1 .. Len(groups), NEW h \in Commands1(groups[i])
      PROVE  \E g \in Range(kept): h \in Commands1(g)
  <2> DEFINE g == groups[i]
             left == WithoutLacon(g)
  <2>0. g \in Group
    <3> HIDE DEF groups
    <3>1. groups \in Seq(Group)
      BY <1>1
    <3>2. QED
      BY <3>1
  <2>1. g \in Group /\ g.hooks # Malformed /\ h \in Range(g.hooks) /\ h # "lacon"
        /\ g.hooks \in Seq(Commands)
    <3>1. h \in Commands1(g)
      OBVIOUS
    <3> HIDE DEF g
    <3>2. g.hooks # Malformed /\ h \in Range(g.hooks) \ {"lacon"}
      BY <3>1
    <3>3. QED
      BY <2>0, <3>2 DEF Group
  <2>2. left \in Range(scrubbed)
    BY <1>1 DEF ScrubbedGroups, Range
  <2> HIDE DEF g
  <2>3. /\ left \in Scrubbed
        /\ left.bash = g.bash
        /\ g.bash => left.hooks = ForeignHooks(g.hooks)
        /\ ~g.bash => left = g
    BY <2>1, WithoutLaconOK
  <2> HIDE DEF left
  <2>4. h \in Range(left.hooks) /\ left.hooks \in Seq(Commands)
    <3>1. CASE g.bash
      <4>1. left.hooks = ForeignHooks(g.hooks)
        BY <2>3, <3>1
      <4>2. Range(left.hooks) = Range(g.hooks) \ {"lacon"}
            /\ left.hooks \in Seq(ForeignCommands)
        BY <2>1, <4>1, ForeignHooksKeeps
      <4>3. QED
        BY <2>1, <4>2 DEF ForeignCommands
    <3>2. CASE ~g.bash
      BY <2>1, <2>3, <3>2
    <3>3. QED
      BY <3>1, <3>2
  <2>5. left.hooks # <<>>
    BY <2>4 DEF Range
  <2>6. left.hooks # Malformed
    BY <2>4, CommandsAssumption DEF CommandsAssumption
  <2>7. IsTidy(left)
    BY <2>5, <2>6 DEF IsTidy
  <2>8. left \in Range(kept)
    BY <1>1, <2>2, <2>7
  <2>9. h \in Commands1(left)
    BY <2>1, <2>4, <2>6
  <2>10. QED
    BY <2>8, <2>9
<1> HIDE DEF kept, scrubbed, groups, Commands1
<1>7. ASSUME NEW h \in Foreign(settings) PROVE h \in Foreign(InstallLaconHook(settings))
  <2>1. PICK g \in Range(groups): h \in Commands1(g)
    BY <1>3
  <2>2. PICK i \in 1 .. Len(groups): g = groups[i]
    BY <1>1 DEF Range
  <2>3. PICK e \in Range(kept): h \in Commands1(e)
    BY <1>6, <2>1, <2>2
  <2>4. QED
    BY <1>4, <1>5, <2>3
<1>8. QED
  BY <1>7

\* lacon's hook is found in what an init writes (doctor.rs:294).
LEMMA CanonicalHasHook ==
    ASSUME NEW settings, Canonical(settings)
    PROVE  SettingsHasHook(settings)
<1>1. PICK kept: settings.pretool = Append(kept, LaconGroup)
  BY DEF Canonical
<1> DEFINE new == Append(kept, LaconGroup)
<1>2. Groups(settings) = new
  BY <1>1 DEF Canonical, Groups
<1>3. \E i \in DOMAIN new: new[i] = LaconGroup
  BY AppendLast
<1> HIDE DEF new
<1>4. "lacon" \in Range(LaconGroup.hooks)
  <2>1. 1 \in DOMAIN <<"lacon">> /\ <<"lacon">>[1] = "lacon"
    OBVIOUS
  <2>2. QED
    BY <2>1, LaconGroupOK DEF Range
<1>5. QED
  BY <1>2, <1>3, <1>4, LaconGroupOK DEF SettingsHasHook

-----------------------------------------------------------------------------
\* Whom a step of an init in scope s concerns.
LEMMA InScope ==
    ASSUME InitInv, NEW p \in Inits, NEW s, In(p, s)
    PROVE  /\ init[p].scopes \in Seq(Scopes) /\ init[p].scopes # <<>>
           /\ Head(init[p].scopes) = s /\ s \in Scopes
           /\ Tail(init[p].scopes) \in Seq(Scopes)
BY RangeTail DEF InitInv, InitOK, In

LEMMA EntersOK ==
    ASSUME InitInv, NEW p \in Inits, NEW l \in Seq(Scopes),
           NEW pc \in {"failed", "done"}
    PROVE  InitOK(Enters(p, l, pc))
<1>1. CASE l = <<>>
  BY <1>1 DEF InitInv, InitOK, Settings, Enters, Ended, InitPcs
<1>2. CASE l # <<>>
  <2>1. <<>> \in Seq(Lines)
    OBVIOUS
  <2>2. QED
    BY <1>2, <2>1 DEF InitOK, Settings, Enters, NotStarted, Ended, InitPcs, Kinds
<1>3. QED
  BY <1>1, <1>2

LEMMA SelectScopesOK ==
    ASSUME NEW p \in Inits, NEW run \in Runs[p]
    PROVE  SelectScopes(run) \in Seq(Scopes)
<1>1. InOrder(run.flags) \in Seq(Scopes)
  BY RunsAssumption, InOrderType DEF RunsAssumption
<1>2. /\ <<>> \in Seq(Scopes)
      /\ <<"project">> \in Seq(Scopes) /\ <<"user">> \in Seq(Scopes)
      /\ <<"project", "user">> \in Seq(Scopes)
  BY TuplesInSeq DEF Scopes
<1>3. QED
  BY <1>1, <1>2 DEF SelectScopes

LEMMA TypeInit == Init => TypeInv /\ FillInv
<1> SUFFICES ASSUME Init PROVE TypeInv /\ FillInv
  OBVIOUS
<1>1. DOMAIN disk = Scopes /\ \A s \in Scopes: DiskOK(disk[s])
  BY DisksAssumption DEF DisksAssumption, Init, DiskOK, Settings, Kinds
<1>2. DOMAIN init = Inits /\ \A p \in Inits: InitOK(init[p])
  <2>1. <<>> \in Seq(Lines) /\ <<>> \in Seq(Scopes)
    OBVIOUS
  <2>2. InitOK(NotStarted)
    BY <2>1 DEF NotStarted, InitOK, Settings, Ended, InitPcs, Kinds
  <2>3. QED
    BY <2>2 DEF Init
<1>3. doctor \in Doctors
  BY EmptyInSeq DEF Init, Doctors, DoctorPcs
<1>4. FillInv
  BY DEF Init, FillInv, NotStarted, At, In, Ended
<1>5. /\ lost \in [Scopes -> SUBSET Files]
      /\ whole \in [Scopes -> {"spoilt", "in progress", "whole"}]
      /\ DOMAIN mine = Scopes
      /\ \A s \in Scopes: DOMAIN mine[s] = {"hooks", "lines"}
  BY DEF Init
<1>6. QED
  BY <1>1, <1>2, <1>3, <1>4, <1>5
     DEF Init, TypeInv, DiskInv, InitInv, DoctorInv, HistoryInv

\* The steps of an init.
LEMMA InitStepOfInit ==
    ASSUME DiskInv, InitInv, NEW p \in Inits, NEW s \in Scopes,
           InitStep(p, s) \/ Stop(p, s)
    PROVE  InitInv'
<1> USE DEF InitInv, InitOK, At, In, Ended, InitPcs
<1>1. CASE Skeleton(p, s)
  BY <1>1, ZenonT(60) DEF Skeleton
<1>2. CASE ReadSettings(p, s)
  <2> DEFINE text == disk[s].settings
             read == IF text.kind = "absent"
                     THEN [kind |-> "object", pretool |-> <<>>] ELSE text
             next == IF text.kind \in {"garbage", "no object"} THEN "failed"
                     ELSE "write settings"
  <2>0. text \in Settings /\ <<>> \in Seq(Group)
    BY EmptyInSeq DEF DiskInv, DiskOK
  <2>1. read \in Settings /\ (next = "write settings" => IsObject(read))
    BY <2>0 DEF Settings, Kinds, IsObject
  <2>2. init' = [init EXCEPT ![p].settings = read, ![p].pc = next]
    BY <1>2 DEF ReadSettings
  <2>3. init[p].scopes # <<>> /\ next \in {"failed", "write settings"}
    BY <1>2 DEF ReadSettings
  <2> HIDE DEF read, next
  <2>4. QED
    BY <2>1, <2>2, <2>3, ZenonT(60)
<1>3. CASE WriteSettings(p, s)
  BY <1>3, ZenonT(60) DEF WriteSettings
<1>4. CASE TruncateLaconMd(p, s)
  BY <1>4 DEF TruncateLaconMd
<1>5. CASE FillLaconMd(p, s)
  BY <1>5 DEF FillLaconMd
<1>6. CASE ReadClaudeMd(p, s)
  <2> DEFINE text == IF disk[s].claude_md = NoFile THEN <<>> ELSE disk[s].claude_md
  <2>1. text \in Seq(Lines)
    BY EmptyInSeq DEF DiskInv, DiskOK
  <2>2. init' = [init EXCEPT ![p].claude_md = text, ![p].pc = "truncate CLAUDE.md"]
    BY <1>6 DEF ReadClaudeMd
  <2> HIDE DEF text
  <2>3. init[p].scopes # <<>>
    BY <1>6 DEF ReadClaudeMd
  <2>4. QED
    BY <2>1, <2>2, <2>3, ZenonT(60)
<1>7. CASE TruncateClaudeMd(p, s)
  BY <1>7, ZenonT(60) DEF TruncateClaudeMd
<1>8. CASE FillClaudeMd(p, s)
  BY <1>8, InScope, EntersOK, ZenonT(60) DEF FillClaudeMd
<1>9. CASE Stop(p, s)
  <2>1. PICK end \in {"failed", "killed"}: init' = [init EXCEPT ![p].pc = end]
    BY <1>9 DEF Stop
  <2>2. \A q \in Inits: q # p => init'[q] = init[q]
    BY <2>1
  <2>3. DOMAIN init' = Inits /\ init'[p] = [init[p] EXCEPT !.pc = end]
    BY <2>1
  <2>4. InitOK(init'[p])
    BY <2>3
  <2>5. QED
    BY <2>2, <2>3, <2>4, ZenonT(60)
<1>10. QED
  BY <1>1, <1>2, <1>3, <1>4, <1>5, <1>6, <1>7, <1>8, <1>9 DEF InitStep

LEMMA InitStepOfDisk ==
    ASSUME DiskInv, InitInv, FillInv, NEW p \in Inits, NEW s \in Scopes,
           InitStep(p, s) \/ Stop(p, s)
    PROVE  DiskInv'
<1> USE DEF DiskInv, DiskOK
<1>1. CASE Skeleton(p, s)
  BY <1>1 DEF Skeleton
<1>2. CASE ReadSettings(p, s) \/ ReadClaudeMd(p, s) \/ Stop(p, s)
  BY <1>2 DEF ReadSettings, ReadClaudeMd, Stop
<1>3. CASE WriteSettings(p, s)
  <2>1. InstallLaconHook(init[p].settings) \in Settings
    BY InstallIsCanonical DEF InitInv, InitOK
  <2>2. QED
    BY <1>3, <2>1, ZenonT(60) DEF WriteSettings
<1>4. CASE TruncateLaconMd(p, s)
  BY <1>4 DEF TruncateLaconMd
<1>5. CASE FillLaconMd(p, s)
  BY <1>5 DEF FillLaconMd
<1>7. CASE TruncateClaudeMd(p, s)
  <2>1. <<>> \in Seq(Lines)
    OBVIOUS
  <2>2. QED
    BY <1>7, <2>1 DEF TruncateClaudeMd
<1>8. CASE FillClaudeMd(p, s)
  <2>1. InstallReferenceLine(init[p].claude_md) \in Seq(Lines)
    BY ReferenceLineInstalled DEF InitInv, InitOK
  <2>2. disk[s].claude_md \in Seq(Lines)
    BY <1>8 DEF FillInv, FillClaudeMd
  <2>3. Overlay(InstallReferenceLine(init[p].claude_md), disk[s].claude_md)
            \in Seq(Lines)
    BY <2>1, <2>2, OverlayKeeps
  <2>4. QED
    BY <1>8, <2>3 DEF FillClaudeMd
<1>10. QED
  BY <1>1, <1>2, <1>3, <1>4, <1>5, <1>7, <1>8 DEF InitStep

LEMMA TouchOfDoctor ==
    ASSUME DoctorInv, NEW s, Touch(s)
    PROVE  /\ DoctorInv'
           /\ doctor' = [doctor EXCEPT !.still = @ \ {s}]
BY DEF DoctorInv, Doctors, Touch

LEMMA LostType ==
    ASSUME HistoryInv, NEW s \in Scopes, NEW f \in Files,
           lost' = lost \/ lost' = [lost EXCEPT ![s] = @ \cup {f}]
    PROVE  lost' \in [Scopes -> SUBSET Files]
<1>1. lost \in [Scopes -> SUBSET Files]
  BY DEF HistoryInv
<1>2. CASE lost' = [lost EXCEPT ![s] = @ \cup {f}]
  <2>1. lost[s] \cup {f} \in SUBSET Files
    BY <1>1
  <2>2. QED
    BY <1>1, <1>2, <2>1
<1>3. QED
  BY <1>1, <1>2

LEMMA SpoiltType ==
    ASSUME HistoryInv, NEW s \in Scopes, whole' = [whole EXCEPT ![s] = "spoilt"],
           mishaps' = mishaps + 1
    PROVE  /\ mishaps' \in Nat
           /\ whole' \in [Scopes -> {"spoilt", "in progress", "whole"}]
<1>1. mishaps \in Nat /\ whole \in [Scopes -> {"spoilt", "in progress", "whole"}]
  BY DEF HistoryInv
<1>2. mishaps' \in Nat
  <2>1. mishaps \in Nat
    BY <1>1
  <2>2. mishaps + 1 \in Nat
    BY ONLY <2>1
  <2>3. QED
    BY <2>2
<1>3. whole' \in [Scopes -> {"spoilt", "in progress", "whole"}]
  BY <1>1
<1>4. QED
  BY <1>2, <1>3

LEMMA InitStepOfRest ==
    ASSUME DoctorInv, HistoryInv, InitInv, NEW p \in Inits, NEW s \in Scopes,
           InitStep(p, s) \/ Stop(p, s)
    PROVE  DoctorInv' /\ HistoryInv'
<1>1. CASE Skeleton(p, s) \/ FillClaudeMd(p, s)
  BY <1>1, TouchOfDoctor DEF Skeleton, FillClaudeMd, HistoryInv
<1>2. CASE ReadSettings(p, s) \/ ReadClaudeMd(p, s)
  <2>1. lost' = lost \/ lost' = [lost EXCEPT ![s] = @ \cup {"CLAUDE.md"}]
    BY <1>2 DEF ReadSettings, ReadClaudeMd
  <2>2. lost' \in [Scopes -> SUBSET Files]
    BY <2>1, LostType DEF Files
  <2>3. UNCHANGED <<doctor, mishaps, mine, whole>>
    BY <1>2 DEF ReadSettings, ReadClaudeMd
  <2>4. QED
    BY <2>2, <2>3 DEF DoctorInv, HistoryInv
<1>3. CASE WriteSettings(p, s) \/ TruncateLaconMd(p, s) \/ FillLaconMd(p, s)
           \/ TruncateClaudeMd(p, s)
  BY <1>3, TouchOfDoctor
     DEF WriteSettings, TruncateLaconMd, FillLaconMd, TruncateClaudeMd, HistoryInv
<1>4. CASE Stop(p, s)
  <2>1. lost' = lost \/ lost' = [lost EXCEPT ![s] = @ \cup {"CLAUDE.md"}]
    BY <1>4 DEF Stop
  <2>2. lost' \in [Scopes -> SUBSET Files]
    BY <2>1, LostType DEF Files
  <2>3. mishaps' = mishaps + 1 /\ whole' = [whole EXCEPT ![s] = "spoilt"]
    BY <1>4 DEF Stop
  <2>4. /\ mishaps' \in Nat
        /\ whole' \in [Scopes -> {"spoilt", "in progress", "whole"}]
    BY <2>3, SpoiltType
  <2>5. UNCHANGED <<doctor, mine>>
    BY <1>4 DEF Stop
  <2>6. QED
    BY <2>2, <2>4, <2>5 DEF DoctorInv, HistoryInv
<1>5. QED
  BY <1>1, <1>2, <1>3, <1>4 DEF InitStep

\* What the user saves in CLAUDE.md is lines.
LEMMA EditedClaudeMd ==
    ASSUME DiskInv, HistoryInv, NEW s \in Scopes, EditClaudeMd(s)
    PROVE  \E new \in Seq(Lines):
              /\ disk' = [disk EXCEPT ![s].claude_md = new]
              /\ disk'[s].claude_md = new
              /\ mine' = [mine EXCEPT ![s].lines = OwnLines(new)]
              /\ mine'[s].lines = OwnLines(new)
<1> DEFINE text == IF disk[s].claude_md = NoFile THEN <<>> ELSE disk[s].claude_md
<1>1. PICK new \in {Append(text, "new")} \cup
                   {RemoveAt(text, i) : i \in {i \in DOMAIN text: text[i] = "import"}}:
        /\ disk' = [disk EXCEPT ![s].claude_md = new]
        /\ mine' = [mine EXCEPT ![s].lines = OwnLines(new)]
  BY DEF EditClaudeMd
<1>2. text \in Seq(Lines) /\ "new" \in Lines
  BY LinesAssumption, EmptyInSeq DEF DiskInv, DiskOK, LinesAssumption
<1> HIDE DEF text
<1>3. Append(text, "new") \in Seq(Lines)
  BY <1>2
<1>4. ASSUME NEW i \in DOMAIN text PROVE RemoveAt(text, i) \in Seq(Lines)
  BY <1>2 DEF RemoveAt
<1>5. new \in Seq(Lines)
  BY <1>3, <1>4
<1>6. QED
  BY <1>1, <1>5 DEF DiskInv, DiskOK, HistoryInv

LEMMA EditedSettings ==
    ASSUME DiskInv, HistoryInv, NEW s \in Scopes, EditSettings(s)
    PROVE  \A t \in Scopes: /\ disk'[t].claude_md = disk[t].claude_md
                            /\ mine'[t].lines = mine[t].lines
<1>1. PICK new \in Saves(disk[s].settings):
        /\ disk' = [disk EXCEPT ![s].settings = new]
        /\ mine' = [mine EXCEPT ![s].hooks = Foreign(new)]
  BY DEF EditSettings
<1>2. QED
  BY <1>1 DEF DiskInv, DiskOK, HistoryInv

\* What the user saves in settings.json is settings.
LEMMA SavesAreSettings ==
    ASSUME NEW settings \in Settings, NEW new \in Saves(settings)
    PROVE  new \in Settings
<1> DEFINE groups == Groups(settings)
           own == [bash |-> TRUE, hooks |-> <<"own">>]
           more == Append(groups, own)
           less == ScrubbedGroups(groups)
<1>1. groups \in Seq(Group) /\ less \in Seq(Scrubbed) /\ Scrubbed \subseteq Group
  BY GroupsOK DEF Scrubbed
<1>2. own \in Group
  <2>1. <<"own">> \in Seq(Commands)
    BY CommandsAssumption DEF CommandsAssumption
  <2>2. QED
    BY <2>1 DEF Group
<1> HIDE DEF groups, own
<1>3. more \in Seq(Group) /\ less \in Seq(Group) /\ <<>> \in Seq(Group)
  BY <1>1, <1>2
<1>4. new \in {[kind |-> "garbage", pretool |-> <<>>],
              [kind |-> "object", pretool |-> more],
              [kind |-> "object", pretool |-> less]}
  BY DEF Saves, ScrubbedGroups, groups, own
<1> HIDE DEF more, less
<1>5. \A kind \in {"garbage", "object"}, g \in Seq(Group):
        [kind |-> kind, pretool |-> g] \in Settings
  BY DEF Settings, Kinds
<1>6. QED
  BY <1>3, <1>4, <1>5

\* The user's edits.
LEMMA EditType ==
    ASSUME TypeInv, NEW s \in Scopes, Edit(s)
    PROVE  TypeInv'
<1>1. InitInv'
  BY DEF TypeInv, InitInv, InitOK, Edit
<1>2. DoctorInv'
  BY TouchOfDoctor DEF TypeInv, Edit
<1>3. ASSUME \E f \in Files:
                lost' = lost \/ lost' = [lost EXCEPT ![s] = @ \cup {f}],
             DOMAIN mine' = Scopes,
             \A t \in Scopes: DOMAIN mine'[t] = {"hooks", "lines"}
      PROVE  HistoryInv'
  <2>1. lost' \in [Scopes -> SUBSET Files]
    BY <1>3, LostType DEF TypeInv
  <2>2. mishaps' = mishaps + 1 /\ whole' = [whole EXCEPT ![s] = "spoilt"]
    BY DEF Edit
  <2>3. /\ mishaps' \in Nat
        /\ whole' \in [Scopes -> {"spoilt", "in progress", "whole"}]
    BY <2>2, SpoiltType DEF TypeInv
  <2>4. QED
    BY <1>3, <2>1, <2>3 DEF HistoryInv
<1>4. CASE EditSettings(s)
  <2>1. PICK new \in Saves(disk[s].settings):
          /\ disk' = [disk EXCEPT ![s].settings = new]
          /\ mine' = [mine EXCEPT ![s].hooks = Foreign(new)]
    BY <1>4 DEF EditSettings
  <2>2. new \in Settings
    BY <2>1, SavesAreSettings DEF TypeInv, DiskInv, DiskOK
  <2>3. DiskInv'
    BY <2>1, <2>2, ZenonT(60) DEF TypeInv, DiskInv, DiskOK
  <2>4. \E f \in Files: lost' = lost \/ lost' = [lost EXCEPT ![s] = @ \cup {f}]
    BY <1>4 DEF EditSettings, Files
  <2>5. /\ DOMAIN mine' = Scopes
        /\ \A t \in Scopes: DOMAIN mine'[t] = {"hooks", "lines"}
    BY <2>1 DEF TypeInv, HistoryInv
  <2>6. QED
    BY <1>1, <1>2, <1>3, <2>3, <2>4, <2>5 DEF TypeInv
<1>5. CASE EditClaudeMd(s)
  <2>1. PICK new \in Seq(Lines):
          /\ disk' = [disk EXCEPT ![s].claude_md = new]
          /\ mine' = [mine EXCEPT ![s].lines = OwnLines(new)]
    BY <1>5, EditedClaudeMd DEF TypeInv
  <2>6. DiskInv'
    BY <2>1 DEF TypeInv, DiskInv, DiskOK
  <2>7. \E f \in Files: lost' = lost \/ lost' = [lost EXCEPT ![s] = @ \cup {f}]
    BY <1>5 DEF EditClaudeMd, Files
  <2>8. /\ DOMAIN mine' = Scopes
        /\ \A t \in Scopes: DOMAIN mine'[t] = {"hooks", "lines"}
    BY <2>1 DEF TypeInv, HistoryInv
  <2>9. QED
    BY <1>1, <1>2, <1>3, <2>6, <2>7, <2>8 DEF TypeInv
<1>6. QED
  BY <1>4, <1>5 DEF Edit

\* The doctor's steps change nothing but what the doctor knows.
LEMMA OnwardOK ==
    ASSUME NEW d \in Doctors, NEW l \in Seq(Scopes)
    PROVE  /\ Onward(d, l) \in Doctors
           /\ Onward(d, l).left = l
           /\ Onward(d, l).pc = IF l = <<>> THEN "machine" ELSE "hook"
           /\ Onward(d, l).configured = d.configured
           /\ Onward(d, l).fails = d.fails
           /\ Onward(d, l).still = d.still
BY DEF Onward, Doctors, DoctorPcs

LEMMA TargetOK ==
    ASSUME DoctorInv, doctor.left # <<>>
    PROVE  /\ Target \in Scopes
           /\ Tail(doctor.left) \in Seq(Scopes)
           /\ Range(doctor.left) = {Target} \cup Range(Tail(doctor.left))
BY RangeTail DEF DoctorInv, Doctors, Target

\* What each step makes of the doctor, in terms of the values before.
LEMMA ProbeEffect ==
    ASSUME DoctorInv, Probe
    PROVE  \E configured \in SUBSET Scopes:
              /\ configured = doctor.configured \cup
                    IF SettingsHasHook(disk[Target].settings) THEN {Target} ELSE {}
              /\ doctor' \in Doctors
              /\ doctor'.configured = configured
              /\ doctor'.fails = doctor.fails /\ doctor'.still = doctor.still
              /\ \/ /\ doctor'.pc = "probe" /\ doctor'.left # <<>>
                    /\ doctor'.left = Tail(doctor.left)
                 \/ /\ Tail(doctor.left) = <<>>
                    /\ doctor'.left = InOrder(configured)
                    /\ doctor'.pc = IF doctor'.left = <<>> THEN "machine" ELSE "hook"
<1> DEFINE configured == doctor.configured \cup
                    IF SettingsHasHook(disk[Target].settings) THEN {Target} ELSE {}
           probed == [doctor EXCEPT !.configured = configured, !.left = Tail(@)]
<1>0. doctor \in Doctors /\ doctor.pc = "probe" /\ doctor.left # <<>>
  BY DEF DoctorInv, Doctors, Probe
<1>1. Target \in Scopes /\ Tail(doctor.left) \in Seq(Scopes)
  BY <1>0, TargetOK
<1>2. configured \in SUBSET Scopes
  BY <1>0, <1>1 DEF Doctors
<1>3. doctor' = IF Tail(doctor.left) # <<>> THEN probed
                ELSE Onward(probed, InOrder(configured))
  BY DEF Probe
<1> HIDE DEF configured
<1>4. /\ probed \in Doctors
      /\ probed.pc = "probe" /\ probed.left = Tail(doctor.left)
      /\ probed.configured = configured
      /\ probed.fails = doctor.fails /\ probed.still = doctor.still
  BY <1>0, <1>1, <1>2 DEF Doctors
<1> HIDE DEF probed
<1>5. InOrder(configured) \in Seq(Scopes)
  BY <1>2, InOrderType
<1>6. /\ doctor' \in Doctors /\ doctor'.configured = configured
      /\ doctor'.fails = doctor.fails /\ doctor'.still = doctor.still
  BY <1>3, <1>4, <1>5, OnwardOK
<1>7. \/ /\ doctor'.pc = "probe" /\ doctor'.left # <<>>
         /\ doctor'.left = Tail(doctor.left)
      \/ /\ Tail(doctor.left) = <<>>
         /\ doctor'.left = InOrder(configured)
         /\ doctor'.pc = IF doctor'.left = <<>> THEN "machine" ELSE "hook"
  <2>1. CASE Tail(doctor.left) # <<>>
    BY <1>3, <1>4, <2>1
  <2>2. CASE Tail(doctor.left) = <<>>
    <3>1. doctor' = Onward(probed, InOrder(configured))
      BY <1>3, <2>2
    <3>2. QED
      BY <1>4, <1>5, <2>2, <3>1, OnwardOK
  <2>3. QED
    BY <2>1, <2>2
<1>8. QED
  BY <1>2, <1>6, <1>7 DEF configured
LEMMA FindingOK ==
    ASSUME DoctorInv, doctor.left # <<>>,
           NEW label \in {"hook", "instructions", "reference"}, NEW ok
    PROVE  /\ Finding(label, ok) \in SUBSET Findings
           /\ ok => Finding(label, ok) = {}
           /\ ~ok => \E f \in Finding(label, ok): f[1] = Target
           /\ \A f \in Finding(label, ok): f[1] = Target
BY TargetOK DEF Finding, Findings, Labels

LEMMA CheckHookEffect ==
    ASSUME DoctorInv, CheckHook
    PROVE  LET text == disk[Target].settings
           IN  /\ doctor' \in Doctors
               /\ doctor'.configured = doctor.configured
               /\ doctor'.still = doctor.still
               /\ doctor'.fails = doctor.fails
                                    \cup Finding("hook", SettingsHasHook(text))
               /\ \/ /\ text.kind \in {"absent", "garbage"}
                     /\ doctor'.left = Tail(doctor.left)
                     /\ doctor'.pc \in {"machine", "hook"}
                     /\ doctor'.pc = "machine" <=> doctor'.left = <<>>
                  \/ /\ text.kind \notin {"absent", "garbage"}
                     /\ doctor'.left = doctor.left
                     /\ doctor'.pc = "instructions"
<1> DEFINE text == disk[Target].settings
           found == Finding("hook", SettingsHasHook(text))
           after == [doctor EXCEPT !.fails = @ \cup found]
<1>1. doctor \in Doctors /\ doctor.left # <<>> /\ doctor.pc = "hook"
  BY DEF DoctorInv, CheckHook
<1>2. found \in SUBSET Findings
  BY <1>1, FindingOK
<1>3. doctor' = IF text.kind \in {"absent", "garbage"}
                THEN Onward(after, Tail(doctor.left))
                ELSE [after EXCEPT !.pc = "instructions"]
  BY DEF CheckHook
<1> HIDE DEF found
<1>4. /\ after \in Doctors /\ after.left = doctor.left
      /\ after.configured = doctor.configured
      /\ after.still = doctor.still
      /\ after.fails = doctor.fails \cup found
  BY <1>1, <1>2 DEF Doctors
<1> HIDE DEF after
<1>5. Tail(doctor.left) \in Seq(Scopes)
  BY <1>1, TargetOK
<1>6. CASE text.kind \in {"absent", "garbage"}
  <2>1. doctor' = Onward(after, Tail(doctor.left))
    BY <1>3, <1>6
  <2>2. /\ doctor' \in Doctors
        /\ doctor'.left = Tail(doctor.left)
        /\ doctor'.pc = IF Tail(doctor.left) = <<>> THEN "machine" ELSE "hook"
        /\ doctor'.configured = after.configured
        /\ doctor'.fails = after.fails /\ doctor'.still = after.still
    BY <1>4, <1>5, <2>1, OnwardOK
  <2>3. QED
    BY <1>4, <1>6, <2>2 DEF found
<1>7. CASE text.kind \notin {"absent", "garbage"}
  <2>1. doctor' = [after EXCEPT !.pc = "instructions"]
    BY <1>3, <1>7
  <2>2. QED
    BY <1>4, <1>7, <2>1 DEF Doctors, DoctorPcs, found
<1>8. QED
  BY <1>6, <1>7

LEMMA CheckInstructionsEffect ==
    ASSUME DoctorInv, CheckInstructions
    PROVE  /\ doctor' \in Doctors
           /\ doctor'.configured = doctor.configured
           /\ doctor'.still = doctor.still
           /\ doctor'.fails = doctor.fails \cup
                Finding("instructions", disk[Target].lacon_md # "absent")
           /\ doctor'.left = doctor.left
           /\ doctor'.pc = "reference"
<1> DEFINE found == Finding("instructions", disk[Target].lacon_md # "absent")
<1>1. doctor \in Doctors /\ doctor.left # <<>>
  BY DEF DoctorInv, CheckInstructions
<1>2. found \in SUBSET Findings
  BY <1>1, FindingOK
<1>3. doctor' = [doctor EXCEPT !.fails = @ \cup found, !.pc = "reference"]
  BY DEF CheckInstructions
<1> HIDE DEF found
<1>4. QED
  BY <1>1, <1>2, <1>3 DEF Doctors, DoctorPcs, found

HasImport(s) == disk[s].claude_md # NoFile /\ "import" \in Range(disk[s].claude_md)

LEMMA CheckReferenceEffect ==
    ASSUME DoctorInv, CheckReference
    PROVE  /\ doctor' \in Doctors
           /\ doctor'.configured = doctor.configured
           /\ doctor'.still = doctor.still
           /\ doctor'.fails = doctor.fails \cup
                                Finding("reference", HasImport(Target))
           /\ doctor'.left = Tail(doctor.left)
           /\ doctor'.pc \in {"machine", "hook"}
           /\ doctor'.pc = "machine" <=> doctor'.left = <<>>
<1> DEFINE found == Finding("reference", HasImport(Target))
           on == Onward(doctor, Tail(doctor.left))
<1>1. doctor \in Doctors /\ doctor.left # <<>>
  BY DEF DoctorInv, CheckReference
<1>2. found \in SUBSET Findings /\ Tail(doctor.left) \in Seq(Scopes)
  BY <1>1, FindingOK, TargetOK
<1>3. doctor' = [on EXCEPT !.fails = @ \cup found]
  BY DEF CheckReference, HasImport
<1> HIDE DEF found
<1>4. /\ on \in Doctors /\ on.left = Tail(doctor.left)
      /\ on.pc = IF on.left = <<>> THEN "machine" ELSE "hook"
      /\ on.configured = doctor.configured
      /\ on.fails = doctor.fails /\ on.still = doctor.still
  <2>1. ASSUME NEW l \in Seq(Scopes)
        PROVE  /\ Onward(doctor, l) \in Doctors /\ Onward(doctor, l).left = l
               /\ Onward(doctor, l).pc = IF l = <<>> THEN "machine" ELSE "hook"
               /\ Onward(doctor, l).configured = doctor.configured
               /\ Onward(doctor, l).fails = doctor.fails
               /\ Onward(doctor, l).still = doctor.still
    BY <1>1, OnwardOK
  <2>2. QED
    BY <1>2, <2>1
<1> HIDE DEF on
<1>5. QED
  BY <1>2, <1>3, <1>4 DEF Doctors, found

LEMMA CheckMachineEffect ==
    ASSUME DoctorInv, CheckMachine
    PROVE  /\ doctor' \in Doctors
           /\ doctor'.configured = doctor.configured
           /\ doctor'.still = doctor.still
           /\ doctor.fails \subseteq doctor'.fails
           /\ \A f \in doctor'.fails \ doctor.fails: f[1] = "machine"
           /\ doctor.pc = "machine" /\ doctor'.pc = "done"
           /\ doctor.left = <<>> /\ doctor'.left = <<>>
<1>1. doctor \in Doctors /\ doctor.pc = "machine" /\ doctor.left = <<>>
  BY DEF DoctorInv, CheckMachine
<1>2. PICK failed \in SUBSET {"config", "rules", "db-perms", "tracker"}:
        doctor' = [doctor EXCEPT !.pc = "done",
                                 !.fails = @ \cup {"machine"} \X failed]
  BY DEF CheckMachine
<1> DEFINE found == {"machine"} \X failed
<1>3. found \in SUBSET Findings /\ \A f \in found: f[1] = "machine"
  BY DEF Findings, Labels
<1> HIDE DEF found
<1>4. doctor' = [doctor EXCEPT !.pc = "done", !.fails = @ \cup found]
  BY <1>2 DEF found
<1>5. QED
  BY <1>1, <1>3, <1>4 DEF Doctors, DoctorPcs

LEMMA StartDoctorEffect ==
    ASSUME DoctorInv, StartDoctor
    PROVE  /\ doctor' \in Doctors
           /\ doctor.pc = "start" /\ doctor'.pc = "probe"
           /\ doctor'.left # <<>> /\ Range(doctor'.left) = Scopes
           /\ doctor'.configured = doctor.configured
           /\ doctor'.fails = doctor.fails
           /\ doctor'.still = {s \in Scopes: ~Active(s)}
<1> DEFINE both == <<"project", "user">>
           calm == {s \in Scopes: ~Active(s)}
<1>1. both \in Seq(Scopes) /\ both # <<>>
  BY TuplesInSeq DEF Scopes
<1>2. Range(both) = Scopes
  <2>1. DOMAIN both = {1, 2} /\ both[1] = "project" /\ both[2] = "user"
    OBVIOUS
  <2>2. QED
    BY <2>1 DEF Range, Scopes
<1>3. calm \in SUBSET Scopes
  OBVIOUS
<1>4. /\ doctor.pc = "start"
      /\ doctor' = [doctor EXCEPT !.pc = "probe", !.left = both, !.still = calm]
  BY DEF StartDoctor
<1> HIDE DEF both, calm
<1>5. doctor \in Doctors
  BY DEF DoctorInv
<1>6. QED
  BY <1>1, <1>2, <1>3, <1>4, <1>5 DEF Doctors, DoctorPcs, calm

LEMMA DoctorType ==
    ASSUME DoctorInv, StartDoctor \/ DoctorStep
    PROVE  DoctorInv'
<1>1. CASE StartDoctor
  BY <1>1, StartDoctorEffect DEF DoctorInv
<1>2. CASE Probe
  BY <1>2, ProbeEffect DEF DoctorInv
<1>3. CASE CheckHook
  BY <1>3, CheckHookEffect DEF DoctorInv, CheckHook
<1>4. CASE CheckInstructions
  BY <1>4, CheckInstructionsEffect DEF DoctorInv, CheckInstructions
<1>5. CASE CheckReference
  BY <1>5, CheckReferenceEffect DEF DoctorInv
<1>6. CASE CheckMachine
  BY <1>6, CheckMachineEffect DEF DoctorInv
<1>7. QED
  BY <1>1, <1>2, <1>3, <1>4, <1>5, <1>6 DEF DoctorStep

\* Starting an init.
LEMMA StartType ==
    ASSUME TypeInv, NEW p \in Inits, StartInit(p)
    PROVE  TypeInv'
<1>1. PICK run \in Runs[p]: init' = [init EXCEPT ![p] = Enters(p, SelectScopes(run), "failed")]
  BY DEF StartInit
<1>2. InitOK(Enters(p, SelectScopes(run), "failed"))
  BY SelectScopesOK, EntersOK DEF TypeInv
<1>3. InitInv'
  BY <1>1, <1>2 DEF TypeInv, InitInv
<1>4. QED
  BY <1>3 DEF StartInit, TypeInv, DiskInv, DoctorInv, HistoryInv

LEMMA TypeNext == TypeInv /\ FillInv /\ [Next]_vars => TypeInv'
<1> SUFFICES ASSUME TypeInv, FillInv, [Next]_vars PROVE TypeInv'
  OBVIOUS
<1>1. ASSUME NEW p \in Inits, StartInit(p) PROVE TypeInv'
  BY <1>1, StartType
<1>2. ASSUME NEW p \in Inits, NEW s \in Scopes, InitStep(p, s) \/ Stop(p, s)
      PROVE  TypeInv'
  BY <1>2, InitStepOfInit, InitStepOfDisk, InitStepOfRest DEF TypeInv
<1>3. ASSUME NEW s \in Scopes, Edit(s) PROVE TypeInv'
  BY <1>3, EditType
<1>4. CASE StartDoctor \/ DoctorStep
  <2>1. UNCHANGED <<disk, init, mishaps, mine, lost, whole>>
    BY <1>4 DEF StartDoctor, DoctorStep, Probe, CheckHook, CheckInstructions,
                CheckReference, CheckMachine, DoctorUnchanged
  <2>2. DoctorInv'
    BY <1>4, DoctorType DEF TypeInv
  <2>3. QED
    BY <2>1, <2>2 DEF TypeInv, DiskInv, InitInv, HistoryInv
<1>5. CASE UNCHANGED vars
  BY <1>5 DEF vars, TypeInv, DiskInv, InitInv, DoctorInv, HistoryInv
<1>6. QED
  BY <1>1, <1>2, <1>3, <1>4, <1>5 DEF Next, Over

-----------------------------------------------------------------------------
\* What a step of an init changes, in terms of the values before.
Goes(p, from, to) ==
    /\ init[p].pc = from /\ init'[p].pc = to
    /\ init'[p].scopes = init[p].scopes

KeepsClaudeMd(s) == disk'[s].claude_md = disk[s].claude_md
KeepsLaconMd(s) == disk'[s].lacon_md = disk[s].lacon_md
KeepsSettings(s) == disk'[s].settings = disk[s].settings

LEMMA InitEffects ==
    ASSUME DiskInv, InitInv, NEW p \in Inits, NEW s \in Scopes
    PROVE  /\ Skeleton(p, s) =>
                /\ Goes(p, "skeleton", "read settings")
                /\ init'[p].claude_md = init[p].claude_md
                /\ KeepsSettings(s) /\ KeepsLaconMd(s) /\ KeepsClaudeMd(s)
           /\ ReadSettings(p, s) =>
                /\ \/ Goes(p, "read settings", "failed")
                   \/ Goes(p, "read settings", "write settings")
                /\ init'[p].claude_md = init[p].claude_md
           /\ WriteSettings(p, s) =>
                /\ Goes(p, "write settings", "truncate LACON.md")
                /\ init'[p].claude_md = init[p].claude_md
                /\ disk'[s].settings = InstallLaconHook(init[p].settings)
                /\ KeepsLaconMd(s) /\ KeepsClaudeMd(s)
           /\ TruncateLaconMd(p, s) =>
                /\ Goes(p, "truncate LACON.md", "fill LACON.md")
                /\ init'[p].claude_md = init[p].claude_md
                /\ disk'[s].lacon_md # "absent"
                /\ KeepsSettings(s) /\ KeepsClaudeMd(s)
           /\ FillLaconMd(p, s) =>
                /\ Goes(p, "fill LACON.md", "read CLAUDE.md")
                /\ init'[p].claude_md = init[p].claude_md
                /\ disk'[s].lacon_md # "absent"
                /\ KeepsSettings(s) /\ KeepsClaudeMd(s)
           /\ ReadClaudeMd(p, s) =>
                /\ Goes(p, "read CLAUDE.md", "truncate CLAUDE.md")
                /\ init'[p].claude_md = IF disk[s].claude_md = NoFile THEN <<>>
                                        ELSE disk[s].claude_md
           /\ TruncateClaudeMd(p, s) =>
                /\ Goes(p, "truncate CLAUDE.md", "fill CLAUDE.md")
                /\ init'[p].claude_md = init[p].claude_md
                /\ disk'[s].claude_md = <<>>
                /\ KeepsSettings(s) /\ KeepsLaconMd(s)
           /\ FillClaudeMd(p, s) =>
                /\ init[p].pc = "fill CLAUDE.md"
                /\ init'[p].pc \in {"skeleton", "done"}
                /\ disk'[s].claude_md = Overlay(
                        InstallReferenceLine(init[p].claude_md), disk[s].claude_md)
                /\ KeepsSettings(s) /\ KeepsLaconMd(s)
           /\ Stop(p, s) =>
                /\ init'[p].pc \in {"failed", "killed"}
                /\ init'[p].claude_md = init[p].claude_md
<1> USE DEF InitInv, InitOK, DiskInv, DiskOK, Goes, KeepsClaudeMd, KeepsLaconMd,
            KeepsSettings, At, In, Ended
<1>1. ASSUME Skeleton(p, s)
      PROVE  /\ Goes(p, "skeleton", "read settings")
             /\ init'[p].claude_md = init[p].claude_md
             /\ KeepsSettings(s) /\ KeepsLaconMd(s) /\ KeepsClaudeMd(s)
  BY <1>1 DEF Skeleton
<1>2. ASSUME ReadSettings(p, s)
      PROVE  /\ \/ Goes(p, "read settings", "failed")
                \/ Goes(p, "read settings", "write settings")
             /\ init'[p].claude_md = init[p].claude_md
  BY <1>2 DEF ReadSettings
<1>3. ASSUME WriteSettings(p, s)
      PROVE  /\ Goes(p, "write settings", "truncate LACON.md")
             /\ init'[p].claude_md = init[p].claude_md
             /\ disk'[s].settings = InstallLaconHook(init[p].settings)
             /\ KeepsLaconMd(s) /\ KeepsClaudeMd(s)
  BY <1>3 DEF WriteSettings
<1>4. ASSUME TruncateLaconMd(p, s)
      PROVE  /\ Goes(p, "truncate LACON.md", "fill LACON.md")
             /\ init'[p].claude_md = init[p].claude_md
             /\ disk'[s].lacon_md # "absent"
             /\ KeepsSettings(s) /\ KeepsClaudeMd(s)
  BY <1>4 DEF TruncateLaconMd
<1>5. ASSUME FillLaconMd(p, s)
      PROVE  /\ Goes(p, "fill LACON.md", "read CLAUDE.md")
             /\ init'[p].claude_md = init[p].claude_md
             /\ disk'[s].lacon_md # "absent"
             /\ KeepsSettings(s) /\ KeepsClaudeMd(s)
  BY <1>5 DEF FillLaconMd
<1>6. ASSUME ReadClaudeMd(p, s)
      PROVE  /\ Goes(p, "read CLAUDE.md", "truncate CLAUDE.md")
             /\ init'[p].claude_md = IF disk[s].claude_md = NoFile THEN <<>>
                                     ELSE disk[s].claude_md
  BY <1>6 DEF ReadClaudeMd
<1>7. ASSUME TruncateClaudeMd(p, s)
      PROVE  /\ Goes(p, "truncate CLAUDE.md", "fill CLAUDE.md")
             /\ init'[p].claude_md = init[p].claude_md
             /\ disk'[s].claude_md = <<>>
             /\ KeepsSettings(s) /\ KeepsLaconMd(s)
  BY <1>7 DEF TruncateClaudeMd
<1>8. ASSUME FillClaudeMd(p, s)
      PROVE  /\ init[p].pc = "fill CLAUDE.md"
             /\ init'[p].pc \in {"skeleton", "done"}
             /\ disk'[s].claude_md = Overlay(
                    InstallReferenceLine(init[p].claude_md), disk[s].claude_md)
             /\ KeepsSettings(s) /\ KeepsLaconMd(s)
  BY <1>8 DEF FillClaudeMd, Enters, NotStarted
<1>9. ASSUME Stop(p, s)
      PROVE  /\ init'[p].pc \in {"failed", "killed"}
             /\ init'[p].claude_md = init[p].claude_md
  BY <1>9 DEF Stop
<1>10. QED
  BY <1>1, <1>2, <1>3, <1>4, <1>5, <1>6, <1>7, <1>8, <1>9

\* What no step of p in scope s changes.
LEMMA InitFrame ==
    ASSUME DiskInv, InitInv, NEW p \in Inits, NEW s \in Scopes,
           InitStep(p, s) \/ Stop(p, s)
    PROVE  /\ In(p, s)
           /\ \A q \in Inits \ {p}: init'[q] = init[q]
           /\ \A t \in Scopes \ {s}: disk'[t] = disk[t]
           /\ mine' = mine
           /\ DOMAIN init' = Inits /\ DOMAIN disk' = Scopes
<1> USE DEF InitInv, DiskInv, At
<1>1. CASE Skeleton(p, s)
  BY <1>1 DEF Skeleton
<1>2. CASE ReadSettings(p, s)
  BY <1>2 DEF ReadSettings
<1>3. CASE WriteSettings(p, s)
  BY <1>3 DEF WriteSettings
<1>4. CASE TruncateLaconMd(p, s)
  BY <1>4 DEF TruncateLaconMd
<1>5. CASE FillLaconMd(p, s)
  BY <1>5 DEF FillLaconMd
<1>6. CASE ReadClaudeMd(p, s)
  BY <1>6 DEF ReadClaudeMd
<1>7. CASE TruncateClaudeMd(p, s)
  BY <1>7 DEF TruncateClaudeMd
<1>8. CASE FillClaudeMd(p, s)
  BY <1>8 DEF FillClaudeMd
<1>9. CASE Stop(p, s)
  BY <1>9 DEF Stop
<1>10. QED
  BY <1>1, <1>2, <1>3, <1>4, <1>5, <1>6, <1>7, <1>8, <1>9 DEF InitStep

LEMMA SequencesAreFiles == \A text \in Seq(Lines): text # NoFile
BY LinesAssumption DEF LinesAssumption

\* What an init makes of CLAUDE.md: it is never taken away.
LEMMA ClaudeMdStays ==
    ASSUME TypeInv, FillInv, NEW p \in Inits, NEW s \in Scopes,
           InitStep(p, s) \/ Stop(p, s)
    PROVE  \/ KeepsClaudeMd(s)
           \/ disk'[s].claude_md \in Seq(Lines)
<1>1. CASE TruncateClaudeMd(p, s)
  BY <1>1, InitEffects, EmptyInSeq DEF TypeInv
<1>2. CASE FillClaudeMd(p, s)
  <2>1. disk[s].claude_md \in Seq(Lines)
    BY <1>2 DEF TypeInv, DiskInv, DiskOK, FillInv, FillClaudeMd
  <2>2. InstallReferenceLine(init[p].claude_md) \in Seq(Lines)
    BY ReferenceLineInstalled DEF TypeInv, InitInv, InitOK
  <2>3. QED
    BY <1>2, <2>1, <2>2, InitEffects, OverlayKeeps DEF TypeInv
<1>3. CASE ReadSettings(p, s) \/ ReadClaudeMd(p, s) \/ Stop(p, s)
  BY <1>3 DEF ReadSettings, ReadClaudeMd, Stop, KeepsClaudeMd
<1>4. QED
  BY <1>1, <1>2, <1>3, InitEffects DEF InitStep, TypeInv

\* Who writes CLAUDE.md finds it there.
LEMMA FillNext == TypeInv /\ FillInv /\ [Next]_vars => FillInv'
<1> SUFFICES ASSUME TypeInv, FillInv, [Next]_vars,
                    NEW q \in Inits, NEW t \in Scopes, At(q, t, "fill CLAUDE.md")'
             PROVE  disk'[t].claude_md # NoFile
  BY DEF FillInv
<1>1. ASSUME NEW p \in Inits, StartInit(p) PROVE disk'[t].claude_md # NoFile
  <2>1. CASE q = p
    BY <1>1, <2>1 DEF StartInit, Enters, NotStarted, At, In, TypeInv, InitInv, InitOK
  <2>2. CASE q # p
    BY <1>1, <2>2 DEF StartInit, At, In, TypeInv, InitInv, FillInv
  <2>3. QED
    BY <2>1, <2>2
<1>2. ASSUME NEW p \in Inits, NEW s \in Scopes, InitStep(p, s) \/ Stop(p, s)
      PROVE  disk'[t].claude_md # NoFile
  <2>1. CASE q = p
    <3>1. TruncateClaudeMd(p, s)
      BY <1>2, <2>1, InitEffects DEF TypeInv, InitStep, Goes, At, In
    <3>2. s = t
      BY <2>1, <3>1, InitEffects, ZenonT(60) DEF TypeInv, Goes, TruncateClaudeMd, At, In
    <3>3. QED
      BY <3>1, <3>2, InitEffects, SequencesAreFiles, EmptyInSeq DEF TypeInv
  <2>2. CASE q # p
    <3>1. At(q, t, "fill CLAUDE.md") /\ disk[t].claude_md # NoFile
      BY <1>2, <2>2, InitFrame, ZenonT(60) DEF TypeInv, FillInv, At, In
    <3>2. CASE t = s
      BY <1>2, <3>1, <3>2, ClaudeMdStays, SequencesAreFiles DEF KeepsClaudeMd
    <3>3. CASE t # s
      BY <1>2, <3>1, <3>3, InitFrame DEF TypeInv
    <3>4. QED
      BY <3>2, <3>3
  <2>3. QED
    BY <2>1, <2>2
<1>3. ASSUME NEW s \in Scopes, Edit(s) PROVE disk'[t].claude_md # NoFile
  <2>1. At(q, t, "fill CLAUDE.md") /\ disk[t].claude_md # NoFile
    BY <1>3 DEF Edit, FillInv, At, In
  <2>2. DiskInv'
    BY <1>3, EditType DEF TypeInv
  <2>3. CASE EditSettings(s)
    BY <2>1, <2>3, EditedSettings DEF TypeInv
  <2>4. CASE EditClaudeMd(s)
    <3>1. t # s => disk'[t] = disk[t]
      BY <2>4 DEF EditClaudeMd, TypeInv, DiskInv
    <3>2. CASE t = s
      <4>1. disk'[s].claude_md \in Seq(Lines)
        BY <2>1, <2>4, <3>2, EditedClaudeMd DEF TypeInv
      <4>2. QED
        BY <3>2, <4>1, SequencesAreFiles
    <3>3. QED
      BY <2>1, <3>1, <3>2
  <2>5. QED
    BY <1>3, <2>3, <2>4 DEF Edit
<1>4. CASE StartDoctor \/ DoctorStep \/ UNCHANGED vars
  <2>1. UNCHANGED <<disk, init>>
    BY <1>4 DEF StartDoctor, DoctorStep, Probe, CheckHook, CheckInstructions,
                CheckReference, CheckMachine, DoctorUnchanged, vars
  <2>2. QED
    BY <2>1 DEF FillInv, At, In
<1>6. QED
  BY <1>1, <1>2, <1>3, <1>4 DEF Next, Over

\* The state keeps its shape: an init that writes settings holds an object
\* it read (init.rs:269), scopes are visited while there are any.
THEOREM SetupTypeCorrect == Spec => []SetupTypeOK
<1>1. TypeInv => SetupTypeOK
  <2> SUFFICES ASSUME TypeInv PROVE SetupTypeOK
    OBVIOUS
  <2>1. ASSUME NEW p \in Inits
        PROVE  /\ init[p].pc \in Pcs
               /\ init[p].pc \notin Ended => init[p].scopes # <<>>
               /\ init[p].pc = "write settings" => IsObject(init[p].settings)
    BY DEF TypeInv, InitInv, InitOK, Pcs, InitPcs
  <2>2. ASSUME NEW p \in Inits PROVE Range(init[p].scopes) \subseteq Scopes
    <3>1. init[p].scopes \in Seq(Scopes)
      BY DEF TypeInv, InitInv, InitOK
    <3>2. QED
      BY <3>1 DEF Range
  <2>3. ASSUME NEW s \in Scopes
        PROVE  /\ disk[s].lacon_md \in {"absent", "empty", "body"}
               /\ whole[s] \in {"spoilt", "in progress", "whole"}
    BY DEF TypeInv, DiskInv, DiskOK, HistoryInv
  <2>4. /\ doctor.configured \subseteq Scopes /\ doctor.still \subseteq Scopes
        /\ doctor.pc \in {"hook", "instructions", "reference"} => doctor.left # <<>>
    BY DEF TypeInv, DoctorInv, Doctors
  <2>5. QED
    BY <2>1, <2>2, <2>3, <2>4 DEF SetupTypeOK
<1>2. Init => TypeInv /\ FillInv
  BY TypeInit
<1>3. TypeInv /\ FillInv /\ [Next]_vars => (TypeInv /\ FillInv)'
  BY TypeNext, FillNext
<1>4. QED
  BY <1>1, <1>2, <1>3, PTL DEF Spec

-----------------------------------------------------------------------------
(***************************************************************************)
(* The user's lines.  As long as nobody got in between, whoever is going   *)
(* to write CLAUDE.md holds them, and so does the file unless somebody has *)
(* just truncated it.                                                      *)
(***************************************************************************)
Untouched(s) == "CLAUDE.md" \notin lost[s]

Holds(p, s) ==
    At(p, s, "truncate CLAUDE.md") \/ At(p, s, "fill CLAUDE.md")
        => mine[s].lines \subseteq OwnLines(init[p].claude_md)

LinesInv ==
    \A s \in Scopes: Untouched(s) =>
        /\ \A p \in Inits: Holds(p, s)
        /\ \/ \E p \in Inits: At(p, s, "fill CLAUDE.md")
           \/ mine[s].lines \subseteq OwnLines(disk[s].claude_md)

LEMMA OwnLinesOfSeq ==
    ASSUME NEW text \in Seq(Lines)
    PROVE  OwnLines(text) = Range(text) \ {"import", "blank"}
BY SequencesAreFiles DEF OwnLines

LEMMA LinesFilled ==
    ASSUME NEW text \in Seq(Lines), NEW old \in Seq(Lines)
    PROVE  OwnLines(text) \subseteq OwnLines(Overlay(InstallReferenceLine(text), old))
<1>1. /\ InstallReferenceLine(text) \in Seq(Lines)
      /\ Range(text) \subseteq Range(InstallReferenceLine(text))
  BY ReferenceLineInstalled
<1>2. /\ Overlay(InstallReferenceLine(text), old) \in Seq(Lines)
      /\ Range(text) \subseteq Range(Overlay(InstallReferenceLine(text), old))
  BY <1>1, OverlayKeeps
<1>3. QED
  BY <1>2, OwnLinesOfSeq

LEMMA LinesInit == Init => LinesInv
<1> SUFFICES ASSUME Init PROVE LinesInv
  OBVIOUS
<1>1. \A p \in Inits: init[p].pc = "start"
  BY DEF Init, NotStarted
<1>2. \A p \in Inits, s \in Scopes: Holds(p, s)
  BY <1>1 DEF Holds, At
<1>3. \A s \in Scopes: mine[s].lines = OwnLines(disk[s].claude_md)
  BY DEF Init
<1>4. QED
  BY <1>2, <1>3 DEF LinesInv

LEMMA LinesInitStep ==
    ASSUME TypeInv, FillInv, LinesInv, NEW p \in Inits, NEW s \in Scopes,
           InitStep(p, s) \/ Stop(p, s), NEW t \in Scopes, Untouched(t)'
    PROVE  /\ \A q \in Inits: Holds(q, t)'
           /\ \/ \E q \in Inits: At(q, t, "fill CLAUDE.md")'
              \/ mine'[t].lines \subseteq OwnLines(disk'[t].claude_md)
<1>1. /\ Untouched(t)
      /\ Stop(p, s) /\ s = t => init[p].pc # "fill CLAUDE.md"
      /\ ReadClaudeMd(p, s) /\ s = t =>
            \A q \in Inits \ {p}: ~At(q, s, "fill CLAUDE.md")
  <2> USE DEF TypeInv, HistoryInv, Untouched
  <2>1. CASE ReadClaudeMd(p, s)
    BY <2>1 DEF ReadClaudeMd, Others, Stop, At
  <2>2. CASE Stop(p, s)
    BY <2>2, InitEffects DEF Stop, ReadClaudeMd, Goes, At
  <2>3. CASE ~ReadClaudeMd(p, s) /\ ~Stop(p, s)
    <3>1. lost' = lost
      BY <2>3 DEF InitStep, Skeleton, ReadSettings, WriteSettings, TruncateLaconMd,
                  FillLaconMd, TruncateClaudeMd, FillClaudeMd
    <3>2. QED
      BY <2>3, <3>1
  <2>4. QED
    BY <2>1, <2>2, <2>3
<1>2. /\ \A q \in Inits: Holds(q, t)
      /\ \/ \E q \in Inits: At(q, t, "fill CLAUDE.md")
         \/ mine[t].lines \subseteq OwnLines(disk[t].claude_md)
  BY <1>1 DEF LinesInv
<1>3. ASSUME NEW q \in Inits \ {p}
      PROVE  Holds(q, t)' /\ (At(q, t, "fill CLAUDE.md")' <=> At(q, t, "fill CLAUDE.md"))
  BY <1>2, InitFrame DEF TypeInv, Holds, At, In
<1>4. CASE t # s
  <2>1. disk'[t] = disk[t] /\ mine' = mine
    BY <1>4, InitFrame DEF TypeInv
  <2>2. ~At(p, t, "fill CLAUDE.md") /\ ~At(p, t, "fill CLAUDE.md")'
        /\ ~At(p, t, "truncate CLAUDE.md")'
    <3>1. In(p, s)
      BY InitFrame DEF TypeInv
    <3>2. CASE FillClaudeMd(p, s) \/ Stop(p, s)
      BY <1>4, <3>1, <3>2, InitEffects DEF TypeInv, At, In
    <3>3. CASE ~FillClaudeMd(p, s) /\ ~Stop(p, s)
      <4>1. init'[p].scopes = init[p].scopes
        BY <3>3, InitEffects DEF TypeInv, InitStep, Goes
      <4>2. QED
        BY <1>4, <3>1, <4>1 DEF At, In
    <3>4. QED
      BY <3>2, <3>3
  <2>3. QED
    BY <1>2, <1>3, <2>1, <2>2 DEF Holds
<1>5. CASE t = s
  <2>0. mine' = mine /\ In(p, s)
    BY InitFrame DEF TypeInv
  <2>1. CASE TruncateClaudeMd(p, s)
    <3>1. At(p, s, "fill CLAUDE.md")' /\ Holds(p, s)'
      BY <1>2, <1>5, <2>0, <2>1, InitEffects DEF TypeInv, TruncateClaudeMd, Goes, At, In, Holds, Ended
    <3>2. QED
      BY <1>3, <1>5, <3>1
  <2>2. CASE FillClaudeMd(p, s)
    <3>1. init[p].claude_md \in Seq(Lines) /\ disk[s].claude_md \in Seq(Lines)
      BY <2>2 DEF TypeInv, InitInv, InitOK, DiskInv, DiskOK, FillInv, FillClaudeMd
    <3>2. mine[s].lines \subseteq OwnLines(init[p].claude_md)
      BY <1>2, <1>5, <2>2 DEF Holds, FillClaudeMd
    <3>3. mine'[s].lines \subseteq OwnLines(disk'[s].claude_md)
      BY <2>0, <2>2, <3>1, <3>2, LinesFilled, InitEffects DEF TypeInv
    <3>4. Holds(p, s)'
      BY <2>2, InitEffects DEF TypeInv, Holds, At, In
    <3>5. QED
      BY <1>3, <1>5, <3>3, <3>4
  <2>3. CASE ReadClaudeMd(p, s)
    <3>1. mine[s].lines \subseteq OwnLines(disk[s].claude_md)
      BY <1>1, <1>2, <1>5, <2>3 DEF ReadClaudeMd, At
    <3>2. OwnLines(disk[s].claude_md) \subseteq OwnLines(init'[p].claude_md)
      BY <2>3, InitEffects DEF TypeInv, OwnLines
    <3>3. disk' = disk
      BY <2>3 DEF ReadClaudeMd
    <3>4. QED
      BY <1>3, <1>5, <2>0, <3>1, <3>2, <3>3 DEF Holds
  <2>4. CASE ~TruncateClaudeMd(p, s) /\ ~FillClaudeMd(p, s) /\ ~ReadClaudeMd(p, s)
    <3>1. ~At(p, s, "truncate CLAUDE.md")' /\ ~At(p, s, "fill CLAUDE.md")'
      BY <2>4, InitEffects DEF TypeInv, InitStep, Goes, At, In
    <3>2. ~At(p, s, "fill CLAUDE.md")
      BY <1>1, <1>5, <2>4, InitEffects DEF TypeInv, InitStep, Goes, At, In
    <3>3. KeepsClaudeMd(s)
      BY <2>4, InitEffects DEF TypeInv, InitStep, ReadSettings, Stop, KeepsClaudeMd
    <3>4. QED
      BY <1>2, <1>3, <1>5, <2>0, <3>1, <3>2, <3>3 DEF Holds, KeepsClaudeMd
  <2>5. QED
    BY <2>1, <2>2, <2>3, <2>4
<1>6. QED
  BY <1>4, <1>5

LEMMA LinesEdit ==
    ASSUME TypeInv, LinesInv, NEW s \in Scopes, Edit(s),
           NEW t \in Scopes, Untouched(t)'
    PROVE  /\ \A q \in Inits: Holds(q, t)'
           /\ \/ \E q \in Inits: At(q, t, "fill CLAUDE.md")'
              \/ mine'[t].lines \subseteq OwnLines(disk'[t].claude_md)
<1>0. init' = init
  BY DEF Edit
<1>1. Untouched(t)
  <2>1. PICK f \in Files: lost' = lost \/ lost' = [lost EXCEPT ![s] = @ \cup {f}]
    BY DEF Edit, EditSettings, EditClaudeMd, Files
  <2>2. lost[t] \subseteq lost'[t]
    BY <2>1 DEF TypeInv, HistoryInv
  <2>3. QED
    BY <2>2 DEF Untouched
<1>2. /\ \A q \in Inits: Holds(q, t)
      /\ \/ \E q \in Inits: At(q, t, "fill CLAUDE.md")
         \/ mine[t].lines \subseteq OwnLines(disk[t].claude_md)
  BY <1>1 DEF LinesInv
<1>3. CASE mine'[t].lines = mine[t].lines /\ KeepsClaudeMd(t)
  BY <1>0, <1>2, <1>3 DEF Holds, At, In, KeepsClaudeMd
<1>4. CASE EditSettings(s)
  BY <1>3, <1>4, EditedSettings DEF TypeInv, KeepsClaudeMd
<1>5. CASE EditClaudeMd(s)
  <2>1. PICK new \in Seq(Lines):
          /\ disk' = [disk EXCEPT ![s].claude_md = new]
          /\ disk'[s].claude_md = new
          /\ mine' = [mine EXCEPT ![s].lines = OwnLines(new)]
          /\ mine'[s].lines = OwnLines(new)
    BY <1>5, EditedClaudeMd DEF TypeInv
  <2>2. CASE t # s
    BY <1>3, <2>1, <2>2 DEF KeepsClaudeMd, TypeInv, DiskInv, HistoryInv
  <2>3. CASE t = s
    <3>1. \A q \in Inits: ~At(q, s, "truncate CLAUDE.md") /\ ~At(q, s, "fill CLAUDE.md")
      BY <1>5, <2>3 DEF EditClaudeMd, Untouched, TypeInv, HistoryInv
    <3>2. QED
      BY <1>0, <2>1, <2>3, <3>1 DEF Holds, At, In
  <2>4. QED
    BY <2>2, <2>3
<1>6. QED
  BY <1>4, <1>5 DEF Edit

LEMMA LinesNext == TypeInv /\ FillInv /\ LinesInv /\ [Next]_vars => LinesInv'
<1> SUFFICES ASSUME TypeInv, FillInv, LinesInv, [Next]_vars,
                    NEW t \in Scopes, Untouched(t)'
             PROVE  /\ \A q \in Inits: Holds(q, t)'
                    /\ \/ \E q \in Inits: At(q, t, "fill CLAUDE.md")'
                       \/ mine'[t].lines \subseteq OwnLines(disk'[t].claude_md)
  BY DEF LinesInv
<1>1. ASSUME NEW p \in Inits, StartInit(p)
      PROVE  /\ \A q \in Inits: Holds(q, t)'
             /\ \/ \E q \in Inits: At(q, t, "fill CLAUDE.md")'
                \/ mine'[t].lines \subseteq OwnLines(disk'[t].claude_md)
  <2>1. /\ init[p].pc = "start" /\ init'[p].pc \in {"skeleton", "failed"}
        /\ \A q \in Inits \ {p}: init'[q] = init[q]
        /\ UNCHANGED <<disk, mine, lost>>
    BY <1>1 DEF StartInit, Enters, NotStarted, TypeInv, InitInv, InitOK
  <2>2. /\ \A q \in Inits: Holds(q, t)
        /\ \/ \E q \in Inits: At(q, t, "fill CLAUDE.md")
           \/ mine[t].lines \subseteq OwnLines(disk[t].claude_md)
    BY <2>1 DEF LinesInv, Untouched
  <2>3. \A q \in Inits: \A pc \in {"truncate CLAUDE.md", "fill CLAUDE.md"}:
            At(q, t, pc)' <=> At(q, t, pc)
    BY <2>1 DEF At, In
  <2>4. QED
    BY <2>1, <2>2, <2>3 DEF Holds, At, Ended, In
<1>2. ASSUME NEW p \in Inits, NEW s \in Scopes, InitStep(p, s) \/ Stop(p, s)
      PROVE  /\ \A q \in Inits: Holds(q, t)'
             /\ \/ \E q \in Inits: At(q, t, "fill CLAUDE.md")'
                \/ mine'[t].lines \subseteq OwnLines(disk'[t].claude_md)
  BY <1>2, LinesInitStep
<1>3. ASSUME NEW s \in Scopes, Edit(s)
      PROVE  /\ \A q \in Inits: Holds(q, t)'
             /\ \/ \E q \in Inits: At(q, t, "fill CLAUDE.md")'
                \/ mine'[t].lines \subseteq OwnLines(disk'[t].claude_md)
  BY <1>3, LinesEdit
<1>4. CASE StartDoctor \/ DoctorStep \/ UNCHANGED vars
  <2>1. UNCHANGED <<disk, init, mine, lost>>
    BY <1>4 DEF StartDoctor, DoctorStep, Probe, CheckHook, CheckInstructions,
                CheckReference, CheckMachine, DoctorUnchanged, vars
  <2>2. QED
    BY <2>1 DEF LinesInv, Untouched, Holds, At, In
<1>5. QED
  BY <1>1, <1>2, <1>3, <1>4 DEF Next, Over

\* No line of the user's CLAUDE.md is lost, however many inits run, but
\* while an init is between its own truncation and its write, and unless it
\* stops there, or another init reads the file just then, or the user saves it
\* between an init's read and its write (init.rs:323).
THEOREM OwnLinesKeptAlways == Spec => []OwnLinesKept
<1>1. LinesInv => OwnLinesKept
  BY DEF LinesInv, OwnLinesKept, Untouched
<1>2. Init => TypeInv /\ FillInv /\ LinesInv
  BY TypeInit, LinesInit
<1>3. TypeInv /\ FillInv /\ LinesInv /\ [Next]_vars
        => (TypeInv /\ FillInv /\ LinesInv)'
  BY TypeNext, FillNext, LinesNext
<1>4. QED
  BY <1>1, <1>2, <1>3, PTL DEF Spec

-----------------------------------------------------------------------------
(***************************************************************************)
(* The doctor's verdict.  A scope in doctor.still has been left alone      *)
(* since the doctor began, so what the doctor saw of it is still so.       *)
(***************************************************************************)
Complete(s) == disk[s].lacon_md # "absent" /\ HasImport(s)
Reported(s) == \E f \in doctor.fails: f[1] = s

Bystander ==
    \/ \E p \in Inits: StartInit(p)
    \/ \E p \in Inits, s \in Scopes: InitStep(p, s) \/ Stop(p, s)
    \/ \E s \in Scopes: Edit(s)

\* Whoever writes to a scope takes it out of doctor.still.
LEMMA BystanderEffect ==
    ASSUME TypeInv, Bystander
    PROVE  /\ doctor'.pc = doctor.pc /\ doctor'.left = doctor.left
           /\ doctor'.configured = doctor.configured
           /\ doctor'.fails = doctor.fails
           /\ doctor'.still \subseteq doctor.still
           /\ \A t \in Scopes: t \in doctor'.still =>
                /\ disk'[t] = disk[t]
                /\ whole'[t] \in {whole[t], "spoilt"}
<1>0. doctor \in Doctors
  BY DEF TypeInv, DoctorInv
<1>1. ASSUME NEW s \in Scopes, Touch(s),
             \A t \in Scopes \ {s}: disk'[t] = disk[t] /\ whole'[t] = whole[t]
      PROVE  /\ doctor'.pc = doctor.pc /\ doctor'.left = doctor.left
             /\ doctor'.configured = doctor.configured
             /\ doctor'.fails = doctor.fails
             /\ doctor'.still \subseteq doctor.still
             /\ \A t \in Scopes: t \in doctor'.still =>
                  /\ disk'[t] = disk[t]
                  /\ whole'[t] \in {whole[t], "spoilt"}
  BY <1>0, <1>1 DEF Touch, Doctors
<1>2. ASSUME UNCHANGED <<disk, doctor>>,
             \A t \in Scopes: whole'[t] \in {whole[t], "spoilt"}
      PROVE  /\ doctor'.pc = doctor.pc /\ doctor'.left = doctor.left
             /\ doctor'.configured = doctor.configured
             /\ doctor'.fails = doctor.fails
             /\ doctor'.still \subseteq doctor.still
             /\ \A t \in Scopes: t \in doctor'.still =>
                  /\ disk'[t] = disk[t]
                  /\ whole'[t] \in {whole[t], "spoilt"}
  BY <1>2
<1> USE DEF TypeInv, HistoryInv, DiskInv
<1>3. CASE \E p \in Inits: StartInit(p)
  BY <1>2, <1>3 DEF StartInit
<1>4. ASSUME NEW p \in Inits, NEW s \in Scopes,
             ReadSettings(p, s) \/ ReadClaudeMd(p, s) \/ Stop(p, s)
      PROVE  /\ UNCHANGED <<disk, doctor>>
             /\ \A t \in Scopes: whole'[t] \in {whole[t], "spoilt"}
  BY <1>4 DEF ReadSettings, ReadClaudeMd, Stop
<1>5. ASSUME NEW p \in Inits, NEW s \in Scopes,
             \/ Skeleton(p, s) \/ WriteSettings(p, s) \/ TruncateLaconMd(p, s)
             \/ FillLaconMd(p, s) \/ TruncateClaudeMd(p, s) \/ FillClaudeMd(p, s)
      PROVE  /\ Touch(s)
             /\ \A t \in Scopes \ {s}: disk'[t] = disk[t] /\ whole'[t] = whole[t]
  BY <1>5 DEF Skeleton, WriteSettings, TruncateLaconMd, FillLaconMd,
              TruncateClaudeMd, FillClaudeMd
<1>6. ASSUME NEW s \in Scopes, Edit(s)
      PROVE  /\ Touch(s)
             /\ \A t \in Scopes \ {s}: disk'[t] = disk[t] /\ whole'[t] = whole[t]
  BY <1>6 DEF Edit, EditSettings, EditClaudeMd
<1>7. QED
  BY <1>1, <1>2, <1>3, <1>4, <1>5, <1>6 DEF Bystander, InitStep

LEMMA StepIsOfSomebody ==
    [Next]_vars => Bystander \/ StartDoctor \/ DoctorStep \/ UNCHANGED vars
BY DEF Next, Bystander, Over

\* The doctor only reads.
LEMMA DoctorReads ==
    StartDoctor \/ DoctorStep => UNCHANGED <<disk, init, whole>>
BY DEF StartDoctor, DoctorStep, Probe, CheckHook, CheckInstructions,
       CheckReference, CheckMachine, DoctorUnchanged

HalfInv ==
    /\ doctor.pc \in {"hook", "instructions", "reference", "machine", "done"} =>
          \A s \in doctor.still \cap doctor.configured:
             s \in Range(doctor.left) \/ Complete(s) \/ Reported(s)
    /\ doctor.pc = "reference" /\ Target \in doctor.still =>
          disk[Target].lacon_md # "absent" \/ Reported(Target)

\* The doctor has a finding on s after this step.
Saw(s) == \E f \in doctor'.fails: f[1] = s

LEMMA HalfNext == TypeInv /\ HalfInv /\ [Next]_vars => HalfInv'
<1> SUFFICES ASSUME TypeInv, HalfInv, [Next]_vars PROVE HalfInv'
  OBVIOUS
<1>0. doctor \in Doctors /\ DoctorInv
  BY DEF TypeInv, DoctorInv
<1>1. CASE Bystander
  <2>1. Target' = Target
    BY <1>1, BystanderEffect DEF Target
  <2>2. \A s \in Scopes: s \in doctor'.still =>
            (Complete(s)' <=> Complete(s)) /\ (Reported(s)' <=> Reported(s))
    BY <1>1, BystanderEffect DEF Complete, HasImport, Reported
  <2>3. doctor.still \subseteq Scopes /\ doctor'.still \subseteq doctor.still
    BY <1>0, <1>1, BystanderEffect DEF Doctors
  <2>4. QED
    BY <1>1, <2>1, <2>2, <2>3, BystanderEffect DEF HalfInv
<1>2. CASE UNCHANGED vars
  BY <1>2 DEF vars, HalfInv, Complete, HasImport, Reported, Target
<1>3. CASE StartDoctor
  BY <1>0, <1>3, StartDoctorEffect DEF HalfInv
<1>4. CASE Probe
  <2>1. PICK configured \in SUBSET Scopes:
          /\ doctor' \in Doctors
          /\ doctor'.configured = configured
          /\ \/ doctor'.pc = "probe"
             \/ /\ doctor'.left = InOrder(configured)
                /\ doctor'.pc \in {"machine", "hook"}
    BY <1>0, <1>4, ProbeEffect
  <2>2. CASE doctor'.pc = "probe"
    BY <2>2 DEF HalfInv
  <2>3. CASE doctor'.left = InOrder(configured) /\ doctor'.pc \in {"machine", "hook"}
    BY <2>1, <2>3, InOrderType DEF HalfInv
  <2>4. QED
    BY <2>1, <2>2, <2>3
<1>5. ASSUME DoctorStep, ~Probe,
             doctor.fails \subseteq doctor'.fails,
             doctor'.still = doctor.still, doctor'.configured = doctor.configured,
             \/ doctor'.left = doctor.left
             \/ /\ doctor.left # <<>> /\ doctor'.left = Tail(doctor.left)
                /\ Target \in doctor.still => Complete(Target) \/ Saw(Target)
             \/ doctor.pc = "machine",
             doctor'.pc = "reference" /\ Target' \in doctor.still =>
                disk[Target'].lacon_md # "absent" \/ Reported(Target)'
      PROVE  HalfInv'
  <2>1. UNCHANGED disk
    BY <1>5, DoctorReads
  <2>2. doctor.pc \in {"hook", "instructions", "reference", "machine"}
    BY <1>5 DEF DoctorStep, CheckHook, CheckInstructions, CheckReference, CheckMachine
  <2>3. \A s \in doctor.still \cap doctor.configured:
            s \in Range(doctor.left) \/ Complete(s) \/ Reported(s)
    BY <2>2 DEF HalfInv, Saw, Reported
  <2>4. \A s: Reported(s) => Reported(s)'
    BY <1>5 DEF Reported, Saw
  <2>5. \A s: Complete(s)' <=> Complete(s)
    BY <2>1 DEF Complete, HasImport
  <2>6. CASE doctor'.left = doctor.left
    BY <1>5, <2>1, <2>3, <2>4, <2>5, <2>6 DEF HalfInv, Saw, Reported
  <2>7. CASE /\ doctor.left # <<>> /\ doctor'.left = Tail(doctor.left)
             /\ Target \in doctor.still => Complete(Target) \/ Saw(Target)
    <3>1. Range(doctor.left) = {Target} \cup Range(doctor'.left)
      BY <1>0, <2>7, TargetOK
    <3>2. QED
      BY <1>5, <2>1, <2>3, <2>4, <2>5, <2>7, <3>1 DEF HalfInv, Saw, Reported
  <2>8. CASE doctor.pc = "machine"
    <3>1. doctor.left = <<>> /\ Range(doctor.left) = {}
      BY <1>0, <2>8, EmptyInSeq DEF DoctorInv
    <3>2. QED
      BY <1>5, <2>1, <2>3, <2>4, <2>5, <2>8, <3>1 DEF HalfInv, Saw, Reported
  <2>9. QED
    BY <1>5, <2>6, <2>7, <2>8
<1>6. CASE CheckHook
  <2>0. doctor.left # <<>> /\ doctor.pc = "hook"
    BY <1>0, <1>6 DEF DoctorInv, CheckHook
  <2>1. ASSUME disk[Target].settings.kind \in {"absent", "garbage"}
        PROVE  Saw(Target)
    <3>1. ~SettingsHasHook(disk[Target].settings)
      BY <2>1 DEF SettingsHasHook, Groups
    <3>2. \E f \in Finding("hook", FALSE): f[1] = Target
      BY <1>0, <2>0, FindingOK
    <3>3. doctor'.fails = doctor.fails \cup Finding("hook", FALSE)
      BY <1>0, <1>6, <3>1, CheckHookEffect DEF SettingsHasHook, Groups
    <3>4. QED
      BY <3>2, <3>3 DEF Reported, Saw
  <2>2. QED
    BY <1>0, <1>5, <1>6, <2>0, <2>1, CheckHookEffect DEF DoctorStep, Probe
<1>7. CASE CheckInstructions
  <2>0. doctor.left # <<>> /\ doctor.pc = "instructions"
    BY <1>0, <1>7 DEF DoctorInv, CheckInstructions
  <2>1. doctor'.left = doctor.left /\ Target' = Target
    BY <1>0, <1>7, CheckInstructionsEffect DEF Target
  <2>2. disk[Target].lacon_md # "absent" \/ Reported(Target)'
    BY <1>0, <1>7, <2>0, <2>1, CheckInstructionsEffect, FindingOK DEF Reported, Saw
  <2>3. QED
    BY <1>0, <1>5, <1>7, <2>0, <2>1, <2>2, CheckInstructionsEffect DEF DoctorStep, Probe
<1>8. CASE CheckReference
  <2>0. doctor.left # <<>> /\ doctor.pc = "reference"
    BY <1>0, <1>8 DEF DoctorInv, CheckReference
  <2>1. HasImport(Target) \/ Saw(Target)
    BY <1>0, <1>8, <2>0, CheckReferenceEffect, FindingOK DEF Reported, Saw
  <2>2. Target \in doctor.still => Complete(Target) \/ Saw(Target)
    BY <1>0, <1>8, <2>0, <2>1, CheckReferenceEffect DEF HalfInv, Complete, Reported, Saw
  <2>3. QED
    BY <1>0, <1>5, <1>8, <2>0, <2>2, CheckReferenceEffect DEF DoctorStep, Probe
<1>9. CASE CheckMachine
  BY <1>0, <1>5, <1>9, CheckMachineEffect DEF DoctorStep, Probe
<1>10. QED
  BY <1>1, <1>2, <1>3, <1>4, <1>6, <1>7, <1>8, <1>9, StepIsOfSomebody DEF DoctorStep

\* A scope with the hook but without the instructions or the import is
\* never passed over (doctor.rs:44).
THEOREM HalfInstallNeverPassedOver == Spec => []HalfInstalledIsReported
<1>1. HalfInv /\ TypeInv => HalfInstalledIsReported
  BY EmptyInSeq DEF HalfInv, TypeInv, DoctorInv, HalfInstalledIsReported, Complete,
                    HasImport, Reported
<1>2. Init => HalfInv
  BY DEF Init, HalfInv
<1>3. QED
  BY <1>1, <1>2, TypeInit, TypeNext, FillNext, HalfNext, PTL DEF Spec

-----------------------------------------------------------------------------
(***************************************************************************)
(* What init completes, doctor accepts.  While a scope is in progress or   *)
(* whole, an init that is past a write leaves what it wrote in place.      *)
(***************************************************************************)
PastLaconMd == {"fill LACON.md", "read CLAUDE.md", "truncate CLAUDE.md",
                "fill CLAUDE.md"}
PastSettings == {"truncate LACON.md"} \cup PastLaconMd

HasHook(s) == SettingsHasHook(disk[s].settings)
Installed(s) == Canonical(disk[s].settings)
HasLaconMd(s) == disk[s].lacon_md # "absent"

\* What the inits under way have written, in a scope that nobody spoilt.
Written(p, s) ==
    In(p, s) => /\ init[p].pc \in PastSettings => Installed(s)
                /\ init[p].pc \in PastLaconMd => HasLaconMd(s)

WrittenInv ==
    \A s \in Scopes: whole[s] # "spoilt" => \A p \in Inits: Written(p, s)

WholeInv ==
    \A s \in Scopes: whole[s] = "whole" =>
        /\ Installed(s) /\ HasLaconMd(s)
        /\ HasImport(s) \/ \E p \in Inits: At(p, s, "fill CLAUDE.md")

\* In a scope that is still untouched no init has written.
StillInv ==
    \A s \in doctor.still, p \in Inits: In(p, s) => init[p].pc = "skeleton"

AcceptInv ==
    /\ doctor.pc = "start" => doctor.still = {} /\ doctor.fails = {}
    /\ \A s \in doctor.still: whole[s] = "whole" =>
          /\ \/ s \in doctor.configured
             \/ doctor.pc = "probe" /\ s \in Range(doctor.left)
          /\ \A f \in doctor.fails: f[1] # s

\* What a step of p in scope s makes of whole.
LEMMA WholeEffect ==
    ASSUME TypeInv, NEW p \in Inits, NEW s \in Scopes,
           InitStep(p, s) \/ Stop(p, s), NEW t \in Scopes, whole'[t] # "spoilt"
    PROVE  \/ /\ whole'[t] = whole[t]
              /\ t = s => ~Stop(p, s)
           \/ /\ t = s /\ Skeleton(p, s) /\ whole'[t] = "in progress"
              /\ \A q \in Inits \ {p}: In(q, s) => init[q].pc = "skeleton"
           \/ /\ t = s /\ FillClaudeMd(p, s)
              /\ whole[s] = "in progress"
              /\ \A q \in Inits \ {p}: ~In(q, s)
<1> USE DEF TypeInv, HistoryInv
<1>1. CASE Skeleton(p, s)
  BY <1>1 DEF Skeleton, Others, Stop, At, In, Ended
<1>2. CASE FillClaudeMd(p, s)
  BY <1>2 DEF FillClaudeMd, Others, Stop, At, In, Ended
<1>3. CASE Stop(p, s)
  BY <1>3 DEF Stop
<1>4. CASE ~Skeleton(p, s) /\ ~FillClaudeMd(p, s) /\ ~Stop(p, s)
  <2>1. whole' = whole
    BY <1>4 DEF InitStep, ReadSettings, WriteSettings, TruncateLaconMd, FillLaconMd,
                ReadClaudeMd, TruncateClaudeMd
  <2>2. QED
    BY <1>4, <2>1
<1>5. QED
  BY <1>1, <1>2, <1>3, <1>4

LEMMA WritesCanonical ==
    ASSUME TypeInv, NEW p \in Inits, NEW s \in Scopes, WriteSettings(p, s)
    PROVE  Canonical(disk'[s].settings)
<1>1. init[p].settings \in Settings
  BY DEF TypeInv, InitInv, InitOK
<1>2. disk'[s].settings = InstallLaconHook(init[p].settings)
  BY InitEffects DEF TypeInv
<1>3. QED
  BY <1>1, <1>2, InstallIsCanonical

\* No step of an init takes the hook or LACON.md away.
LEMMA InitKeepsInstalled ==
    ASSUME TypeInv, NEW p \in Inits, NEW s \in Scopes,
           InitStep(p, s) \/ Stop(p, s), NEW t \in Scopes
    PROVE  /\ Installed(t) => Installed(t)'
           /\ HasLaconMd(t) => HasLaconMd(t)'
<1>1. CASE t # s
  BY <1>1, InitFrame DEF TypeInv, Installed, HasLaconMd
<1>2. CASE t = s
  <2>1. CASE ReadSettings(p, s) \/ ReadClaudeMd(p, s) \/ Stop(p, s)
    BY <2>1 DEF ReadSettings, ReadClaudeMd, Stop, Installed, HasLaconMd
  <2>2. CASE WriteSettings(p, s)
    <3>1. Installed(s)'
      BY <2>2, WritesCanonical DEF Installed
    <3>2. HasLaconMd(s) => HasLaconMd(s)'
      BY <2>2, InitEffects DEF TypeInv, HasLaconMd, KeepsLaconMd
    <3>3. QED
      BY <1>2, <3>1, <3>2 DEF Installed, HasLaconMd
  <2>3. CASE Skeleton(p, s) \/ TruncateClaudeMd(p, s) \/ FillClaudeMd(p, s)
    BY <1>2, <2>3, InitEffects DEF TypeInv, Installed, HasLaconMd, KeepsLaconMd, KeepsSettings
  <2>4. CASE TruncateLaconMd(p, s) \/ FillLaconMd(p, s)
    BY <1>2, <2>4, InitEffects DEF TypeInv, Installed, HasLaconMd, KeepsSettings
  <2>5. QED
    BY <2>1, <2>2, <2>3, <2>4 DEF InitStep
<1>3. QED
  BY <1>1, <1>2

LEMMA WrittenByStep ==
    ASSUME TypeInv, NEW p \in Inits, NEW s \in Scopes,
           InitStep(p, s) \/ Stop(p, s), Written(p, s)
    PROVE  \A t \in Scopes: Written(p, t)'
<1> SUFFICES ASSUME NEW t \in Scopes, In(p, t)' PROVE Written(p, t)'
  BY DEF Written
<1> USE DEF Written, PastSettings, PastLaconMd
<1>0. In(p, s)
  BY InitFrame DEF TypeInv
<1>1. CASE Skeleton(p, s) \/ FillClaudeMd(p, s) \/ Stop(p, s) \/ ReadSettings(p, s)
  BY <1>1, InitEffects DEF TypeInv, Goes, In, Ended
<1>2. CASE WriteSettings(p, s)
  <2>1. t = s /\ init'[p].pc = "truncate LACON.md"
    BY <1>0, <1>2, InitEffects DEF TypeInv, Goes, In
  <2>2. Installed(s)'
    BY <1>2, WritesCanonical DEF Installed
  <2>3. QED
    BY <2>1, <2>2
<1>3. CASE TruncateLaconMd(p, s) \/ FillLaconMd(p, s) \/ ReadClaudeMd(p, s)
           \/ TruncateClaudeMd(p, s)
  <2>1. t = s /\ Installed(s)
    BY <1>0, <1>3, InitEffects DEF TypeInv, Goes, In
  <2>2. Installed(s)'
    BY <2>1, InitKeepsInstalled
  <2>3. CASE TruncateLaconMd(p, s) \/ FillLaconMd(p, s)
    BY <2>1, <2>2, <2>3, InitEffects DEF TypeInv, HasLaconMd
  <2>4. CASE ReadClaudeMd(p, s) \/ TruncateClaudeMd(p, s)
    BY <1>0, <2>1, <2>2, <2>4, InitEffects, InitKeepsInstalled DEF TypeInv, Goes
  <2>5. QED
    BY <1>3, <2>3, <2>4
<1>4. QED
  BY <1>1, <1>2, <1>3 DEF InitStep

LEMMA StartEffect ==
    ASSUME TypeInv, NEW p \in Inits, StartInit(p)
    PROVE  /\ init[p].pc = "start" /\ init'[p].pc \in {"skeleton", "failed"}
           /\ \A q \in Inits \ {p}: init'[q] = init[q]
           /\ UNCHANGED <<disk, whole, doctor>>
BY DEF StartInit, Enters, NotStarted, TypeInv, InitInv, InitOK

LEMMA EditSpoils ==
    ASSUME TypeInv, NEW s \in Scopes, Edit(s)
    PROVE  /\ init' = init /\ whole'[s] = "spoilt"
           /\ \A t \in Scopes \ {s}: disk'[t] = disk[t] /\ whole'[t] = whole[t]
BY DEF TypeInv, DiskInv, HistoryInv, Edit, EditSettings, EditClaudeMd

LEMMA WrittenNext == TypeInv /\ WrittenInv /\ [Next]_vars => WrittenInv'
<1> SUFFICES ASSUME TypeInv, WrittenInv, [Next]_vars,
                    NEW t \in Scopes, whole'[t] # "spoilt", NEW q \in Inits
             PROVE  Written(q, t)'
  BY DEF WrittenInv
<1>1. ASSUME NEW p \in Inits, StartInit(p) PROVE Written(q, t)'
  <2>1. CASE q = p
    BY <1>1, <2>1, StartEffect DEF Written, PastSettings, PastLaconMd
  <2>2. CASE q # p
    BY <1>1, <2>2, StartEffect DEF WrittenInv, Written, In, Installed, HasLaconMd
  <2>3. QED
    BY <2>1, <2>2
<1>2. ASSUME NEW p \in Inits, NEW s \in Scopes, InitStep(p, s) \/ Stop(p, s)
      PROVE  Written(q, t)'
  <2>1. CASE t # s
    <3>1. whole[t] # "spoilt" /\ Written(q, t)
      BY <1>2, <2>1, WholeEffect, ZenonT(60) DEF WrittenInv
    <3>2. Installed(t)' <=> Installed(t)
      BY <1>2, <2>1, InitFrame DEF TypeInv, Installed
    <3>3. HasLaconMd(t)' <=> HasLaconMd(t)
      BY <1>2, <2>1, InitFrame DEF TypeInv, HasLaconMd
    <3>4. CASE q = p
      <4>1. In(p, t)' => init'[p].pc = "skeleton"
        <5>1. In(p, s)
          BY <1>2, InitFrame DEF TypeInv
        <5>2. CASE FillClaudeMd(p, s) \/ Stop(p, s)
          BY <5>2, InitEffects DEF TypeInv, In, Ended
        <5>3. CASE ~FillClaudeMd(p, s) /\ ~Stop(p, s)
          <6>1. init'[p].scopes = init[p].scopes
            BY <1>2, <5>3, InitEffects DEF TypeInv, InitStep, Goes
          <6>2. QED
            BY <2>1, <5>1, <6>1 DEF In
        <5>4. QED
          BY <5>2, <5>3
      <4>2. QED
        BY <3>4, <4>1 DEF Written, PastSettings, PastLaconMd
    <3>5. CASE q # p
      BY <1>2, <3>1, <3>2, <3>3, <3>5, InitFrame DEF TypeInv, Written, In
    <3>6. QED
      BY <3>4, <3>5
  <2>2. CASE t = s /\ Skeleton(p, s) /\ \A r \in Inits \ {p}: In(r, s) => init[r].pc = "skeleton"
    <3>1. init'[p].pc = "read settings"
      BY <2>2, InitEffects DEF TypeInv, Goes
    <3>2. q # p => init'[q] = init[q]
      BY <1>2, InitFrame DEF TypeInv
    <3>3. QED
      BY <2>2, <3>1, <3>2 DEF Written, In, PastSettings, PastLaconMd
  <2>3. CASE t = s /\ whole[s] # "spoilt"
    <3>1. Written(p, s) /\ Written(q, s)
      BY <2>3 DEF WrittenInv
    <3>2. CASE q = p
      BY <1>2, <3>1, <3>2, WrittenByStep
    <3>3. CASE q # p
      BY <1>2, <2>3, <3>1, <3>3, InitFrame, InitKeepsInstalled DEF TypeInv, Written, In
    <3>4. QED
      BY <3>2, <3>3
  <2>4. QED
    BY <1>2, <2>1, <2>2, <2>3, WholeEffect
<1>3. ASSUME NEW s \in Scopes, Edit(s) PROVE Written(q, t)'
  BY <1>3, EditSpoils DEF WrittenInv, Written, In, Installed, HasLaconMd
<1>4. CASE StartDoctor \/ DoctorStep \/ UNCHANGED vars
  BY <1>4, DoctorReads DEF vars, WrittenInv, Written, In, Installed, HasLaconMd
<1>5. QED
  BY <1>1, <1>2, <1>3, <1>4 DEF Next, Over

LEMMA WholeNext ==
    TypeInv /\ FillInv /\ WrittenInv /\ WholeInv /\ [Next]_vars => WholeInv'
<1> SUFFICES ASSUME TypeInv, FillInv, WrittenInv, WholeInv, [Next]_vars,
                    NEW t \in Scopes, whole'[t] = "whole"
             PROVE  /\ Installed(t)' /\ HasLaconMd(t)'
                    /\ HasImport(t)' \/ \E q \in Inits: At(q, t, "fill CLAUDE.md")'
  BY DEF WholeInv
<1>1. ASSUME UNCHANGED <<disk, whole>>,
             \A q \in Inits: At(q, t, "fill CLAUDE.md") => At(q, t, "fill CLAUDE.md")'
      PROVE  /\ Installed(t)' /\ HasLaconMd(t)'
             /\ HasImport(t)' \/ \E q \in Inits: At(q, t, "fill CLAUDE.md")'
  BY <1>1 DEF WholeInv, Installed, HasLaconMd, HasImport
<1>2. ASSUME NEW p \in Inits, StartInit(p)
      PROVE  /\ Installed(t)' /\ HasLaconMd(t)'
             /\ HasImport(t)' \/ \E q \in Inits: At(q, t, "fill CLAUDE.md")'
  <2>1. \A q \in Inits: At(q, t, "fill CLAUDE.md") => At(q, t, "fill CLAUDE.md")'
    BY <1>2, StartEffect DEF At, In
  <2>2. QED
    BY <1>1, <1>2, <2>1, StartEffect
<1>3. ASSUME NEW p \in Inits, NEW s \in Scopes, InitStep(p, s) \/ Stop(p, s)
      PROVE  /\ Installed(t)' /\ HasLaconMd(t)'
             /\ HasImport(t)' \/ \E q \in Inits: At(q, t, "fill CLAUDE.md")'
  <2>0. In(p, s) /\ \A q \in Inits \ {p}: init'[q] = init[q]
    BY <1>3, InitFrame DEF TypeInv
  <2>1. CASE t = s /\ FillClaudeMd(p, s)
    <3>1. init[p].claude_md \in Seq(Lines) /\ disk[s].claude_md \in Seq(Lines)
      BY <2>1 DEF TypeInv, InitInv, InitOK, DiskInv, DiskOK, FillInv, FillClaudeMd
    <3>2. HasImport(s)'
      <4> DEFINE new == Overlay(InstallReferenceLine(init[p].claude_md),
                                disk[s].claude_md)
      <4>1. new \in Seq(Lines) /\ "import" \in Range(new)
        BY <3>1, ReferenceLineInstalled, OverlayKeeps
      <4>2. disk'[s].claude_md = new
        BY <2>1, InitEffects DEF TypeInv
      <4> HIDE DEF new
      <4>3. QED
        BY <4>1, <4>2, SequencesAreFiles DEF HasImport
    <3>3. Installed(s) /\ HasLaconMd(s)
      <4>1. whole[s] # "spoilt"
        BY <1>3, <2>1, WholeEffect
      <4>2. init[p].pc = "fill CLAUDE.md"
        BY <2>1, InitEffects DEF TypeInv
      <4>3. QED
        BY <2>0, <4>1, <4>2 DEF WrittenInv, Written, PastSettings, PastLaconMd
    <3>4. QED
      BY <1>3, <2>1, <3>2, <3>3, InitKeepsInstalled
  <2>2. CASE whole[t] = "whole" /\ (t = s => ~Stop(p, s) /\ ~FillClaudeMd(p, s))
    <3>1. /\ Installed(t) /\ HasLaconMd(t)
          /\ HasImport(t) \/ \E q \in Inits: At(q, t, "fill CLAUDE.md")
      BY <2>2 DEF WholeInv
    <3>2. Installed(t)' /\ HasLaconMd(t)'
      BY <1>3, <3>1, InitKeepsInstalled
    <3>3. CASE t = s /\ TruncateClaudeMd(p, s)
      <4>1. At(p, s, "fill CLAUDE.md")'
        BY <2>0, <3>3, InitEffects DEF TypeInv, Goes, At, In, Ended
      <4>2. QED
        BY <3>2, <3>3, <4>1
    <3>4. CASE t = s /\ ~TruncateClaudeMd(p, s)
      <4>1. KeepsClaudeMd(s)
        BY <1>3, <2>2, <3>4, InitEffects
           DEF TypeInv, InitStep, ReadSettings, ReadClaudeMd, KeepsClaudeMd
      <4>2. ~At(p, s, "fill CLAUDE.md")
        BY <1>3, <2>2, <3>4, InitEffects DEF TypeInv, InitStep, Goes, At
      <4>3. QED
        BY <2>0, <3>1, <3>2, <3>4, <4>1, <4>2 DEF HasImport, KeepsClaudeMd, At, In
    <3>5. CASE t # s
      <4>1. disk'[t] = disk[t] /\ ~At(p, t, "fill CLAUDE.md")
        BY <1>3, <2>0, <3>5, InitFrame DEF TypeInv, At, In
      <4>2. QED
        BY <2>0, <3>1, <3>2, <4>1 DEF HasImport, At, In
    <3>6. QED
      BY <3>3, <3>4, <3>5
  <2>3. QED
    BY <1>3, <2>1, <2>2, WholeEffect
<1>4. ASSUME NEW s \in Scopes, Edit(s)
      PROVE  /\ Installed(t)' /\ HasLaconMd(t)'
             /\ HasImport(t)' \/ \E q \in Inits: At(q, t, "fill CLAUDE.md")'
  BY <1>4, EditSpoils, ZenonT(60) DEF WholeInv, Installed, HasLaconMd, HasImport, At, In
<1>5. CASE StartDoctor \/ DoctorStep \/ UNCHANGED vars
  <2>1. UNCHANGED <<disk, init, whole>>
    BY <1>5, DoctorReads DEF vars
  <2>2. QED
    BY <1>1, <2>1 DEF At, In
<1>6. QED
  BY <1>2, <1>3, <1>4, <1>5 DEF Next, Over

LEMMA StillNext == TypeInv /\ StillInv /\ [Next]_vars => StillInv'
<1> SUFFICES ASSUME TypeInv, StillInv, [Next]_vars,
                    NEW t \in doctor'.still, NEW q \in Inits, In(q, t)'
             PROVE  init'[q].pc = "skeleton"
  BY DEF StillInv
<1>1. ASSUME NEW p \in Inits, StartInit(p) PROVE init'[q].pc = "skeleton"
  BY <1>1, StartEffect DEF StillInv, In, Ended
<1>2. ASSUME NEW p \in Inits, NEW s \in Scopes, InitStep(p, s) \/ Stop(p, s)
      PROVE  init'[q].pc = "skeleton"
  <2>0. t \in doctor.still
    BY <1>2, BystanderEffect DEF Bystander
  <2>1. CASE q # p
    BY <1>2, <2>0, <2>1, InitFrame DEF TypeInv, StillInv, In
  <2>2. CASE q = p /\ (FillClaudeMd(p, s) \/ Stop(p, s))
    BY <2>2, InitEffects DEF TypeInv, In, Ended
  <2>3. CASE q = p /\ ~FillClaudeMd(p, s) /\ ~Stop(p, s)
    <3>1. In(p, s) /\ init'[p].scopes = init[p].scopes
      BY <1>2, <2>3, InitEffects, InitFrame DEF TypeInv, InitStep, Goes
    <3>2. t = s /\ init[p].pc = "skeleton"
      BY <2>0, <2>3, <3>1 DEF In, StillInv
    <3>3. Skeleton(p, s)
      BY <1>2, <2>3, <3>2, InitEffects DEF TypeInv, InitStep, Goes
    <3>4. t \notin doctor'.still
      BY <3>2, <3>3 DEF Skeleton, Touch, TypeInv, DoctorInv, Doctors
    <3>5. QED
      BY <3>4
  <2>4. QED
    BY <2>1, <2>2, <2>3
<1>3. ASSUME NEW s \in Scopes, Edit(s) PROVE init'[q].pc = "skeleton"
  <2>1. doctor'.still \subseteq doctor.still
    BY <1>3, BystanderEffect DEF Bystander
  <2>2. QED
    BY <1>3, <2>1, EditSpoils DEF StillInv, In
<1>4. CASE StartDoctor
  BY <1>4, StartDoctorEffect, DoctorReads DEF TypeInv, Active, In
<1>5. CASE DoctorStep \/ UNCHANGED vars
  <2>1. doctor'.still = doctor.still
    BY <1>5, ProbeEffect, CheckHookEffect, CheckInstructionsEffect,
       CheckReferenceEffect, CheckMachineEffect DEF DoctorStep, TypeInv, vars
  <2>2. init' = init
    BY <1>5, DoctorReads DEF vars
  <2>3. QED
    BY <2>1, <2>2 DEF StillInv, In
<1>6. QED
  BY <1>1, <1>2, <1>3, <1>4, <1>5 DEF Next, Over

LEMMA AcceptNext ==
    TypeInv /\ WholeInv /\ StillInv /\ AcceptInv /\ [Next]_vars => AcceptInv'
<1> SUFFICES ASSUME TypeInv, WholeInv, StillInv, AcceptInv, [Next]_vars
             PROVE  AcceptInv'
  OBVIOUS
<1>0. doctor \in Doctors /\ DoctorInv /\ doctor.still \subseteq Scopes
  BY DEF TypeInv, DoctorInv, Doctors
<1>1. CASE Bystander
  BY <1>0, <1>1, BystanderEffect DEF AcceptInv
<1>2. CASE UNCHANGED vars
  BY <1>2 DEF vars, AcceptInv
<1>3. CASE StartDoctor
  BY <1>0, <1>3, StartDoctorEffect, DoctorReads DEF AcceptInv
<1>4. \A s \in doctor.still: whole[s] = "whole" =>
            HasHook(s) /\ HasLaconMd(s) /\ HasImport(s)
  BY <1>0, CanonicalHasHook DEF WholeInv, StillInv, At, Installed, HasHook
<1>5. CASE Probe
  <2>0. doctor.pc = "probe" /\ doctor.left # <<>>
    BY <1>0, <1>5 DEF DoctorInv, Probe
  <2>1. Range(doctor.left) = {Target} \cup Range(Tail(doctor.left))
    BY <1>0, <2>0, TargetOK
  <2>2. Tail(doctor.left) = <<>> => Range(Tail(doctor.left)) = {}
    BY EmptyInSeq
  <2>3. UNCHANGED whole
    BY <1>5, DoctorReads DEF DoctorStep
  <2>4. HasHook(Target) => Target \in doctor'.configured
    BY <1>0, <1>5, ProbeEffect DEF HasHook
  <2>5. /\ doctor.configured \subseteq doctor'.configured
        /\ doctor'.fails = doctor.fails /\ doctor'.still = doctor.still
        /\ doctor'.pc # "start"
        /\ \/ doctor'.pc = "probe" /\ doctor'.left = Tail(doctor.left)
           \/ Tail(doctor.left) = <<>>
    BY <1>0, <1>5, ProbeEffect
  <2>6. ASSUME NEW s \in doctor.still, whole[s] = "whole"
        PROVE  /\ \/ s \in doctor'.configured
                  \/ doctor'.pc = "probe" /\ s \in Range(doctor'.left)
               /\ \A f \in doctor.fails: f[1] # s
    <3>1. /\ s \in doctor.configured \/ s \in Range(doctor.left)
          /\ \A f \in doctor.fails: f[1] # s
      BY <2>6 DEF AcceptInv
    <3>2. CASE s \in doctor.configured
      BY <2>5, <3>1, <3>2
    <3>3. CASE s = Target
      BY <1>4, <2>4, <2>6, <3>1, <3>3
    <3>4. CASE s \in Range(Tail(doctor.left))
      BY <2>2, <2>5, <3>1, <3>4
    <3>5. QED
      BY <2>1, <3>1, <3>2, <3>3, <3>4
  <2>7. \A s \in doctor'.still: whole'[s] = "whole" =>
            /\ \/ s \in doctor'.configured
               \/ doctor'.pc = "probe" /\ s \in Range(doctor'.left)
            /\ \A f \in doctor'.fails: f[1] # s
    BY <2>3, <2>5, <2>6
  <2>8. QED
    BY <2>5, <2>7 DEF AcceptInv
<1>6. ASSUME DoctorStep, doctor.pc \notin {"start", "probe"}, doctor'.pc # "start",
             doctor'.still = doctor.still, doctor'.configured = doctor.configured,
             \A f \in doctor'.fails \ doctor.fails:
                f[1] \in doctor.still => whole[f[1]] # "whole"
      PROVE  AcceptInv'
  <2>1. UNCHANGED whole
    BY <1>6, DoctorReads
  <2>2. ASSUME NEW s \in doctor.still, whole[s] = "whole"
        PROVE  s \in doctor.configured /\ \A f \in doctor'.fails: f[1] # s
    <3>1. s \in doctor.configured /\ \A f \in doctor.fails: f[1] # s
      BY <1>6, <2>2 DEF AcceptInv
    <3>2. QED
      BY <1>6, <2>2, <3>1
  <2>3. \A s \in doctor'.still: whole'[s] = "whole" =>
            s \in doctor'.configured /\ \A f \in doctor'.fails: f[1] # s
    BY <1>6, <2>1, <2>2
  <2>4. QED
    BY <1>6, <2>3 DEF AcceptInv
<1>7. CASE CheckHook
  <2>0. doctor.pc = "hook" /\ doctor.left # <<>>
    BY <1>0, <1>7 DEF DoctorInv, CheckHook
  <2>1. \A f \in doctor'.fails \ doctor.fails: f[1] = Target /\ ~HasHook(Target)
    BY <1>0, <1>7, <2>0, CheckHookEffect, FindingOK DEF HasHook
  <2>2. QED
    BY <1>0, <1>4, <1>6, <1>7, <2>0, <2>1, CheckHookEffect DEF DoctorStep
<1>8. CASE CheckInstructions
  <2>0. doctor.pc = "instructions" /\ doctor.left # <<>>
    BY <1>0, <1>8 DEF DoctorInv, CheckInstructions
  <2>1. \A f \in doctor'.fails \ doctor.fails: f[1] = Target /\ ~HasLaconMd(Target)
    BY <1>0, <1>8, <2>0, CheckInstructionsEffect, FindingOK DEF HasLaconMd
  <2>2. QED
    BY <1>0, <1>4, <1>6, <1>8, <2>0, <2>1, CheckInstructionsEffect DEF DoctorStep
<1>9. CASE CheckReference
  <2>0. doctor.pc = "reference" /\ doctor.left # <<>>
    BY <1>0, <1>9 DEF DoctorInv, CheckReference
  <2>1. \A f \in doctor'.fails \ doctor.fails: f[1] = Target /\ ~HasImport(Target)
    BY <1>0, <1>9, <2>0, CheckReferenceEffect, FindingOK
  <2>2. QED
    BY <1>0, <1>4, <1>6, <1>9, <2>0, <2>1, CheckReferenceEffect DEF DoctorStep
<1>10. CASE CheckMachine
  <2>1. "machine" \notin Scopes
    BY DEF Scopes
  <2>2. QED
    BY <1>0, <1>6, <1>10, <2>1, CheckMachineEffect DEF DoctorStep
<1>11. QED
  BY <1>1, <1>2, <1>3, <1>5, <1>7, <1>8, <1>9, <1>10, StepIsOfSomebody DEF DoctorStep

\* In a scope where no init is at work when the doctor begins and nobody writes
\* until it is done, what an init had completed the doctor finds configured and
\* complete: init.rs:278-332 and doctor.rs:177-264 agree.
THEOREM InitPassesDoctor == Spec => []DoctorAcceptsInit
<1>1. TypeInv /\ AcceptInv => DoctorAcceptsInit
  BY DEF TypeInv, DoctorInv, Doctors, AcceptInv, DoctorAcceptsInit
<1>2. Init => WrittenInv /\ WholeInv /\ StillInv /\ AcceptInv
  BY DEF Init, WrittenInv, WholeInv, StillInv, AcceptInv
<1>3. TypeInv /\ FillInv /\ WrittenInv /\ WholeInv /\ StillInv /\ AcceptInv
        /\ [Next]_vars
      => (TypeInv /\ FillInv /\ WrittenInv /\ WholeInv /\ StillInv /\ AcceptInv)'
  BY TypeNext, FillNext, WrittenNext, WholeNext, StillNext, AcceptNext
<1>4. QED
  BY <1>1, <1>2, <1>3, TypeInit, PTL DEF Spec

-----------------------------------------------------------------------------
(***************************************************************************)
(* What the settings hold: lacon's hook once, and every hook of the user's *)
(* that no save has put in the way of an init's rename.                    *)
(***************************************************************************)

\* However many inits ran, one after the other or at once, lacon's hook is
\* in the settings exactly once when they are through (init.rs:341).
THEOREM OneHookAlways == Spec => []OneHook
<1>1. TypeInv /\ WholeInv => OneHook
  <2> SUFFICES ASSUME TypeInv, WholeInv, NEW s \in Scopes, whole[s] = "whole"
               PROVE  Cardinality(PlacesOf("lacon", disk[s].settings)) = 1
    BY DEF OneHook
  <2>1. disk[s].settings \in Settings /\ Canonical(disk[s].settings)
    BY DEF TypeInv, DiskInv, DiskOK, WholeInv, Installed
  <2>2. PICK place: PlacesOf("lacon", disk[s].settings) = {place}
    BY <2>1, CanonicalHasOne
  <2>3. QED
    BY <2>2, FS_Singleton
<1>2. Init => WrittenInv /\ WholeInv
  BY DEF Init, WrittenInv, WholeInv
<1>3. TypeInv /\ FillInv /\ WrittenInv /\ WholeInv /\ [Next]_vars
        => (TypeInv /\ FillInv /\ WrittenInv /\ WholeInv)'
  BY TypeNext, FillNext, WrittenNext, WholeNext
<1>4. QED
  BY <1>1, <1>2, <1>3, TypeInit, PTL DEF Spec

\* What the user has of hooks is on the disk, and in what each init is about
\* to rename over it.
ForeignInv ==
    \A s \in Scopes: "settings.json" \notin lost[s] =>
        /\ mine[s].hooks \subseteq Foreign(disk[s].settings)
        /\ \A p \in Inits: At(p, s, "write settings") =>
              mine[s].hooks \subseteq Foreign(init[p].settings)

\* The one step of an init that writes settings.json, the one that reads it,
\* and what an init that loses something loses.
LEMMA SettingsWritten ==
    ASSUME TypeInv, NEW p \in Inits, NEW s \in Scopes,
           InitStep(p, s) \/ Stop(p, s), NEW t \in Scopes
    PROVE  \/ disk'[t].settings = disk[t].settings
           \/ /\ t = s /\ At(p, s, "write settings")
              /\ disk'[t].settings = InstallLaconHook(init[p].settings)
<1>0. t # s => disk'[t] = disk[t]
  BY InitFrame DEF TypeInv
<1>1. CASE WriteSettings(p, s)
  BY <1>0, <1>1, InitEffects DEF TypeInv, WriteSettings
<1>2. CASE ReadSettings(p, s) \/ ReadClaudeMd(p, s) \/ Stop(p, s)
  BY <1>2 DEF ReadSettings, ReadClaudeMd, Stop
<1>3. CASE TruncateLaconMd(p, s) \/ FillLaconMd(p, s) \/ Skeleton(p, s)
           \/ TruncateClaudeMd(p, s) \/ FillClaudeMd(p, s)
  BY <1>0, <1>3, InitEffects DEF TypeInv, KeepsSettings
<1>4. QED
  BY <1>1, <1>2, <1>3 DEF InitStep

LEMMA SettingsRead ==
    ASSUME TypeInv, NEW p \in Inits, NEW s \in Scopes,
           InitStep(p, s) \/ Stop(p, s), NEW t \in Scopes,
           At(p, t, "write settings")'
    PROVE  /\ t = s /\ UNCHANGED <<disk, whole>>
           /\ Groups(init'[p].settings) = Groups(disk[t].settings)
           /\ disk[t].settings.kind = "object" =>
                    init'[p].settings = disk[t].settings
<1>0. In(p, s)
  BY InitFrame DEF TypeInv
<1>1. ReadSettings(p, s)
  BY InitEffects DEF TypeInv, InitStep, Goes, At, In
<1>2. t = s
  BY <1>0, <1>1, InitEffects DEF TypeInv, Goes, At, In, Ended
<1> DEFINE text == disk[s].settings
           read == IF text.kind = "absent"
                   THEN [kind |-> "object", pretool |-> <<>>] ELSE text
           next == IF text.kind \in {"garbage", "no object"} THEN "failed"
                   ELSE "write settings"
<1>3. init' = [init EXCEPT ![p].settings = read, ![p].pc = next]
      /\ UNCHANGED <<disk, whole>>
  BY <1>1 DEF ReadSettings
<1> HIDE DEF read, next
<1>4. init'[p].settings = read
  BY <1>3 DEF TypeInv, InitInv, InitOK
<1>5. Groups(read) = Groups(text) /\ (text.kind = "object" => read = text)
  BY DEF read, Groups
<1>6. QED
  BY <1>2, <1>3, <1>4, <1>5

LEMMA LostEffect ==
    ASSUME TypeInv, NEW p \in Inits, NEW s \in Scopes,
           InitStep(p, s) \/ Stop(p, s)
    PROVE  \A t \in Scopes: /\ lost[t] \subseteq lost'[t]
                            /\ lost'[t] \subseteq lost[t] \cup {"CLAUDE.md"}
<1>1. lost' = lost \/ lost' = [lost EXCEPT ![s] = @ \cup {"CLAUDE.md"}]
  <2>1. CASE InitStep(p, s)
    BY <2>1 DEF InitStep, Skeleton, ReadSettings, WriteSettings, TruncateLaconMd,
                FillLaconMd, ReadClaudeMd, TruncateClaudeMd, FillClaudeMd
  <2>2. CASE Stop(p, s)
    BY <2>2 DEF Stop
  <2>3. QED
    BY <2>1, <2>2
<1>2. lost \in [Scopes -> SUBSET Files]
  BY DEF TypeInv, HistoryInv
<1>3. QED
  BY <1>1, <1>2

LEMMA EditEffect ==
    ASSUME TypeInv, NEW s \in Scopes, Edit(s)
    PROVE  \A t \in Scopes: lost[t] \subseteq lost'[t]
<1>1. \/ lost' = lost
      \/ \E f \in Files: lost' = [lost EXCEPT ![s] = @ \cup {f}]
  BY DEF Edit, EditSettings, EditClaudeMd, Files
<1>2. lost \in [Scopes -> SUBSET Files]
  BY DEF TypeInv, HistoryInv
<1>3. QED
  BY <1>1, <1>2

LEMMA ForeignInit == Init => ForeignInv
<1> SUFFICES ASSUME Init PROVE ForeignInv
  OBVIOUS
<1>1. \A s \in Scopes: mine[s].hooks = Foreign(disk[s].settings)
  BY DEF Init
<1>2. \A p \in Inits, s \in Scopes: ~At(p, s, "write settings")
  BY DEF Init, NotStarted, At, In, Ended
<1>3. QED
  BY <1>1, <1>2 DEF ForeignInv

LEMMA ForeignNext == TypeInv /\ ForeignInv /\ [Next]_vars => ForeignInv'
<1> SUFFICES ASSUME TypeInv, ForeignInv, [Next]_vars,
                    NEW t \in Scopes, "settings.json" \notin lost'[t]
             PROVE  /\ mine'[t].hooks \subseteq Foreign(disk'[t].settings)
                    /\ \A q \in Inits: At(q, t, "write settings")' =>
                          mine'[t].hooks \subseteq Foreign(init'[q].settings)
  BY DEF ForeignInv
<1>1. ASSUME NEW p \in Inits, StartInit(p)
      PROVE  /\ mine'[t].hooks \subseteq Foreign(disk'[t].settings)
             /\ \A q \in Inits: At(q, t, "write settings")' =>
                   mine'[t].hooks \subseteq Foreign(init'[q].settings)
  <2>1. UNCHANGED <<disk, mine, lost>>
    BY <1>1 DEF StartInit
  <2>2. \A q \in Inits: At(q, t, "write settings")' =>
            q # p /\ init'[q] = init[q] /\ At(q, t, "write settings")
    BY <1>1, StartEffect DEF At, In
  <2>3. QED
    BY <2>1, <2>2 DEF ForeignInv
<1>2. ASSUME NEW p \in Inits, NEW s \in Scopes, InitStep(p, s) \/ Stop(p, s)
      PROVE  /\ mine'[t].hooks \subseteq Foreign(disk'[t].settings)
             /\ \A q \in Inits: At(q, t, "write settings")' =>
                   mine'[t].hooks \subseteq Foreign(init'[q].settings)
  <2>1. "settings.json" \notin lost[t] /\ mine' = mine
    BY <1>2, LostEffect, InitFrame DEF TypeInv
  <2>2. /\ mine[t].hooks \subseteq Foreign(disk[t].settings)
        /\ \A q \in Inits: At(q, t, "write settings") =>
              mine[t].hooks \subseteq Foreign(init[q].settings)
    BY <2>1 DEF ForeignInv
  <2>3. mine[t].hooks \subseteq Foreign(disk'[t].settings)
    <3>1. CASE disk'[t].settings = disk[t].settings
      BY <2>2, <3>1
    <3>2. CASE /\ t = s /\ At(p, s, "write settings")
               /\ disk'[t].settings = InstallLaconHook(init[p].settings)
      <4>1. mine[t].hooks \subseteq Foreign(init[p].settings)
        BY <2>2, <3>2
      <4>2. Foreign(init[p].settings) \subseteq Foreign(disk'[t].settings)
        BY <3>2, InstallKeepsForeign DEF TypeInv, InitInv, InitOK
      <4>3. QED
        BY <4>1, <4>2
    <3>3. QED
      BY <1>2, <3>1, <3>2, SettingsWritten
  <2>4. ASSUME NEW q \in Inits, At(q, t, "write settings")'
        PROVE  mine[t].hooks \subseteq Foreign(init'[q].settings)
    <3>1. CASE q = p
      <4>1. Groups(init'[p].settings) = Groups(disk[t].settings)
        BY <1>2, <2>4, <3>1, SettingsRead
      <4>2. Foreign(init'[p].settings) = Foreign(disk[t].settings)
        BY <4>1 DEF Foreign
      <4>3. QED
        BY <2>2, <3>1, <4>1, <4>2
    <3>2. CASE q # p
      <4>1. init'[q] = init[q] /\ At(q, t, "write settings")
        BY <1>2, <2>4, <3>2, InitFrame DEF TypeInv, At, In
      <4>2. QED
        BY <2>2, <4>1
    <3>3. QED
      BY <3>1, <3>2
  <2>5. QED
    BY <2>1, <2>3, <2>4
<1>3. ASSUME NEW s \in Scopes, Edit(s)
      PROVE  /\ mine'[t].hooks \subseteq Foreign(disk'[t].settings)
             /\ \A q \in Inits: At(q, t, "write settings")' =>
                   mine'[t].hooks \subseteq Foreign(init'[q].settings)
  <2>0. init' = init
    BY <1>3, EditSpoils
  <2>1. CASE EditSettings(s) /\ t = s
    <3>1. PICK new: /\ disk' = [disk EXCEPT ![s].settings = new]
                    /\ mine' = [mine EXCEPT ![s].hooks = Foreign(new)]
      BY <2>1 DEF EditSettings
    <3>2. disk'[s].settings = new /\ mine'[s].hooks = Foreign(new)
      BY <3>1 DEF TypeInv, DiskInv, DiskOK, HistoryInv
    <3>3. \A q \in Inits: ~At(q, t, "write settings")
      BY <2>1 DEF EditSettings, TypeInv, HistoryInv
    <3>4. QED
      BY <2>0, <2>1, <3>2, <3>3 DEF At, In
  <2>2. CASE EditClaudeMd(s) \/ t # s
    <3>1. mine'[t].hooks = mine[t].hooks /\ disk'[t].settings = disk[t].settings
      <4>1. CASE EditClaudeMd(s)
        <5>1. PICK new \in Seq(Lines):
                /\ disk' = [disk EXCEPT ![s].claude_md = new]
                /\ mine' = [mine EXCEPT ![s].lines = OwnLines(new)]
          BY <4>1, EditedClaudeMd DEF TypeInv
        <5>2. QED
          BY <5>1 DEF TypeInv, DiskInv, DiskOK, HistoryInv
      <4>2. CASE EditSettings(s) /\ t # s
        BY <4>2 DEF EditSettings, TypeInv, DiskInv, HistoryInv
      <4>3. QED
        BY <1>3, <2>2, <4>1, <4>2 DEF Edit
    <3>2. "settings.json" \notin lost[t]
      BY <1>3, EditEffect
    <3>3. QED
      BY <2>0, <3>1, <3>2 DEF ForeignInv, At, In
  <2>3. QED
    BY <1>3, <2>1, <2>2 DEF Edit
<1>4. CASE StartDoctor \/ DoctorStep \/ UNCHANGED vars
  <2>1. UNCHANGED <<disk, init, mine, lost>>
    BY <1>4 DEF StartDoctor, DoctorStep, Probe, CheckHook, CheckInstructions,
                CheckReference, CheckMachine, DoctorUnchanged, vars
  <2>2. QED
    BY <2>1 DEF ForeignInv, At, In
<1>5. QED
  BY <1>1, <1>2, <1>3, <1>4 DEF Next, Over

\* No hook of the user's is lost, whatever group it is in, unless the user
\* saves the file between an init's read and its rename (init.rs:341).
THEOREM ForeignHooksKeptAlways == Spec => []ForeignHooksKept
<1>1. ForeignInv => ForeignHooksKept
  BY DEF ForeignInv, ForeignHooksKept
<1>2. QED
  BY <1>1, TypeInit, ForeignInit, TypeNext, FillNext, ForeignNext, PTL DEF Spec

-----------------------------------------------------------------------------
(***************************************************************************)
(* A second init.  In a whole scope an init that holds settings would      *)
(* write what is there, and all inits that hold a CLAUDE.md would write    *)
(* the same.                                                               *)
(***************************************************************************)
SameSettingsInv ==
    \A s \in Scopes, p \in Inits:
        whole[s] = "whole" /\ At(p, s, "write settings") =>
            InstallLaconHook(init[p].settings) = disk[s].settings

HoldsClaudeMd(p, s) == At(p, s, "truncate CLAUDE.md") \/ At(p, s, "fill CLAUDE.md")
SomeoneFills(s) == \E p \in Inits: At(p, s, "fill CLAUDE.md")

\* The text that every init would write is there, or about to be.
Settled(s, text) ==
    /\ "import" \in Range(text)
    /\ \A p \in Inits: HoldsClaudeMd(p, s) =>
            InstallReferenceLine(init[p].claude_md) = text
    /\ \/ disk[s].claude_md = text
       \/ disk[s].claude_md = <<>> /\ SomeoneFills(s)

SettledInv ==
    \A s \in Scopes: whole[s] = "whole" /\ lost[s] = {} =>
        \E text \in Seq(Lines): Settled(s, text)

\* Where another init is under way no step makes a scope whole.
LEMMA WasWhole ==
    ASSUME TypeInv, NEW p \in Inits, NEW s \in Scopes,
           InitStep(p, s) \/ Stop(p, s), NEW t \in Scopes, whole'[t] = "whole"
    PROVE  \/ whole[t] = "whole" /\ (t = s => ~Stop(p, s))
           \/ t = s /\ FillClaudeMd(p, s) /\ \A q \in Inits \ {p}: ~In(q, t)
<1>1. CASE /\ whole'[t] = whole[t]
           /\ t = s => ~Stop(p, s)
  BY <1>1
<1>2. CASE whole'[t] = "in progress"
  BY <1>2
<1>3. CASE /\ t = s /\ FillClaudeMd(p, s)
           /\ \A q \in Inits \ {p}: ~In(q, s)
  BY <1>3
<1>4. QED
  BY <1>1, <1>2, <1>3, WholeEffect

LEMMA SameSettingsNext ==
    TypeInv /\ WholeInv /\ SameSettingsInv /\ [Next]_vars => SameSettingsInv'
<1> SUFFICES ASSUME TypeInv, WholeInv, SameSettingsInv, [Next]_vars,
                    NEW t \in Scopes, NEW q \in Inits,
                    whole'[t] = "whole", At(q, t, "write settings")'
             PROVE  InstallLaconHook(init'[q].settings) = disk'[t].settings
  BY DEF SameSettingsInv
<1>1. ASSUME NEW p \in Inits, StartInit(p)
      PROVE  InstallLaconHook(init'[q].settings) = disk'[t].settings
  BY <1>1, StartEffect DEF SameSettingsInv, At, In
<1>2. ASSUME NEW p \in Inits, NEW s \in Scopes, InitStep(p, s) \/ Stop(p, s)
      PROVE  InstallLaconHook(init'[q].settings) = disk'[t].settings
  <2>1. CASE q = p
    <3>1. disk' = disk /\ whole[t] = "whole"
          /\ (disk[t].settings.kind = "object" => init'[p].settings = disk[t].settings)
      BY <1>2, <2>1, SettingsRead
    <3>2. disk[t].settings \in Settings /\ Canonical(disk[t].settings)
      BY <3>1 DEF TypeInv, DiskInv, DiskOK, WholeInv, Installed
    <3>3. QED
      BY <2>1, <3>1, <3>2, CanonicalIsFixed DEF Canonical
  <2>2. CASE q # p
    <3>1. init'[q] = init[q] /\ At(q, t, "write settings") /\ In(q, t)
      BY <1>2, <2>2, InitFrame DEF TypeInv, At, In
    <3>2. whole[t] = "whole"
      BY <1>2, <2>2, <3>1, WasWhole
    <3>3. InstallLaconHook(init[q].settings) = disk[t].settings
      BY <3>1, <3>2 DEF SameSettingsInv
    <3>4. CASE disk'[t].settings = disk[t].settings
      BY <3>1, <3>3, <3>4
    <3>5. CASE /\ t = s /\ At(p, s, "write settings")
               /\ disk'[t].settings = InstallLaconHook(init[p].settings)
      <4>1. InstallLaconHook(init[p].settings) = disk[t].settings
        BY <3>2, <3>5 DEF SameSettingsInv
      <4>2. QED
        BY <3>1, <3>3, <3>5, <4>1
    <3>6. \/ disk'[t].settings = disk[t].settings
          \/ /\ t = s /\ At(p, s, "write settings")
             /\ disk'[t].settings = InstallLaconHook(init[p].settings)
      BY <1>2, SettingsWritten
    <3>7. QED
      BY <3>4, <3>5, <3>6
  <2>3. QED
    BY <2>1, <2>2
<1>3. ASSUME NEW s \in Scopes, Edit(s)
      PROVE  InstallLaconHook(init'[q].settings) = disk'[t].settings
  BY <1>3, EditSpoils DEF SameSettingsInv, At, In
<1>4. CASE StartDoctor \/ DoctorStep \/ UNCHANGED vars
  <2>1. UNCHANGED <<disk, init, whole>>
    BY <1>4, DoctorReads DEF vars
  <2>2. QED
    BY <2>1 DEF SameSettingsInv, At, In
<1>5. QED
  BY <1>1, <1>2, <1>3, <1>4 DEF Next, Over

LEMMA StopSpoils ==
    ASSUME TypeInv, NEW p \in Inits, NEW s \in Scopes, Stop(p, s)
    PROVE  whole'[s] = "spoilt"
BY DEF Stop, TypeInv, HistoryInv

\* Over nothing, and over itself, a text is written as it is.
LEMMA OverlaySame ==
    ASSUME NEW text \in Seq(Lines)
    PROVE  Overlay(text, <<>>) = text /\ Overlay(text, text) = text
<1>1. SubSeq(<<>>, Len(text) + 1, Len(<<>>)) = <<>>
  OBVIOUS
<1>2. SubSeq(text, Len(text) + 1, Len(text)) = <<>>
  OBVIOUS
<1>3. text \o <<>> = text
  OBVIOUS
<1>4. QED
  BY <1>1, <1>2, <1>3 DEF Overlay

\* A text with the import in it is left alone (init.rs:419).
LEMMA ReferenceLineOnce ==
    ASSUME NEW text \in Seq(Lines), "import" \in Range(text)
    PROVE  InstallReferenceLine(text) = text
BY DEF InstallReferenceLine, Contains, Range

LEMMA SettledNext ==
    TypeInv /\ FillInv /\ SettledInv /\ [Next]_vars => SettledInv'
<1> SUFFICES ASSUME TypeInv, FillInv, SettledInv, [Next]_vars,
                    NEW t \in Scopes, whole'[t] = "whole", lost'[t] = {}
             PROVE  \E text \in Seq(Lines): Settled(t, text)'
  BY DEF SettledInv
<1>2. ASSUME NEW p \in Inits, StartInit(p)
      PROVE  \E text \in Seq(Lines): Settled(t, text)'
  <2>1. UNCHANGED <<disk, whole, lost>>
    BY <1>2 DEF StartInit
  <2>2. PICK text \in Seq(Lines): Settled(t, text)
    BY <2>1 DEF SettledInv
  <2>3. /\ \A q \in Inits: HoldsClaudeMd(q, t)' =>
                init'[q] = init[q] /\ HoldsClaudeMd(q, t)
        /\ SomeoneFills(t) => SomeoneFills(t)'
    <3>1. /\ init[p].pc = "start" /\ init'[p].pc \in {"skeleton", "failed"}
          /\ \A q \in Inits \ {p}: init'[q] = init[q]
      BY <1>2, StartEffect
    <3>2. QED
      BY <3>1 DEF HoldsClaudeMd, SomeoneFills, At, In, Ended
  <2>4. Settled(t, text)'
    BY <2>1, <2>2, <2>3 DEF Settled
  <2>5. QED
    BY <2>4
<1>3. ASSUME NEW p \in Inits, InitStep(p, t) \/ Stop(p, t),
             whole[t] = "whole"
      PROVE  \E text \in Seq(Lines): Settled(t, text)'
  <2>0. In(p, t) /\ (\A q \in Inits \ {p}: init'[q] = init[q]) /\ ~Stop(p, t)
    BY <1>3, InitFrame, StopSpoils DEF TypeInv
  <2>1. lost[t] = {}
    BY <1>3, LostEffect
  <2>2. PICK text \in Seq(Lines): Settled(t, text)
    BY <1>3, <2>1 DEF SettledInv
  <2>3. \A q \in Inits \ {p}: HoldsClaudeMd(q, t)' =>
            InstallReferenceLine(init'[q].claude_md) = text
    BY <2>0, <2>2 DEF Settled, HoldsClaudeMd, At, In
  <2>4. CASE ReadClaudeMd(p, t)
    <3>1. ~SomeoneFills(t)
      BY <1>3, <2>4 DEF ReadClaudeMd, SomeoneFills, Others, At, TypeInv, HistoryInv
    <3>2. disk[t].claude_md = text /\ disk' = disk
      BY <2>2, <2>4, <3>1 DEF Settled, ReadClaudeMd
    <3>3. init'[p].claude_md = text
      BY <2>4, <3>2, InitEffects, SequencesAreFiles DEF TypeInv
    <3>4. InstallReferenceLine(init'[p].claude_md) = text
      BY <2>2, <3>3, ReferenceLineOnce DEF Settled
    <3>5. Settled(t, text)'
      BY <1>3, <2>2, <2>3, <3>2, <3>4 DEF Settled
    <3>6. QED
      BY <3>5
  <2>5. CASE TruncateClaudeMd(p, t)
    <3>1. /\ HoldsClaudeMd(p, t) /\ At(p, t, "fill CLAUDE.md")'
          /\ init'[p].claude_md = init[p].claude_md
          /\ disk'[t].claude_md = <<>>
      BY <2>0, <2>5, InitEffects DEF TypeInv, Goes, HoldsClaudeMd, At, In, Ended
    <3>2. InstallReferenceLine(init'[p].claude_md) = text /\ SomeoneFills(t)'
      BY <2>2, <3>1 DEF Settled, SomeoneFills
    <3>3. Settled(t, text)'
      BY <1>3, <2>2, <2>3, <3>1, <3>2 DEF Settled
    <3>4. QED
      BY <3>3
  <2>6. CASE FillClaudeMd(p, t)
    <3>1. /\ HoldsClaudeMd(p, t) /\ ~HoldsClaudeMd(p, t)'
          /\ disk'[t].claude_md = Overlay(
                InstallReferenceLine(init[p].claude_md), disk[t].claude_md)
      BY <2>0, <2>6, InitEffects DEF TypeInv, HoldsClaudeMd, At, In
    <3>2. InstallReferenceLine(init[p].claude_md) = text
          /\ disk[t].claude_md \in {text, <<>>}
      BY <2>2, <3>1 DEF Settled
    <3>3. disk'[t].claude_md = text
      BY <3>1, <3>2, OverlaySame
    <3>4. Settled(t, text)'
      BY <1>3, <2>2, <2>3, <3>1, <3>3 DEF Settled
    <3>5. QED
      BY <3>4
  <2>7. CASE Skeleton(p, t) \/ ReadSettings(p, t) \/ WriteSettings(p, t)
             \/ TruncateLaconMd(p, t) \/ FillLaconMd(p, t)
    <3>1. KeepsClaudeMd(t)
      BY <2>7, InitEffects DEF TypeInv, ReadSettings, KeepsClaudeMd
    <3>2. ~At(p, t, "fill CLAUDE.md") /\ ~HoldsClaudeMd(p, t)'
      BY <2>7, InitEffects DEF TypeInv, Goes, HoldsClaudeMd, At
    <3>3. SomeoneFills(t) => SomeoneFills(t)'
      BY <2>0, <3>2 DEF SomeoneFills, At, In
    <3>4. Settled(t, text)'
      BY <1>3, <2>2, <2>3, <3>1, <3>2, <3>3 DEF Settled, KeepsClaudeMd
    <3>5. QED
      BY <3>4
  <2>8. QED
    BY <1>3, <2>0, <2>4, <2>5, <2>6, <2>7 DEF InitStep
<1>4. ASSUME NEW p \in Inits, NEW s \in Scopes, InitStep(p, s) \/ Stop(p, s), t # s
      PROVE  \E text \in Seq(Lines): Settled(t, text)'
  <2>1. /\ In(p, s) /\ \A q \in Inits \ {p}: init'[q] = init[q]
        /\ disk'[t] = disk[t]
    BY <1>4, InitFrame DEF TypeInv
  <2>2. whole[t] = "whole"
    BY <1>4, WasWhole
  <2>3. lost[t] = {}
    BY <1>4, LostEffect
  <2>4. PICK text \in Seq(Lines): Settled(t, text)
    BY <2>2, <2>3 DEF SettledInv
  <2>5. ~HoldsClaudeMd(p, t)' /\ ~At(p, t, "fill CLAUDE.md")
    <3>1. CASE FillClaudeMd(p, s) \/ Stop(p, s)
      BY <1>4, <2>1, <3>1, InitEffects DEF TypeInv, HoldsClaudeMd, At, In, Ended
    <3>2. CASE ~FillClaudeMd(p, s) /\ ~Stop(p, s)
      <4>1. init'[p].scopes = init[p].scopes
        BY <1>4, <3>2, InitEffects DEF TypeInv, InitStep, Goes
      <4>2. QED
        BY <1>4, <2>1, <4>1 DEF HoldsClaudeMd, At, In
    <3>3. QED
      BY <3>1, <3>2
  <2>6. SomeoneFills(t) => SomeoneFills(t)'
    BY <2>1, <2>5 DEF SomeoneFills, At, In
  <2>7. Settled(t, text)'
    BY <2>1, <2>4, <2>5, <2>6 DEF Settled, HoldsClaudeMd, At, In
  <2>8. QED
    BY <2>7
<1>5. ASSUME NEW p \in Inits, FillClaudeMd(p, t),
             \A q \in Inits \ {p}: ~In(q, t)
      PROVE  \E text \in Seq(Lines): Settled(t, text)'
  <2>1. init[p].claude_md \in Seq(Lines) /\ disk[t].claude_md \in Seq(Lines)
    BY <1>5 DEF TypeInv, InitInv, InitOK, DiskInv, DiskOK, FillInv, FillClaudeMd
  <2>2. PICK text \in Seq(Lines):
            /\ text = Overlay(InstallReferenceLine(init[p].claude_md),
                              disk[t].claude_md)
            /\ "import" \in Range(text)
    BY <2>1, ReferenceLineInstalled, OverlayKeeps
  <2>3. disk'[t].claude_md = text
    BY <1>5, <2>2, InitEffects DEF TypeInv
  <2>4. \A q \in Inits: ~HoldsClaudeMd(q, t)'
    <3>1. \A q \in Inits \ {p}: init'[q] = init[q]
      BY <1>5, InitFrame DEF TypeInv, InitStep
    <3>2. init'[p].pc \in {"skeleton", "done"}
      BY <1>5, InitEffects DEF TypeInv
    <3>3. ~HoldsClaudeMd(p, t)'
      BY <3>2 DEF HoldsClaudeMd, At
    <3>4. ASSUME NEW q \in Inits, q # p PROVE ~HoldsClaudeMd(q, t)'
      <4>1. init'[q] = init[q] /\ ~In(q, t)
        BY <1>5, <3>1, <3>4
      <4>2. QED
        BY <4>1 DEF HoldsClaudeMd, At, In
    <3>5. QED
      BY <3>3, <3>4
  <2>5. Settled(t, text)'
    BY <1>5, <2>2, <2>3, <2>4 DEF Settled
  <2>6. QED
    BY <2>2, <2>5
<1>6. ASSUME NEW p \in Inits, NEW s \in Scopes, InitStep(p, s) \/ Stop(p, s)
      PROVE  \E text \in Seq(Lines): Settled(t, text)'
  <2>1. CASE t # s
    BY <1>4, <1>6, <2>1
  <2>2. CASE t = s
    <3>1. \/ whole[t] = "whole"
          \/ FillClaudeMd(p, t) /\ \A q \in Inits \ {p}: ~In(q, t)
      BY <1>6, <2>2, WasWhole
    <3>2. QED
      BY <1>3, <1>5, <1>6, <2>2, <3>1
  <2>3. QED
    BY <2>1, <2>2
<1>7. ASSUME NEW s \in Scopes, Edit(s)
      PROVE  \E text \in Seq(Lines): Settled(t, text)'
  <2>1. t # s /\ disk'[t] = disk[t] /\ whole[t] = "whole" /\ init' = init
    BY <1>7, EditSpoils
  <2>2. lost[t] = {}
    BY <1>7, EditEffect
  <2>3. PICK text \in Seq(Lines): Settled(t, text)
    BY <2>1, <2>2 DEF SettledInv
  <2>4. Settled(t, text)'
    BY <2>1, <2>3 DEF Settled, HoldsClaudeMd, SomeoneFills, At, In
  <2>5. QED
    BY <2>4
<1>8. CASE StartDoctor \/ DoctorStep \/ UNCHANGED vars
  <2>1. UNCHANGED <<disk, init, whole, lost>>
    BY <1>8 DEF StartDoctor, DoctorStep, Probe, CheckHook, CheckInstructions,
                CheckReference, CheckMachine, DoctorUnchanged, vars
  <2>2. whole[t] = "whole" /\ lost[t] = {}
    BY <2>1
  <2>3. PICK text \in Seq(Lines): Settled(t, text)
    BY <2>2 DEF SettledInv
  <2>4. Settled(t, text)'
    BY <2>1, <2>3 DEF Settled, HoldsClaudeMd, SomeoneFills, At, In
  <2>5. QED
    BY <2>4
<1>9. QED
  BY <1>2, <1>6, <1>7, <1>8 DEF Next, Over

\* Over a scope that is whole an init writes what is there: init.rs:344 calls
\* it "byte-stable".
THEOREM ReRunWritesTheSameAlways == Spec => []ReRunWritesTheSame
<1>1. SameSettingsInv /\ SettledInv => ReRunWritesTheSame
  <2> SUFFICES ASSUME SameSettingsInv, SettledInv, NEW s \in Scopes, NEW p \in Inits,
                      whole[s] = "whole"
               PROVE  /\ At(p, s, "write settings") =>
                            InstallLaconHook(init[p].settings) = disk[s].settings
                      /\ At(p, s, "truncate CLAUDE.md") /\ lost[s] = {}
                            /\ (\A q \in Others(p): ~At(q, s, "fill CLAUDE.md")) =>
                              InstallReferenceLine(init[p].claude_md) = disk[s].claude_md
    BY DEF ReRunWritesTheSame
  <2>1. At(p, s, "write settings") =>
            InstallLaconHook(init[p].settings) = disk[s].settings
    BY DEF SameSettingsInv
  <2>2. ASSUME At(p, s, "truncate CLAUDE.md"), lost[s] = {},
               \A q \in Others(p): ~At(q, s, "fill CLAUDE.md")
        PROVE  InstallReferenceLine(init[p].claude_md) = disk[s].claude_md
    <3>1. PICK text \in Seq(Lines): Settled(s, text)
      BY <2>2 DEF SettledInv
    <3>2. ~SomeoneFills(s)
      BY <2>2 DEF SomeoneFills, Others, At
    <3>3. QED
      BY <2>2, <3>1, <3>2 DEF Settled, HoldsClaudeMd
  <2>3. QED
    BY <2>1, <2>2
<1>2. Init => WrittenInv /\ WholeInv /\ SameSettingsInv /\ SettledInv
  BY DEF Init, WrittenInv, WholeInv, SameSettingsInv, SettledInv
<1>3. TypeInv /\ FillInv /\ WrittenInv /\ WholeInv /\ SameSettingsInv /\ SettledInv
        /\ [Next]_vars
      => (TypeInv /\ FillInv /\ WrittenInv /\ WholeInv /\ SameSettingsInv /\ SettledInv)'
  BY TypeNext, FillNext, WrittenNext, WholeNext, SameSettingsNext, SettledNext
<1>4. QED
  BY <1>1, <1>2, <1>3, TypeInit, PTL DEF Spec
=============================================================================
