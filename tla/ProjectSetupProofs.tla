------------------------- MODULE ProjectSetupProofs --------------------------
(***************************************************************************)
(* Theorems about a project directory for any connections, packs and       *)
(* sources, and any sequence of commands, answers, interrupts and edits:   *)
(* the configuration stays usable, installs are whole, and neither answers *)
(* nor contracts are lost.                                                 *)
(***************************************************************************)
EXTENDS ProjectSetup, WellFoundedInduction, TLAPS

-----------------------------------------------------------------------------
(* Inductive invariants                                                     *)

\* Where a command stands, which one it is and whether it carries a pack.
Stages == Steps \cup {"none", "menu", "write", "dumping", "clear", "bootstrap", "contracts",
                      "generate", "pack_connection", "pack_params", "install"}

CommandOK ==
    /\ pc \in Stages
    /\ pc = "none" => kind = "none"
    /\ pc = "menu" => kind = "menu"
    /\ pc \in Steps \cup {"write"} => kind = "wizard"
    /\ pc = "dumping" /\ writing.then = "none" => kind = "none"
    /\ pc = "dumping" /\ writing.then = "menu" => kind = "menu"
    /\ pc = "pack_connection" /\ kind # "wizard" => config \in Configs

\* A pack is carried from its choice to its last file; its connection is known
\* before the parameters are asked, and nothing is written before the install.
PackOK ==
    /\ job # Null => pc \in {"pack_connection", "dumping", "clear", "pack_params", "install"}
    /\ job # Null /\ pc # "install" => job.written = 0
    /\ job # Null /\ pc # "pack_connection" => job.conn # Null
    /\ pc \in {"pack_connection", "pack_params"} => job # Null
    /\ pc = "dumping" /\ writing.then = "pack_params" => job # Null
    /\ pc = "dumping" /\ job # Null => writing.then \in {"clear", "pack_params"}

\* A configuration that is sound by itself, on disk or on its way there.
SoundConfig(c) == Len(c.conns) <= MaxConns /\ c.default \in Ids(c) \cup {Null}

ConfigOK ==
    /\ config \in Configs => SoundConfig(config)
    /\ writing # Null => SoundConfig(writing.config)
    /\ draft.conn # Null => draft.conn.tested
    /\ PromptedMeansTested

\* While the wizard asks, what it holds and what it has saved are the same.
Agree(saved, held) ==
    saved.steps = held.steps /\ saved.conn = held.conn /\ saved.llm = held.llm

AnswersOK == pc \in Steps /\ IsFile(checkpoint) => Agree(checkpoint, draft)

SetupInv == TypeOK /\ CommandOK /\ PackOK /\ ConfigOK /\ AnswersOK

\* The first files of the pack stand where they belong, and their targets are
\* claimed.
InstalledOK ==
    pc = "install" =>
      /\ job.written <= Len(job.pack.files)
      /\ \A i \in 1..job.written :
           LET target == PackTarget(job.pack.files[i], job.conn)
           IN  /\ target \in job.claimed /\ target \in DOMAIN files
               /\ files[target].content = <<job.pack.id, job.pack.version, i>>

-----------------------------------------------------------------------------
(* Induction                                                                *)

LEMMA LeastNatural ==
    ASSUME NEW S \in SUBSET Nat, S # {}
    PROVE  \E x \in S : \A y \in S : x <= y
  <1> DEFINE R == OpToRel(<, Nat)
  <1>1. IsWellFoundedOn(R, Nat)
    BY NatLessThanWellFounded
  <1>2. \A x, y \in Nat : <<y, x>> \in R <=> y < x
    BY DEF OpToRel
  <1> HIDE DEF R
  <1>3. PICK x \in S : \A y \in S : ~(<<y, x>> \in R)
    BY <1>1, WFMin
  <1>4. \A y \in S : ~(y < x)
    BY <1>2, <1>3
  <1> QED
    BY <1>4

LEMMA Induction ==
    ASSUME NEW S \in SUBSET Nat, 0 \in S, \A n \in S : n + 1 \in S
    PROVE  S = Nat
  <1> SUFFICES ASSUME Nat \ S # {} PROVE FALSE
    OBVIOUS
  <1>1. PICK x \in Nat \ S : \A y \in Nat \ S : x <= y
    <2>1. (Nat \ S) \in SUBSET Nat
      OBVIOUS
    <2> QED
      BY <2>1, LeastNatural
  <1>2. x # 0 /\ x - 1 \in Nat /\ x - 1 < x
    BY <1>1
  <1>3. x - 1 \in S
    BY <1>1, <1>2
  <1> QED
    BY <1>1, <1>2, <1>3

-----------------------------------------------------------------------------
(* Removing a connection                                                    *)

\* What Without says of the first n connections.
Filtered(f, conns, id, m) ==
    f = [n \in 0..m |->
          IF n = 0 THEN <<>>
          ELSE IF conns[n].id = id THEN f[n - 1] ELSE Append(f[n - 1], conns[n])]

LEMMA FilterExists ==
    ASSUME NEW conns, NEW id, NEW m \in Nat
    PROVE  \E f : Filtered(f, conns, id, m)
  <1> DEFINE S == {k \in Nat : \E f : Filtered(f, conns, id, k)}
  <1>1. 0 \in S
    <2>1. Filtered([n \in 0..0 |-> <<>>], conns, id, 0)
      BY DEF Filtered
    <2> QED
      BY <2>1
  <1>2. ASSUME NEW k \in S PROVE k + 1 \in S
    <2>1. PICK f : Filtered(f, conns, id, k)
      OBVIOUS
    <2> DEFINE last == IF conns[k + 1].id = id THEN f[k] ELSE Append(f[k], conns[k + 1])
               g == [n \in 0..(k + 1) |-> IF n = k + 1 THEN last ELSE f[n]]
    <2>2. ASSUME NEW n \in 0..(k + 1)
          PROVE  g[n] = IF n = 0 THEN <<>>
                        ELSE IF conns[n].id = id THEN g[n - 1] ELSE Append(g[n - 1], conns[n])
      <3>1. CASE n = k + 1
        <4>1. g[n] = last /\ g[n - 1] = f[k]
          BY <3>1
        <4> QED
          BY <3>1, <4>1
      <3>2. CASE n # k + 1 /\ n = 0
        <4>1. g[n] = f[0] /\ f[0] = <<>>
          BY <2>1, <3>2 DEF Filtered
        <4> QED
          BY <3>2, <4>1
      <3>3. CASE n # k + 1 /\ n # 0
        <4>1. g[n] = f[n] /\ g[n - 1] = f[n - 1] /\ n \in 0..k
          BY <3>3
        <4>2. f[n] = IF conns[n].id = id THEN f[n - 1] ELSE Append(f[n - 1], conns[n])
          BY <2>1, <3>3, <4>1 DEF Filtered
        <4> QED
          BY <3>3, <4>1, <4>2
      <3> QED
        BY <3>1, <3>2, <3>3
    <2>3. Filtered(g, conns, id, k + 1)
      BY <2>2 DEF Filtered
    <2> QED
      BY <2>3
  <1>3. S = Nat
    <2> HIDE DEF S
    <2>1. S \in SUBSET Nat
      BY DEF S
    <2> QED
      BY <1>1, <1>2, <2>1, Induction
  <1> QED
    BY <1>3

\* Without reads the list from the front.
LEMMA WithoutFilters ==
    ASSUME NEW conns, NEW id, Len(conns) \in Nat
    PROVE  \E f : Filtered(f, conns, id, Len(conns)) /\ Without(conns, id) = f[Len(conns)]
  <1>1. \E f : Filtered(f, conns, id, Len(conns))
    BY FilterExists
  <1> DEFINE f == CHOOSE f : Filtered(f, conns, id, Len(conns))
  <1>2. Filtered(f, conns, id, Len(conns))
    BY <1>1
  <1>3. Without(conns, id) = f[Len(conns)]
    BY DEF Without, Filtered
  <1> QED
    BY <1>2, <1>3

\* Of the first n connections those of other ids are kept, and no list grows.
Keeps(out, conns, id, n, T) ==
    /\ out \in Seq(T) /\ Len(out) <= n
    /\ \A i \in 1..n : conns[i].id # id => \E j \in 1..Len(out) : out[j] = conns[i]

LEMMA FilterStep ==
    ASSUME NEW T, NEW conns \in Seq(T), NEW id, NEW n \in Nat, n + 1 <= Len(conns), NEW out,
           Keeps(out, conns, id, n, T)
    PROVE  Keeps(IF conns[n + 1].id = id THEN out ELSE Append(out, conns[n + 1]), conns, id, n + 1, T)
  <1> DEFINE e == conns[n + 1]
  <1>0. e \in T /\ out \in Seq(T) /\ Len(out) \in Nat /\ Len(out) <= n
    BY DEF Keeps
  <1>1. CASE e.id # id
    <2> DEFINE new == Append(out, e)
    <2>1. /\ new \in Seq(T) /\ Len(new) = Len(out) + 1
          /\ new[Len(out) + 1] = e /\ \A i \in 1..Len(out) : new[i] = out[i]
      BY <1>0
    <2>2. ASSUME NEW i \in 1..(n + 1), conns[i].id # id
          PROVE  \E j \in 1..Len(new) : new[j] = conns[i]
      <3>1. CASE i = n + 1
        BY <1>0, <2>1, <3>1
      <3>2. CASE i # n + 1
        <4>1. i \in 1..n
          BY <3>2
        <4>2. PICK j \in 1..Len(out) : out[j] = conns[i]
          BY <2>2, <4>1 DEF Keeps
        <4>3. j \in 1..Len(new) /\ new[j] = conns[i]
          BY <1>0, <2>1, <4>2
        <4> QED
          BY <4>3
      <3> QED
        BY <3>1, <3>2
    <2> HIDE DEF new
    <2>3. Keeps(new, conns, id, n + 1, T)
      BY <1>0, <2>1, <2>2 DEF Keeps
    <2> QED
      BY <1>1, <2>3 DEF new
  <1>2. CASE e.id = id
    BY <1>0, <1>2 DEF Keeps
  <1> QED
    BY <1>1, <1>2

LEMMA WithoutKeeps ==
    ASSUME NEW T, NEW conns \in Seq(T), NEW id
    PROVE  Keeps(Without(conns, id), conns, id, Len(conns), T)
  <1>1. Len(conns) \in Nat
    OBVIOUS
  <1>2. PICK f : Filtered(f, conns, id, Len(conns)) /\ Without(conns, id) = f[Len(conns)]
    BY <1>1, WithoutFilters
  <1> DEFINE S == {n \in Nat : n <= Len(conns) => Keeps(f[n], conns, id, n, T)}
  <1>3. 0 \in S
    <2>1. f[0] = <<>>
      BY <1>1, <1>2 DEF Filtered
    <2>2. Keeps(<<>>, conns, id, 0, T)
      BY DEF Keeps
    <2> QED
      BY <2>1, <2>2
  <1>4. ASSUME NEW n \in S PROVE n + 1 \in S
    <2> SUFFICES ASSUME n + 1 <= Len(conns) PROVE Keeps(f[n + 1], conns, id, n + 1, T)
      OBVIOUS
    <2>1. n \in Nat /\ n <= Len(conns) /\ n + 1 \in 0..Len(conns) /\ n + 1 # 0 /\ (n + 1) - 1 = n
      BY <1>1
    <2>2. f[n + 1] = IF conns[n + 1].id = id THEN f[n] ELSE Append(f[n], conns[n + 1])
      BY <1>2, <2>1 DEF Filtered
    <2>3. Keeps(f[n], conns, id, n, T)
      BY <2>1
    <2> QED
      BY <2>1, <2>2, <2>3, FilterStep
  <1>5. S = Nat
    <2> HIDE DEF S
    <2>1. S \in SUBSET Nat
      BY DEF S
    <2> QED
      BY <1>3, <1>4, <2>1, Induction
  <1> QED
    BY <1>1, <1>2, <1>5

-----------------------------------------------------------------------------
(* Configurations and answers                                               *)

\* What a command reads or writes is never mistaken for a missing or torn file.
LEMMA RecordsAreFiles ==
    /\ \A c \in Configs : IsFile(c)
    /\ \A s \in States : IsFile(s)
    /\ Null \notin Jobs /\ Null \notin Writes /\ Null \notin Entries /\ Null \notin STRING
    /\ ~IsFile(Null) /\ ~IsFile(Torn) /\ Null # Torn
  BY ProjectSetupAssumption DEF IsFile

LEMMA EntryType ==
    ASSUME NEW c \in Connections, NEW tested \in BOOLEAN
    PROVE  Entry(c, tested) \in Entries /\ Entry(c, tested).id = c.id /\ Entry(c, tested).tested = tested
           /\ c.id \in STRING
  BY ProjectSetupAssumption DEF Entry, Entries

LEMMA ConfiguredType ==
    ASSUME NEW conns \in Seq(Entries), NEW default \in STRING \cup {Null}, NEW llm \in BOOLEAN
    PROVE  /\ Configured(conns, default, llm) \in Configs
           /\ Configured(conns, default, llm).conns = conns
           /\ Configured(conns, default, llm).default = default
           /\ Configured(conns, default, llm).llm = llm
  BY DEF Configured, Configs

LEMMA ConfigFields ==
    ASSUME NEW c \in Configs
    PROVE  /\ c.conns \in Seq(Entries) /\ c.default \in STRING \cup {Null} /\ c.llm \in BOOLEAN
           /\ \A s : [c EXCEPT !.conns = s] = Configured(s, c.default, c.llm)
           /\ \A b : [c EXCEPT !.llm = b] = Configured(c.conns, c.default, b)
  <1>1. c.conns \in Seq(Entries) /\ c.default \in STRING \cup {Null} /\ c.llm \in BOOLEAN
    BY DEF Configs
  <1>2. ASSUME NEW s PROVE [c EXCEPT !.conns = s] = Configured(s, c.default, c.llm)
    BY DEF Configured, Configs
  <1>3. ASSUME NEW b PROVE [c EXCEPT !.llm = b] = Configured(c.conns, c.default, b)
    BY DEF Configured, Configs
  <1> QED
    BY <1>1, <1>2, <1>3

LEMMA SoundAppend ==
    ASSUME NEW conns \in Seq(Entries), NEW e \in Entries, Len(conns) < MaxConns,
           NEW default \in {conns[i].id : i \in DOMAIN conns} \cup {Null, e.id}, NEW llm \in BOOLEAN
    PROVE  LET c == Configured(Append(conns, e), default, llm)
           IN  c \in Configs /\ SoundConfig(c)
  <1> DEFINE more == Append(conns, e)
             c == Configured(more, default, llm)
  <1>1. /\ more \in Seq(Entries) /\ Len(more) = Len(conns) + 1 /\ DOMAIN more = 1..(Len(conns) + 1)
        /\ DOMAIN conns = 1..Len(conns) /\ Len(conns) \in Nat
        /\ more[Len(conns) + 1] = e /\ \A i \in 1..Len(conns) : more[i] = conns[i]
    OBVIOUS
  <1>2. default \in STRING \cup {Null}
    <2>1. \A x \in Entries : x.id \in STRING
      BY DEF Entries
    <2>2. \A i \in DOMAIN conns : conns[i] \in Entries
      BY <1>1
    <2>3. e.id \in STRING /\ \A i \in DOMAIN conns : conns[i].id \in STRING
      BY <2>1, <2>2
    <2> QED
      BY <2>3
  <1> HIDE DEF more
  <1>3. c \in Configs /\ c.conns = more /\ c.default = default
    BY <1>1, <1>2, ConfiguredType
  <1> HIDE DEF c
  <1>4. Len(c.conns) <= MaxConns
    BY <1>1, <1>3, ProjectSetupAssumption
  <1>5. default \in {more[i].id : i \in DOMAIN more} \cup {Null}
    <2>1. e.id = more[Len(conns) + 1].id /\ Len(conns) + 1 \in DOMAIN more
      BY <1>1
    <2>2. \A i \in DOMAIN conns : conns[i].id = more[i].id /\ i \in DOMAIN more
      BY <1>1
    <2> QED
      BY <2>1, <2>2
  <1> QED
    BY <1>3, <1>4, <1>5 DEF SoundConfig, Ids, more, c

\* A configuration after the connections of one id were taken out of it.
LEMMA SoundWithout ==
    ASSUME NEW c \in Configs, SoundConfig(c), NEW id
    PROVE  /\ Without(c.conns, id) \in Seq(Entries)
           /\ Len(Without(c.conns, id)) <= MaxConns
           /\ c.default = id \/ c.default = Null
              \/ \E j \in DOMAIN Without(c.conns, id) : Without(c.conns, id)[j].id = c.default
  <1> DEFINE out == Without(c.conns, id)
  <1>1. c.conns \in Seq(Entries)
    BY ConfigFields
  <1>2. Keeps(out, c.conns, id, Len(c.conns), Entries)
    BY <1>1, WithoutKeeps
  <1> HIDE DEF out
  <1>3. out \in Seq(Entries) /\ Len(out) <= MaxConns /\ DOMAIN out = 1..Len(out)
    BY <1>1, <1>2, ProjectSetupAssumption DEF Keeps, SoundConfig
  <1>4. ASSUME c.default # id, c.default # Null
        PROVE  \E j \in DOMAIN out : out[j].id = c.default
    <2>1. PICK i \in 1..Len(c.conns) : c.conns[i].id = c.default
      BY <1>1, <1>4 DEF SoundConfig, Ids
    <2>2. PICK j \in 1..Len(out) : out[j] = c.conns[i]
      BY <1>2, <1>4, <2>1 DEF Keeps
    <2> QED
      BY <1>3, <2>1, <2>2
  <1> QED
    BY <1>3, <1>4 DEF out

LEMMA StateFields ==
    ASSUME NEW s \in States
    PROVE  /\ s.steps \in SUBSET WizardSteps /\ s.conn \in Entries \cup {Null}
           /\ s.llm \in BOOLEAN /\ s.fresh \in BOOLEAN
  BY DEF States

LEMMA JobFields ==
    ASSUME NEW j \in Jobs
    PROVE  /\ j.pack \in Packs /\ j.conn \in STRING \cup {Null} /\ j.written \in Nat
           /\ j.claimed \in SUBSET Targets
  BY DEF Jobs

LEMMA InstallType ==
    ASSUME NEW p \in Packs, NEW conn \in STRING \cup {Null}
    PROVE  /\ Install(p, conn) \in Jobs /\ Install(p, conn) # Null
           /\ Install(p, conn).conn = conn /\ Install(p, conn).written = 0
           /\ conn \in STRING => Install(p, conn).conn # Null
  <1>1. Install(p, conn) \in Jobs /\ Install(p, conn).conn = conn /\ Install(p, conn).written = 0
    BY DEF Install, Jobs
  <1> QED
    BY <1>1, RecordsAreFiles

FileRecords == [dir : STRING, name : Names \cup {Null}]

LEMMA PackTargetType ==
    ASSUME NEW f \in FileRecords, f.name # Null, NEW conn \in STRING
    PROVE  PackTarget(f, conn) \in Targets
  <1>1. f.dir \in STRING /\ f.name \in Names
    BY DEF FileRecords
  <1>2. <<conn>> \o f.name \in Names
    <2> DEFINE one == <<conn>>
    <2>1. one \in Seq(STRING)
      OBVIOUS
    <2> HIDE DEF one
    <2>2. one \o f.name \in Seq(STRING)
      BY <1>1, <2>1 DEF Names
    <2> QED
      BY <2>2 DEF one, Names
  <1> DEFINE long == <<conn>> \o f.name
  <1>3. PackTarget(f, conn) = IF f.dir = "semantics" THEN <<"semantics", long>> ELSE <<f.dir, f.name>>
    BY DEF PackTarget, Semantics
  <1>4. long \in Names
    BY <1>2
  <1> HIDE DEF long
  <1> QED
    BY <1>1, <1>3, <1>4 DEF Targets

\* The pack after another file of it was written to target.
LEMMA JobStep ==
    ASSUME NEW j \in Jobs, NEW target \in Targets
    PROVE  LET k == [j EXCEPT !.written = @ + 1, !.claimed = @ \cup {target}]
           IN  k \in Jobs /\ k.pack = j.pack /\ k.conn = j.conn
               /\ k.written = j.written + 1 /\ k.claimed = j.claimed \cup {target}
  <1> DEFINE k == [j EXCEPT !.written = @ + 1, !.claimed = @ \cup {target}]
  <1>1. k \in [pack : {j.pack}, conn : {j.conn}, written : {j.written + 1},
                claimed : {j.claimed \cup {target}}]
    BY DEF Jobs
  <1>2. /\ j.pack \in Packs /\ j.conn \in STRING \cup {Null} /\ j.written \in Nat
        /\ j.claimed \in SUBSET Targets
    BY JobFields
  <1> HIDE DEF k
  <1>3. k.pack = j.pack /\ k.conn = j.conn /\ k.written = j.written + 1 /\ k.claimed = j.claimed \cup {target}
    BY <1>1
  <1>4. j.written + 1 \in Nat /\ j.claimed \cup {target} \in SUBSET Targets
    BY <1>2
  <1>5. k \in Jobs
    BY <1>1, <1>2, <1>4 DEF Jobs
  <1> QED
    BY <1>3, <1>5 DEF k

\* A configuration with one connection, which is the default.
LEMMA ConfiguredOne ==
    ASSUME NEW e \in Entries, NEW llm \in BOOLEAN, e.tested
    PROVE  /\ Configured(<<e>>, e.id, llm) \in Configs
           /\ SoundConfig(Configured(<<e>>, e.id, llm))
           /\ Untested(Configured(<<e>>, e.id, llm)) = {}
  <1> DEFINE one == <<e>>
             new == Configured(one, e.id, llm)
  <1>1. one \in Seq(Entries) /\ DOMAIN one = {1} /\ one[1] = e /\ Len(one) = 1
    OBVIOUS
  <1>2. e.id \in STRING \cup {Null}
    BY DEF Entries
  <1> HIDE DEF one
  <1>3. new \in Configs /\ new.conns = one /\ new.default = e.id
    BY <1>1, <1>2 DEF Configured, Configs
  <1> HIDE DEF new
  <1>4. Ids(new) = {e.id} /\ Untested(new) = {}
    BY <1>1, <1>3 DEF Ids, Untested
  <1>5. Len(new.conns) <= MaxConns
    <2>1. MaxConns \in Nat /\ 1 <= MaxConns
      BY ProjectSetupAssumption
    <2>2. Len(new.conns) = 1
      BY <1>1, <1>3
    <2> QED
      BY <2>1, <2>2
  <1>6. SoundConfig(new)
    BY <1>3, <1>4, <1>5 DEF SoundConfig
  <1> QED
    BY <1>3, <1>4, <1>6 DEF new, one

LEMMA NoStateType == NoState \in States /\ NoState.conn = Null
  BY DEF NoState, States

-----------------------------------------------------------------------------
(* Steps that several commands take                                         *)

Kinds == {"wizard", "minimal", "menu", "cli", "none"}

\* A command begins to write a sound configuration.
LEMMA BeginWriteKeeps ==
    ASSUME SetupInv, NEW new \in Configs, SoundConfig(new),
           NEW then \in {"none", "menu", "clear", "pack_params"}, BeginWrite(new, then),
           UNCHANGED <<checkpoint, draft, todo>>, pc # "generate",
           kind' \in Kinds, kind' = "wizard" => Untested(new) = {},
           then = "none" => kind' = "none", then = "menu" => kind' = "menu",
           job' \in Jobs \cup {Null}, job' # Null => job'.written = 0 /\ job'.conn # Null,
           then = "pack_params" => job' # Null,
           job' # Null => then \in {"clear", "pack_params"}
    PROVE  SetupInv'
  <1>1. config' = Torn /\ pc' = "dumping" /\ writing' = [config |-> new, then |-> then]
    BY DEF BeginWrite
  <1>2. writing' \in Writes /\ writing' # Null /\ writing'.config = new /\ writing'.then = then
    BY <1>1, RecordsAreFiles DEF Writes
  <1>3. Torn \notin Configs /\ ~IsFile(Torn)
    BY RecordsAreFiles
  <1>4. TypeOK'
    BY <1>1, <1>2, <1>3 DEF SetupInv, TypeOK, Kinds
  <1>5. CommandOK'
    BY <1>1, <1>2 DEF CommandOK, Stages, Steps
  <1>6. PackOK'
    BY <1>1, <1>2 DEF PackOK
  <1>7. ConfigOK'
    BY <1>1, <1>2, <1>3 DEF SetupInv, ConfigOK, PromptedMeansTested
  <1>8. AnswersOK'
    BY <1>1 DEF AnswersOK, Steps
  <1> QED
    BY <1>4, <1>5, <1>6, <1>7, <1>8 DEF SetupInv

\* A command ends, or returns to the menu.
LEMMA EndKeeps ==
    ASSUME SetupInv, NEW next \in {"none", "menu"}, EndTo(next), UNCHANGED config,
           checkpoint' \in {checkpoint, Null, Torn}, writing' = Null, todo' = <<>>
    PROVE  SetupInv'
  <1>1. /\ pc' = next /\ job' = Null /\ draft' = NoState
        /\ kind' = IF next = "menu" THEN "menu" ELSE "none"
    BY DEF EndTo
  <1>2. NoState \in States /\ NoState.conn = Null /\ ~IsFile(Null) /\ ~IsFile(Torn)
    BY NoStateType, RecordsAreFiles
  <1>3. TypeOK'
    BY <1>1, <1>2 DEF SetupInv, TypeOK
  <1>4. CommandOK'
    BY <1>1 DEF CommandOK, Stages, Steps
  <1>5. PackOK'
    BY <1>1 DEF PackOK
  <1>6. ConfigOK'
    BY <1>1, <1>2 DEF SetupInv, ConfigOK, PromptedMeansTested
  <1>7. AnswersOK'
    BY <1>1 DEF AnswersOK, Steps
  <1> QED
    BY <1>3, <1>4, <1>5, <1>6, <1>7 DEF SetupInv

LEMMA BackIs == Back \in {"none", "menu"}
  BY DEF Back

\* A question of the wizard is answered, and the answer saved.
LEMMA AnswerKeeps ==
    ASSUME SetupInv, pc \in Steps, NEW step \in WizardSteps, NEW answered \in States,
           NEW next \in Steps \cup {"write"}, Answer(step, answered, next),
           answered.conn # Null => answered.conn.tested,
           UNCHANGED <<config, kind, writing, job, todo>>
    PROVE  SetupInv'
  <1> DEFINE new == [answered EXCEPT !.steps = @ \cup {step}]
  <1>1. draft' = new /\ checkpoint' = new /\ pc' = next
    BY DEF Answer
  <1>2. /\ new \in States /\ new.steps # {} /\ new.conn = answered.conn
    BY DEF States
  <1> HIDE DEF new
  <1>3. kind = "wizard" /\ writing = Null /\ job = Null /\ todo = <<>> /\ IsFile(new)
    BY <1>2, RecordsAreFiles DEF SetupInv, TypeOK, CommandOK, PackOK, Steps
  <1>4. TypeOK'
    BY <1>1, <1>2, <1>3 DEF SetupInv, TypeOK, Steps
  <1>5. CommandOK'
    BY <1>1, <1>3 DEF CommandOK, Stages, Steps
  <1>6. PackOK'
    BY <1>1, <1>3 DEF PackOK, Steps
  <1>7. ConfigOK'
    BY <1>1, <1>2, <1>3 DEF SetupInv, ConfigOK, PromptedMeansTested, Steps
  <1>8. AnswersOK'
    BY <1>1 DEF AnswersOK, Agree
  <1> QED
    BY <1>4, <1>5, <1>6, <1>7, <1>8 DEF SetupInv

\* A question was answered before.
LEMMA SkipKeeps ==
    ASSUME SetupInv, pc \in Steps, NEW step, NEW next \in Steps \cup {"write"}, SkipStep(step, next),
           UNCHANGED <<config, kind, writing, job, todo>>
    PROVE  SetupInv'
  <1>1. pc' = next /\ UNCHANGED <<checkpoint, draft>>
    BY DEF SkipStep
  <1>2. kind = "wizard" /\ writing = Null /\ job = Null /\ todo = <<>>
    BY DEF SetupInv, TypeOK, CommandOK, PackOK, Steps
  <1>3. TypeOK'
    BY <1>1, <1>2 DEF SetupInv, TypeOK, Steps
  <1>4. CommandOK'
    BY <1>1, <1>2 DEF CommandOK, Stages, Steps
  <1>5. PackOK'
    BY <1>1, <1>2 DEF PackOK, Steps
  <1>6. ConfigOK'
    BY <1>1, <1>2 DEF SetupInv, ConfigOK, PromptedMeansTested, Steps
  <1>7. AnswersOK'
    BY <1>1 DEF SetupInv, AnswersOK, Agree
  <1> QED
    BY <1>3, <1>4, <1>5, <1>6, <1>7 DEF SetupInv

-----------------------------------------------------------------------------
(* Every step                                                               *)

LEMMA SetupInit == Init => SetupInv
  <1> SUFFICES ASSUME Init PROVE SetupInv
    OBVIOUS
  <1> USE NoStateType, RecordsAreFiles DEF Init
  <1>1. TypeOK
    BY DEF TypeOK
  <1>2. CommandOK
    BY DEF CommandOK, Stages, Steps
  <1>3. PackOK
    BY DEF PackOK
  <1>4. ConfigOK
    BY DEF ConfigOK, PromptedMeansTested
  <1>5. AnswersOK
    BY DEF AnswersOK
  <1> QED
    BY <1>1, <1>2, <1>3, <1>4, <1>5 DEF SetupInv

\* Steps that only move on: config, the checkpoint and what is held stay.
LEMMA MoveKeeps ==
    ASSUME SetupInv, UNCHANGED <<config, checkpoint, writing>>, pc # "dumping",
           pc' \in Stages \ (Steps \cup {"write", "dumping"}), kind' \in Kinds, draft' = draft,
           pc' = "none" => kind' = "none", pc' = "menu" => kind' = "menu",
           pc' = "pack_connection" /\ kind' # "wizard" => config \in Configs,
           todo' # <<>> => pc' = "generate",
           job' \in Jobs \cup {Null},
           job' # Null => pc' \in {"pack_connection", "clear", "pack_params", "install"},
           job' # Null /\ pc' # "install" => job'.written = 0,
           job' # Null /\ pc' # "pack_connection" => job'.conn # Null,
           pc' \in {"pack_connection", "pack_params", "install"} => job' # Null
    PROVE  SetupInv'
  <1>0. writing = Null /\ writing' = Null
    BY DEF SetupInv, TypeOK
  <1>1. TypeOK'
    BY <1>0 DEF SetupInv, TypeOK, Kinds
  <1>2. CommandOK'
    BY DEF CommandOK
  <1>3. PackOK'
    BY DEF PackOK
  <1>4. ConfigOK'
    BY <1>0 DEF SetupInv, ConfigOK, PromptedMeansTested
  <1>5. AnswersOK'
    BY DEF AnswersOK
  <1> QED
    BY <1>1, <1>2, <1>3, <1>4, <1>5 DEF SetupInv

LEMMA WizardKeeps ==
    ASSUME SetupInv, Wizard
    PROVE  SetupInv'
  <1>1. CASE Setup
    <2>1. kind = "none" /\ job = Null /\ writing = Null /\ todo = <<>>
      BY <1>1 DEF Setup, SetupInv, TypeOK, CommandOK, PackOK
    <2>2. CASE config # Null
      <3>1. kind' = "menu" /\ pc' = "menu" /\ UNCHANGED <<config, checkpoint, writing, job, todo, draft>>
        BY <1>1, <2>2 DEF Setup
      <3> QED
        BY <1>1, <2>1, <3>1, MoveKeeps DEF Setup, Stages, Steps, Kinds, SetupInv, TypeOK
    <2>3. CASE config = Null
      <3>1. /\ kind' = "wizard" /\ pc' = "name" /\ draft' = LoadState(checkpoint)
            /\ UNCHANGED <<config, checkpoint, writing, job, todo>>
        BY <1>1, <2>3 DEF Setup
      <3>2. /\ LoadState(checkpoint) \in States
            /\ LoadState(checkpoint).conn # Null => LoadState(checkpoint).conn.tested
            /\ IsFile(checkpoint) => Agree(checkpoint, LoadState(checkpoint))
        <4>1. CASE IsFile(checkpoint)
          <5>1. checkpoint \in States
            BY <4>1, RecordsAreFiles DEF SetupInv, TypeOK
          <5>2. LoadState(checkpoint) = [checkpoint EXCEPT !.fresh = FALSE]
            BY <4>1 DEF LoadState
          <5>3. LoadState(checkpoint) \in States /\ Agree(checkpoint, LoadState(checkpoint))
            BY <5>1, <5>2 DEF States, Agree
          <5> QED
            BY <4>1, <5>3 DEF SetupInv, ConfigOK, PromptedMeansTested, Agree
        <4>2. CASE ~IsFile(checkpoint)
          BY <4>2, NoStateType DEF LoadState
        <4> QED
          BY <4>1, <4>2
      <3>3. TypeOK'
        BY <2>1, <3>1, <3>2 DEF SetupInv, TypeOK
      <3>4. CommandOK'
        BY <3>1 DEF CommandOK, Stages, Steps
      <3>5. PackOK'
        BY <2>1, <3>1 DEF PackOK
      <3>6. ConfigOK'
        BY <2>1, <3>1, <3>2 DEF SetupInv, ConfigOK, PromptedMeansTested
      <3>7. AnswersOK'
        BY <3>1, <3>2 DEF AnswersOK
      <3> QED
        BY <3>3, <3>4, <3>5, <3>6, <3>7 DEF SetupInv
    <2> QED
      BY <2>2, <2>3
  <1>2. draft \in States /\ draft.conn # Null => draft.conn.tested
    BY DEF SetupInv, TypeOK, ConfigOK
  <1>3. CASE NameStep
    <2>1. PICK next \in {"offer", "connection"} : SkipStep("name", next) \/ Answer("name", draft, next)
      BY <1>3 DEF NameStep
    <2>2. pc \in Steps /\ next \in Steps \cup {"write"} /\ "name" \in WizardSteps
          /\ UNCHANGED <<config, kind, writing, job, todo>>
      BY <1>3 DEF NameStep, Steps, WizardSteps
    <2>3. draft \in States
      BY DEF SetupInv, TypeOK
    <2> QED
      BY <1>2, <2>1, <2>2, <2>3, SkipKeeps, AnswerKeeps
  <1>4. CASE ConnectionStep
    <2>1. pc \in Steps /\ "llm" \in Steps \cup {"write"} /\ "connection" \in WizardSteps
          /\ UNCHANGED <<config, kind, writing, job, todo>>
      BY <1>4 DEF ConnectionStep, Steps, WizardSteps
    <2>2. draft \in States
      BY DEF SetupInv, TypeOK
    <2>3. CASE SkipStep("connection", "llm")
      BY <2>1, <2>3, SkipKeeps
    <2>4. CASE Answer("connection", draft, "llm")
      BY <1>2, <2>1, <2>2, <2>4, AnswerKeeps
    <2>5. ASSUME NEW c \in Connections, NEW tested \in BOOLEAN, Passed(c, tested),
                 Answer("connection", [draft EXCEPT !.conn = Entry(c, tested)], "llm")
          PROVE  SetupInv'
      <3> DEFINE answered == [draft EXCEPT !.conn = Entry(c, tested)]
      <3>1. tested /\ Entry(c, tested) \in Entries /\ Entry(c, tested).tested
        BY <2>5, EntryType DEF Passed
      <3>2. answered \in States /\ answered.conn = Entry(c, tested)
        BY <2>2, <3>1 DEF States
      <3>3. Answer("connection", answered, "llm")
        BY <2>5
      <3> HIDE DEF answered
      <3> QED
        BY <2>1, <3>1, <3>2, <3>3, AnswerKeeps
    <2> QED
      BY <1>4, <2>3, <2>4, <2>5 DEF ConnectionStep
  <1>5. CASE LlmStep
    <2>1. pc \in Steps /\ "schema" \in Steps \cup {"write"} /\ "llm" \in WizardSteps
          /\ UNCHANGED <<config, kind, writing, job, todo>>
      BY <1>5 DEF LlmStep, Steps, WizardSteps
    <2>2. draft \in States
      BY DEF SetupInv, TypeOK
    <2>3. CASE SkipStep("llm", "schema")
      BY <2>1, <2>3, SkipKeeps
    <2>4. ASSUME NEW llm \in BOOLEAN, Answer("llm", [draft EXCEPT !.llm = llm], "schema")
          PROVE  SetupInv'
      <3> DEFINE answered == [draft EXCEPT !.llm = llm]
      <3>1. answered \in States /\ answered.conn = draft.conn
        BY <2>2 DEF States
      <3>2. Answer("llm", answered, "schema")
        BY <2>4
      <3> HIDE DEF answered
      <3>3. answered.conn # Null => answered.conn.tested
        BY <1>2, <2>2, <3>1
      <3> QED
        BY <2>1, <3>1, <3>2, <3>3, AnswerKeeps
    <2> QED
      BY <1>5, <2>3, <2>4 DEF LlmStep
  <1>6. CASE SchemaStep
    <2>1. pc \in Steps /\ "write" \in Steps \cup {"write"} /\ "schema" \in WizardSteps
          /\ UNCHANGED <<config, kind, writing, job, todo>>
      BY <1>6 DEF SchemaStep, Steps, WizardSteps
    <2>2. draft \in States
      BY DEF SetupInv, TypeOK
    <2>3. SkipStep("schema", "write") \/ Answer("schema", draft, "write")
      BY <1>6 DEF SchemaStep
    <2> QED
      BY <1>2, <2>1, <2>2, <2>3, SkipKeeps, AnswerKeeps
  <1>7. CASE OfferPacks
    <2>1. kind = "wizard" /\ job = Null /\ writing = Null /\ todo = <<>> /\ pc = "offer"
      BY <1>7 DEF OfferPacks, SetupInv, TypeOK, CommandOK, PackOK, Steps
    <2>2. UNCHANGED <<config, checkpoint, writing, todo>>
      BY <1>7 DEF OfferPacks
    <2>3. CASE pc' = "connection" /\ UNCHANGED <<kind, job, draft>>
      <3>1. TypeOK'
        BY <2>1, <2>2, <2>3 DEF SetupInv, TypeOK
      <3>2. CommandOK'
        BY <2>1, <2>3 DEF CommandOK, Stages, Steps
      <3>3. PackOK'
        BY <2>1, <2>3 DEF PackOK
      <3>4. ConfigOK'
        BY <2>1, <2>2, <2>3 DEF SetupInv, ConfigOK, PromptedMeansTested
      <3>5. AnswersOK'
        BY <2>1, <2>2, <2>3 DEF SetupInv, AnswersOK, Steps
      <3> QED
        BY <3>1, <3>2, <3>3, <3>4, <3>5 DEF SetupInv
    <2>4. ASSUME NEW p \in Packs, job' = Install(p, Null), pc' = "pack_connection",
                 UNCHANGED <<kind, draft>>
          PROVE  SetupInv'
      <3>1. job' \in Jobs /\ job' # Null /\ job'.written = 0
        BY <2>4, InstallType
      <3> QED
        BY <2>1, <2>2, <2>4, <3>1, MoveKeeps DEF Stages, Steps, Kinds
    <2>5. CASE EndTo("none")
      BY <2>1, <2>2, <2>5, EndKeeps
    <2> QED
      BY <1>7, <2>3, <2>4, <2>5 DEF OfferPacks
  <1>8. CASE WriteConfig
    <2>1. pc = "write" /\ kind = "wizard" /\ job = Null /\ UNCHANGED <<checkpoint, kind, draft, job, todo>>
      BY <1>8 DEF WriteConfig, SetupInv, CommandOK, PackOK
    <2>2. draft \in States /\ draft.conn \in Entries \cup {Null} /\ draft.llm \in BOOLEAN
      BY StateFields DEF SetupInv, TypeOK
    <2> DEFINE new == IF draft.conn = Null
                      THEN Configured(<<>>, Null, draft.llm)
                      ELSE Configured(<<draft.conn>>, draft.conn.id, draft.llm)
    <2>3. new \in Configs /\ SoundConfig(new) /\ Untested(new) = {}
      <3>1. CASE draft.conn = Null
        <4>1. new = Configured(<<>>, Null, draft.llm) /\ <<>> \in Seq(Entries)
          BY <3>1
        <4> HIDE DEF new
        <4>2. new \in Configs /\ new.conns = <<>> /\ new.default = Null
          BY <2>2, <4>1, ConfiguredType
        <4> QED
          BY <4>2, ProjectSetupAssumption DEF SoundConfig, Untested
      <3>2. CASE draft.conn # Null
        <4> DEFINE e == draft.conn
        <4>1. e \in Entries /\ e.tested /\ e.id \in STRING
          BY <1>2, <2>2, <3>2 DEF Entries
        <4> HIDE DEF e
        <4>2. new = Configured(<<e>>, e.id, draft.llm)
          BY <3>2 DEF e
        <4> HIDE DEF new
        <4> QED
          BY <2>2, <4>1, <4>2, ConfiguredOne
      <3> QED
        BY <3>1, <3>2
    <2>4. BeginWrite(new, "clear")
      BY <1>8 DEF WriteConfig
    <2> HIDE DEF new
    <2> QED
      BY <2>1, <2>3, <2>4, RecordsAreFiles, BeginWriteKeeps DEF Kinds
  <1>9. CASE MinimalSetup
    <2>1. pc = "none" /\ kind' = "minimal" /\ job = Null /\ UNCHANGED <<checkpoint, draft, job, todo>>
      BY <1>9 DEF MinimalSetup, SetupInv, PackOK
    <2> DEFINE new == Configured(<<>>, Null, FALSE)
    <2>2. new \in Configs /\ new.conns = <<>> /\ new.default = Null
      <3> DEFINE nil == <<>>
      <3>1. nil \in Seq(Entries) /\ Null \in STRING \cup {Null}
        OBVIOUS
      <3> HIDE DEF nil
      <3>2. Configured(nil, Null, FALSE) \in Configs
        BY <3>1 DEF Configured, Configs
      <3>3. Configured(nil, Null, FALSE).conns = nil /\ Configured(nil, Null, FALSE).default = Null
        BY DEF Configured
      <3> QED
        BY <3>2, <3>3 DEF nil
    <2>3. BeginWrite(new, "clear")
      BY <1>9 DEF MinimalSetup
    <2> HIDE DEF new
    <2>4. SoundConfig(new)
      BY <2>2, ProjectSetupAssumption DEF SoundConfig
    <2> QED
      BY <2>1, <2>2, <2>3, <2>4, BeginWriteKeeps DEF Kinds
  <1>10. CASE ClearState
    <2>1. /\ pc = "clear" /\ checkpoint' = Null /\ writing = Null /\ todo = <<>>
          /\ UNCHANGED <<config, writing, todo>>
      BY <1>10 DEF ClearState, SetupInv, TypeOK
    <2>2. CASE EndTo("none")
      BY <2>1, <2>2, EndKeeps
    <2>3. CASE pc' = (IF job # Null THEN "pack_params" ELSE "bootstrap") /\ UNCHANGED <<kind, draft, job>>
      <3>1. TypeOK'
        BY <2>1, <2>3, RecordsAreFiles DEF SetupInv, TypeOK
      <3>2. CommandOK'
        BY <2>1, <2>3 DEF CommandOK, Stages, Steps
      <3>3. PackOK'
        BY <2>1, <2>3 DEF SetupInv, PackOK
      <3>4. ConfigOK'
        BY <2>1, <2>3, RecordsAreFiles DEF SetupInv, ConfigOK, PromptedMeansTested
      <3>5. AnswersOK'
        BY <2>3 DEF AnswersOK, Steps
      <3> QED
        BY <3>1, <3>2, <3>3, <3>4, <3>5 DEF SetupInv
    <2> QED
      BY <1>10, <2>2, <2>3 DEF ClearState
  <1>11. CASE Bootstrap
    <2>1. /\ pc = "bootstrap" /\ pc' = "contracts" /\ job = Null /\ todo = <<>>
          /\ UNCHANGED <<config, checkpoint, kind, draft, writing, job, todo>> /\ kind \in Kinds
      BY <1>11 DEF Bootstrap, SetupInv, TypeOK, PackOK, Kinds
    <2> QED
      BY <2>1, MoveKeeps DEF Stages, Steps
  <1> QED
    BY <1>1, <1>3, <1>4, <1>5, <1>6, <1>7, <1>8, <1>9, <1>10, <1>11 DEF Wizard

LEMMA PackKeeps ==
    ASSUME SetupInv, PackConnection \/ PackParams \/ InstallFile \/ EndInstall \/ PackAdd \/ MenuPack
    PROVE  SetupInv'
  <1>0. kind \in Kinds /\ job \in Jobs \cup {Null}
    BY DEF SetupInv, TypeOK, Kinds
  <1>1. CASE PackConnection
    <2>1. PICK c \in Connections, tested \in BOOLEAN :
            /\ Passed(c, tested)
            /\ job' = [job EXCEPT !.conn = c.id]
            /\ IF kind = "wizard"
               THEN BeginWrite(Configured(<<Entry(c, tested)>>, c.id, FALSE), "clear")
               ELSE /\ Len(config.conns) < MaxConns
                    /\ BeginWrite([config EXCEPT !.conns = Append(@, Entry(c, tested))], "pack_params")
      BY <1>1, Zenon DEF PackConnection
    <2>2. pc = "pack_connection" /\ UNCHANGED <<checkpoint, kind, draft, todo>>
      BY <1>1 DEF PackConnection
    <2>3. job \in Jobs /\ job.written = 0
      BY <1>0, <2>2 DEF SetupInv, PackOK
    <2> DEFINE e == Entry(c, tested)
    <2>4. e \in Entries /\ e.id = c.id /\ e.tested /\ c.id \in STRING
      BY <2>1, EntryType DEF Passed
    <2> HIDE DEF e
    <2>5. job' \in Jobs /\ job' # Null /\ job'.written = 0 /\ job'.conn # Null
      BY <2>1, <2>3, <2>4, RecordsAreFiles DEF Jobs
    <2>6. CASE kind = "wizard"
      <3> DEFINE new == Configured(<<e>>, e.id, FALSE)
      <3>1. BeginWrite(new, "clear")
        BY <2>1, <2>4, <2>6 DEF e
      <3>2. new \in Configs /\ SoundConfig(new) /\ Untested(new) = {}
        BY <2>4, ConfiguredOne
      <3> HIDE DEF new
      <3> QED
        BY <1>0, <2>2, <2>5, <2>6, <3>1, <3>2, BeginWriteKeeps
    <2>7. CASE kind # "wizard"
      <3> DEFINE new == Configured(Append(config.conns, e), config.default, config.llm)
      <3>1. config \in Configs
        BY <2>2, <2>7 DEF SetupInv, CommandOK
      <3>2. /\ config.conns \in Seq(Entries) /\ config.llm \in BOOLEAN
            /\ config.default \in Ids(config) \cup {Null}
        BY <3>1, ConfigFields DEF SetupInv, ConfigOK, SoundConfig
      <3>3. BeginWrite(new, "pack_params")
        BY <2>1, <2>7, <3>1, ConfigFields DEF e
      <3>4. new \in Configs /\ SoundConfig(new)
        BY <2>1, <2>4, <2>7, <3>2, SoundAppend DEF Ids
      <3> HIDE DEF new
      <3> QED
        BY <1>0, <2>2, <2>5, <2>7, <3>3, <3>4, BeginWriteKeeps
    <2> QED
      BY <2>6, <2>7
  <1>2. CASE PackParams
    <2>1. /\ pc = "pack_params" /\ writing = Null /\ todo = <<>>
          /\ UNCHANGED <<config, checkpoint, writing, todo>>
      BY <1>2 DEF PackParams, SetupInv, TypeOK
    <2>2. job # Null /\ job.conn # Null /\ job.written = 0
      BY <2>1 DEF SetupInv, PackOK
    <2>3. CASE pc' = "install" /\ UNCHANGED <<kind, job, draft>>
      BY <1>0, <2>1, <2>2, <2>3, MoveKeeps DEF Stages, Steps
    <2>4. CASE EndTo("none") \/ EndTo(Back)
      BY <2>1, <2>4, BackIs, EndKeeps
    <2> QED
      BY <1>2, <2>3, <2>4 DEF PackParams
  <1>3. CASE InstallFile
    <2>1. /\ pc = "install" /\ writing = Null /\ todo = <<>>
          /\ UNCHANGED <<config, checkpoint, writing, todo>>
      BY <1>3 DEF InstallFile, SetupInv, TypeOK
    <2>2. job \in Jobs /\ job.conn # Null
      BY <1>0, <2>1 DEF SetupInv, TypeOK
    <2> DEFINE f == job.pack.files[job.written + 1]
               target == PackTarget(f, job.conn)
    <2>3. CASE EndTo("none")
      BY <2>1, <2>3, EndKeeps
    <2>4. CASE /\ f.name # Null
               /\ job' = [job EXCEPT !.written = @ + 1, !.claimed = @ \cup {target}]
               /\ UNCHANGED <<pc, kind, draft>>
      <3>1. job.pack \in Packs /\ job.written \in Nat /\ job.conn \in STRING
        BY <2>2, JobFields
      <3>2. f \in FileRecords
        <4>1. job.pack.files \in Seq(FileRecords)
          BY <3>1, ProjectSetupAssumption DEF FileRecords
        <4>2. job.written < Len(job.pack.files)
          BY <1>3 DEF InstallFile
        <4>3. job.written + 1 \in 1..Len(job.pack.files)
          BY <3>1, <4>1, <4>2
        <4> QED
          BY <4>1, <4>3
      <3>3. target \in Targets
        <4> HIDE DEF f
        <4> QED
          BY <2>4, <3>1, <3>2, PackTargetType
      <3>5. job' \in Jobs /\ job'.conn = job.conn
        <4> HIDE DEF target
        <4> QED
          BY <2>2, <2>4, <3>3, JobStep
      <3>6. job' # Null
        BY <3>5, RecordsAreFiles
      <3> QED
        BY <1>0, <2>1, <2>2, <2>4, <3>5, <3>6, MoveKeeps DEF Stages, Steps
    <2> QED
      BY <1>3, <2>3, <2>4 DEF InstallFile
  <1>4. CASE EndInstall
    <2>1. /\ writing = Null /\ todo = <<>> /\ EndTo(Back)
          /\ UNCHANGED <<config, checkpoint, writing, todo>>
      BY <1>4 DEF EndInstall, SetupInv, TypeOK
    <2> QED
      BY <2>1, BackIs, EndKeeps
  <1>5. ASSUME NEW p, NEW i \in Candidates(p), Loadable(config)
        PROVE  config \in Configs /\ config.conns[i].id \in STRING
    <2>1. config \in Configs
      BY <1>5 DEF Loadable, IsFile, SetupInv, TypeOK
    <2>2. config.conns \in Seq(Entries)
      BY <2>1, ConfigFields
    <2>3. config.conns[i] \in Entries
      BY <2>2 DEF Candidates
    <2> QED
      BY <2>1, <2>3 DEF Entries
  <1>6. CASE PackAdd
    <2>1. /\ pc = "none" /\ kind' = "cli" /\ pc' = "pack_params" /\ writing = Null /\ todo = <<>>
          /\ UNCHANGED <<config, checkpoint, draft, writing, todo>>
      BY <1>6 DEF PackAdd, SetupInv, TypeOK
    <2>2. PICK p \in Packs : \E i \in Candidates(p) : job' = Install(p, config.conns[i].id)
      BY <1>6 DEF PackAdd
    <2>3. PICK i \in Candidates(p) : job' = Install(p, config.conns[i].id)
      BY <2>2
    <2>4. config.conns[i].id \in STRING
      BY <1>5, <1>6 DEF PackAdd
    <2>5. job' \in Jobs /\ job' # Null /\ job'.written = 0 /\ job'.conn # Null
      BY <2>3, <2>4, InstallType, RecordsAreFiles
    <2> QED
      BY <2>1, <2>5, MoveKeeps DEF Stages, Steps, Kinds
  <1>7. CASE MenuPack
    <2>1. /\ pc = "menu" /\ kind = "menu" /\ kind' = "menu" /\ writing = Null /\ todo = <<>>
          /\ UNCHANGED <<config, checkpoint, draft, writing, todo>>
      BY <1>7 DEF MenuPack, SetupInv, TypeOK, CommandOK
    <2>2. config \in Configs
      BY <1>7 DEF MenuPack, Loadable, IsFile, SetupInv, TypeOK
    <2>3. PICK p \in Packs :
            IF Candidates(p) = {}
            THEN job' = Install(p, Null) /\ pc' = "pack_connection"
            ELSE \E i \in Candidates(p) : job' = Install(p, config.conns[i].id) /\ pc' = "pack_params"
      BY <1>7 DEF MenuPack
    <2>4. CASE job' = Install(p, Null) /\ pc' = "pack_connection"
      <3>1. job' \in Jobs /\ job' # Null /\ job'.written = 0
        BY <2>4, InstallType
      <3> QED
        BY <2>1, <2>2, <2>4, <3>1, MoveKeeps DEF Stages, Steps, Kinds
    <2>5. ASSUME NEW i \in Candidates(p), job' = Install(p, config.conns[i].id), pc' = "pack_params"
          PROVE  SetupInv'
      <3>1. config.conns[i].id \in STRING
        BY <1>5, <1>7 DEF MenuPack
      <3>2. job' \in Jobs /\ job' # Null /\ job'.written = 0 /\ job'.conn # Null
        BY <2>5, <3>1, InstallType, RecordsAreFiles
      <3> QED
        BY <2>1, <2>5, <3>2, MoveKeeps DEF Stages, Steps, Kinds
    <2> QED
      BY <2>3, <2>4, <2>5
  <1> QED
    BY <1>1, <1>2, <1>3, <1>4, <1>6, <1>7

LEMMA CommandKeeps ==
    ASSUME SetupInv,
           \/ MenuAddConnection \/ MenuGenerate \/ MenuLlm \/ ConnectionAdd \/ ConnectionRemove
           \/ GenerateContracts \/ WriteContract \/ EndGenerate
    PROVE  SetupInv'
  <1>0. kind \in Kinds
    BY DEF SetupInv, TypeOK, Kinds
  <1>1. ASSUME Loadable(config)
        PROVE  /\ config \in Configs /\ SoundConfig(config)
               /\ config.conns \in Seq(Entries) /\ config.llm \in BOOLEAN
               /\ config.default \in {config.conns[i].id : i \in DOMAIN config.conns} \cup {Null}
    <2>1. config \in Configs
      BY <1>1 DEF Loadable, IsFile, SetupInv, TypeOK
    <2>2. SoundConfig(config)
      BY <2>1 DEF SetupInv, ConfigOK
    <2>3. config.default \in {config.conns[i].id : i \in DOMAIN config.conns} \cup {Null}
      BY <2>2 DEF SoundConfig, Ids
    <2> QED
      BY <2>1, <2>2, <2>3, ConfigFields
  <1>2. CASE MenuAddConnection
    <2>1. PICK c \in Connections, tested \in BOOLEAN :
            LET kept == Without(config.conns, c.id)
            IN  /\ Len(kept) < MaxConns
                /\ BeginWrite([config EXCEPT !.conns = Append(kept, Entry(c, tested))], "menu")
      BY <1>2, Zenon DEF MenuAddConnection
    <2> DEFINE e == Entry(c, tested)
               kept == Without(config.conns, c.id)
               new == Configured(Append(kept, e), config.default, config.llm)
    <2>2. /\ pc = "menu" /\ kind = "menu" /\ job = Null /\ Loadable(config)
          /\ UNCHANGED <<checkpoint, kind, draft, job, todo>>
      BY <1>2 DEF MenuAddConnection, SetupInv, CommandOK, PackOK
    <2>3. e \in Entries /\ e.id = c.id
      BY EntryType
    <2> HIDE DEF e
    <2>4. /\ kept \in Seq(Entries)
          /\ config.default \in {kept[i].id : i \in DOMAIN kept} \cup {Null, e.id}
      <3>1. /\ kept \in Seq(Entries)
            /\ config.default = c.id \/ config.default = Null
               \/ \E j \in DOMAIN kept : kept[j].id = config.default
        BY <1>1, <2>2, SoundWithout
      <3> HIDE DEF kept
      <3> QED
        BY <2>3, <3>1
    <2>5. BeginWrite(new, "menu") /\ Len(kept) < MaxConns
      BY <1>1, <2>1, <2>2, ConfigFields DEF e
    <2> HIDE DEF kept
    <2>6. new \in Configs /\ SoundConfig(new)
      BY <1>1, <2>2, <2>3, <2>4, <2>5, SoundAppend
    <2> HIDE DEF new
    <2> QED
      BY <2>2, <2>5, <2>6, BeginWriteKeeps DEF Kinds
  <1>3. CASE MenuGenerate
    <2>1. /\ pc = "menu" /\ pc' = "generate" /\ job = Null
          /\ UNCHANGED <<config, checkpoint, kind, draft, writing, job>>
      BY <1>3 DEF MenuGenerate, SetupInv, PackOK
    <2> QED
      BY <1>0, <2>1, MoveKeeps DEF Stages, Steps
  <1>4. CASE MenuLlm
    <2>1. /\ pc = "menu" /\ kind = "menu" /\ job = Null /\ Loadable(config)
          /\ UNCHANGED <<checkpoint, kind, draft, job, todo>>
      BY <1>4 DEF MenuLlm, SetupInv, CommandOK, PackOK
    <2> DEFINE new == Configured(config.conns, config.default, TRUE)
    <2>2. BeginWrite(new, "menu")
      BY <1>1, <1>4, <2>1, ConfigFields DEF MenuLlm
    <2>3. config.default \in STRING \cup {Null} /\ TRUE \in BOOLEAN
      BY <1>1, <2>1, ConfigFields
    <2>4. new \in Configs /\ new.conns = config.conns /\ new.default = config.default
      BY <1>1, <2>1, <2>3, ConfiguredType
    <2> HIDE DEF new
    <2>5. SoundConfig(new)
      BY <1>1, <2>1, <2>4 DEF SoundConfig, Ids
    <2> QED
      BY <2>1, <2>2, <2>4, <2>5, BeginWriteKeeps DEF Kinds
  <1>5. CASE ConnectionAdd
    <2>1. PICK c \in Connections, default \in BOOLEAN :
            /\ Len(config.conns) < MaxConns
            /\ BeginWrite(Configured(Append(config.conns, Entry(c, FALSE)),
                                     IF default THEN c.id ELSE config.default, config.llm), "none")
      BY <1>5, Zenon DEF ConnectionAdd
    <2> DEFINE e == Entry(c, FALSE)
               first == IF default THEN c.id ELSE config.default
               new == Configured(Append(config.conns, e), first, config.llm)
    <2>2. /\ pc = "none" /\ kind = "none" /\ job = Null /\ Loadable(config)
          /\ UNCHANGED <<checkpoint, kind, draft, job, todo>>
      BY <1>5 DEF ConnectionAdd, SetupInv, CommandOK, PackOK
    <2>3. e \in Entries /\ e.id = c.id
      BY EntryType
    <2>4. BeginWrite(new, "none")
      BY <2>1
    <2> HIDE DEF e
    <2>5. first \in {config.conns[i].id : i \in DOMAIN config.conns} \cup {Null, e.id}
      BY <1>1, <2>2, <2>3
    <2> HIDE DEF first
    <2>6. new \in Configs /\ SoundConfig(new)
      BY <1>1, <2>1, <2>2, <2>3, <2>5, SoundAppend
    <2> HIDE DEF new
    <2> QED
      BY <2>2, <2>4, <2>6, BeginWriteKeeps DEF Kinds
  <1>6. CASE ConnectionRemove
    <2>1. PICK id \in Ids(config) : BeginWrite(AfterRemove(id), "none")
      BY <1>6 DEF ConnectionRemove
    <2> DEFINE kept == Without(config.conns, id)
               first == IF config.default = id THEN Null ELSE config.default
               new == Configured(kept, first, config.llm)
    <2>2. /\ pc = "none" /\ kind = "none" /\ job = Null /\ Loadable(config)
          /\ UNCHANGED <<checkpoint, kind, draft, job, todo>>
      BY <1>6 DEF ConnectionRemove, SetupInv, CommandOK, PackOK
    <2>3. BeginWrite(new, "none")
      BY <2>1 DEF AfterRemove
    <2>4. /\ kept \in Seq(Entries) /\ Len(kept) <= MaxConns
          /\ config.default = id \/ config.default = Null
             \/ \E j \in DOMAIN kept : kept[j].id = config.default
      BY <1>1, <2>2, SoundWithout
    <2> HIDE DEF kept
    <2>5. first \in {kept[j].id : j \in DOMAIN kept} \cup {Null}
      BY <2>4
    <2>6. first \in STRING \cup {Null}
      BY <1>1, <2>2, ConfigFields
    <2> HIDE DEF first
    <2>7. new \in Configs /\ new.conns = kept /\ new.default = first
      BY <1>1, <2>2, <2>4, <2>6, ConfiguredType
    <2> HIDE DEF new
    <2>8. SoundConfig(new)
      BY <2>4, <2>5, <2>7 DEF SoundConfig, Ids
    <2> QED
      BY <2>2, <2>3, <2>7, <2>8, BeginWriteKeeps DEF Kinds
  <1>7. CASE GenerateContracts
    <2>1. /\ pc = "contracts" /\ job = Null /\ writing = Null /\ todo = <<>>
          /\ UNCHANGED <<config, checkpoint, writing>>
      BY <1>7 DEF GenerateContracts, SetupInv, TypeOK, PackOK
    <2>2. CASE pc' = "generate" /\ UNCHANGED <<kind, job, draft>>
      BY <1>0, <2>1, <2>2, MoveKeeps DEF Stages, Steps
    <2>3. CASE UNCHANGED todo /\ EndTo(Back)
      BY <2>1, <2>3, BackIs, EndKeeps
    <2> QED
      BY <1>7, <2>2, <2>3 DEF GenerateContracts
  <1>8. CASE WriteContract
    <2>1. /\ pc = "generate" /\ job = Null
          /\ UNCHANGED <<config, checkpoint, pc, kind, draft, writing, job>>
      BY <1>8 DEF WriteContract, SetupInv, PackOK
    <2> QED
      BY <1>0, <2>1, MoveKeeps DEF Stages, Steps
  <1>9. CASE EndGenerate
    <2>1. /\ pc = "generate" /\ writing = Null /\ todo = <<>> /\ EndTo(Back)
          /\ UNCHANGED <<config, checkpoint, writing, todo>>
      BY <1>9 DEF EndGenerate, SetupInv, TypeOK
    <2> QED
      BY <2>1, BackIs, EndKeeps
  <1> QED
    BY <1>2, <1>3, <1>4, <1>5, <1>6, <1>7, <1>8, <1>9

LEMMA SetupStep == SetupInv /\ [Next]_vars => SetupInv'
  <1> SUFFICES ASSUME SetupInv, [Next]_vars PROVE SetupInv'
    OBVIOUS
  <1>1. CASE FinishWrite
    <2>1. /\ pc = "dumping" /\ writing \in Writes /\ writing' = Null
          /\ config' = writing.config /\ pc' = writing.then
          /\ UNCHANGED <<checkpoint, kind, draft, job, todo>>
      BY <1>1 DEF FinishWrite, SetupInv, TypeOK
    <2>2. writing.config \in Configs /\ SoundConfig(writing.config)
          /\ writing.then \in {"none", "menu", "clear", "pack_params"}
      BY <2>1, RecordsAreFiles DEF Writes, SetupInv, ConfigOK
    <2>3. todo = <<>>
      BY <2>1 DEF SetupInv, TypeOK
    <2>4. TypeOK'
      BY <2>1, <2>2, <2>3 DEF SetupInv, TypeOK, SoundConfig
    <2>5. CommandOK'
      BY <2>1, <2>2 DEF SetupInv, CommandOK, Stages, Steps
    <2>6. PackOK'
      <3>1. job # Null => writing.then \in {"clear", "pack_params"}
        BY <2>1 DEF SetupInv, PackOK
      <3> QED
        BY <2>1, <2>2, <3>1 DEF SetupInv, PackOK
    <2>7. ConfigOK'
      BY <2>1, <2>2 DEF SetupInv, ConfigOK, PromptedMeansTested
    <2>8. AnswersOK'
      BY <2>1, <2>2 DEF AnswersOK, Steps
    <2> QED
      BY <2>4, <2>5, <2>6, <2>7, <2>8 DEF SetupInv
  <1>2. CASE Interrupt
    <2>1. /\ EndTo("none") /\ UNCHANGED config /\ checkpoint' \in {checkpoint, Null, Torn}
          /\ writing' = Null /\ todo' = <<>>
      BY <1>2 DEF Interrupt
    <2> QED
      BY <2>1, EndKeeps
  <1>3. CASE HumanEdit
    <2>1. UNCHANGED <<config, checkpoint, pc, kind, draft, writing, job, todo>>
      BY <1>3 DEF HumanEdit
    <2> QED
      BY <2>1 DEF SetupInv, TypeOK, CommandOK, PackOK, ConfigOK, PromptedMeansTested, AnswersOK
  <1>4. CASE StartOver
    <2>1. /\ pc = "none" /\ config' = Null
          /\ UNCHANGED <<checkpoint, pc, kind, draft, writing, job, todo>>
      BY <1>4 DEF StartOver
    <2> QED
      BY <2>1, RecordsAreFiles
      DEF SetupInv, TypeOK, CommandOK, PackOK, ConfigOK, PromptedMeansTested, AnswersOK
  <1>5. CASE UNCHANGED vars
    BY <1>5 DEF vars, SetupInv, TypeOK, CommandOK, PackOK, ConfigOK, PromptedMeansTested, AnswersOK
  <1> QED
    BY <1>1, <1>2, <1>3, <1>4, <1>5, WizardKeeps, PackKeeps, CommandKeeps DEF Next

-----------------------------------------------------------------------------
(* Installs                                                                 *)

LEMMA InstalledStep == SetupInv /\ InstalledOK /\ [Next]_vars => InstalledOK'
  <1> SUFFICES ASSUME SetupInv, InstalledOK, [Next]_vars, pc' = "install"
               PROVE  /\ job'.written <= Len(job'.pack.files)
                      /\ \A i \in 1..job'.written :
                           LET target == PackTarget(job'.pack.files[i], job'.conn)
                           IN  /\ target \in job'.claimed /\ target \in DOMAIN files'
                               /\ files'[target].content = <<job'.pack.id, job'.pack.version, i>>
    BY Zenon DEF InstalledOK, PackTarget, Semantics
  <1>1. CASE InstallFile
    <2> DEFINE f == job.pack.files[job.written + 1]
               target == PackTarget(f, job.conn)
               id == job.pack.id
               version == job.pack.version
               file == Written("pack", Null, <<id, version, job.written + 1>>)
               at(i) == PackTarget(job.pack.files[i], job.conn)
    <2>1. /\ pc = "install" /\ job.written < Len(job.pack.files)
          /\ ~EndTo("none")
      BY <1>1 DEF InstallFile, EndTo
    <2>2. /\ f.name # Null /\ target \notin job.claimed
          /\ files' = With(target, file)
          /\ job' = [job EXCEPT !.written = @ + 1, !.claimed = @ \cup {target}]
      BY <1>1, <2>1 DEF InstallFile, Claimed
    <2>3. job \in Jobs /\ job.conn # Null
      BY <2>1, RecordsAreFiles DEF SetupInv, TypeOK
    <2>4. job.pack \in Packs /\ job.written \in Nat /\ job.conn \in STRING
      BY <2>3, JobFields
    <2>5. job.pack.files \in Seq(FileRecords) /\ Len(job.pack.files) \in Nat
      <3>1. job.pack.files \in Seq(FileRecords)
        BY <2>4, ProjectSetupAssumption DEF FileRecords
      <3> QED
        BY <3>1
    <2>6. f \in FileRecords
      BY <2>1, <2>4, <2>5
    <2>7. target \in Targets
      <3> HIDE DEF f
      <3> QED
        BY <2>2, <2>4, <2>6, PackTargetType
    <2>8. /\ job'.pack = job.pack /\ job'.conn = job.conn /\ job'.written = job.written + 1
          /\ job'.claimed = job.claimed \cup {target}
      <3> HIDE DEF target
      <3> QED
        BY <2>2, <2>3, <2>7, JobStep
    <2>9. job'.written <= Len(job'.pack.files)
      BY <2>1, <2>4, <2>5, <2>8
    <2>10. /\ DOMAIN files' = DOMAIN files \cup {target} /\ files'[target] = file
           /\ \A t \in DOMAIN files : t # target => files'[t] = files[t]
      <3> HIDE DEF target, file
      <3> QED
        BY <2>2 DEF With
    <2>11. file.content = <<id, version, job.written + 1>>
      BY DEF Written
    <2>12. ASSUME NEW i \in 1..job'.written
           PROVE  /\ at(i) \in job'.claimed /\ at(i) \in DOMAIN files'
                  /\ files'[at(i)].content = <<id, version, i>>
      <3>1. CASE i = job.written + 1
        <4>1. at(i) = target
          BY <3>1
        <4> HIDE DEF at, target, file, id, version
        <4> QED
          BY <2>8, <2>10, <2>11, <3>1, <4>1
      <3>2. CASE i # job.written + 1
        <4>1. i \in 1..job.written
          BY <2>4, <2>8, <3>2
        <4>2. at(i) \in job.claimed /\ at(i) \in DOMAIN files /\ files[at(i)].content = <<id, version, i>>
          BY <2>1, <4>1 DEF InstalledOK
        <4> HIDE DEF at, target, file, id, version
        <4>3. at(i) # target
          BY <2>2, <4>2 DEF target
        <4> QED
          BY <2>8, <2>10, <4>2, <4>3
      <3> QED
        BY <3>1, <3>2
    <2> QED
      BY <2>8, <2>9, <2>12
  <1>2. CASE PackParams
    <2>1. pc = "pack_params" /\ UNCHANGED job
      BY <1>2 DEF PackParams, EndTo, Back
    <2>2. job \in Jobs /\ job.written = 0 /\ job.pack \in Packs
      BY <2>1, JobFields DEF SetupInv, TypeOK, PackOK
    <2>3. Len(job.pack.files) \in Nat
      BY <2>2, ProjectSetupAssumption
    <2> QED
      BY <2>1, <2>2, <2>3
  <1>3. CASE UNCHANGED vars
    BY <1>3, Zenon DEF InstalledOK, vars, PackTarget, Semantics
  <1>4. CASE Wizard
    BY <1>4 DEF Wizard, Setup, NameStep, OfferPacks, ConnectionStep, LlmStep, SchemaStep, WriteConfig,
                MinimalSetup, ClearState, Bootstrap, SkipStep, Answer, BeginWrite, EndTo
  <1>5. CASE FinishWrite
    <2>1. writing \in Writes /\ pc' = writing.then
      BY <1>5 DEF FinishWrite, SetupInv, TypeOK
    <2> QED
      BY <2>1 DEF Writes
  <1>6. CASE GenerateContracts \/ WriteContract \/ EndGenerate \/ MenuGenerate
    BY <1>6 DEF GenerateContracts, WriteContract, EndGenerate, MenuGenerate, EndTo, Back
  <1>7. CASE PackConnection \/ EndInstall \/ PackAdd \/ MenuPack
    BY <1>7 DEF PackConnection, EndInstall, PackAdd, MenuPack, BeginWrite, EndTo, Back
  <1>8. CASE MenuAddConnection \/ MenuLlm \/ ConnectionAdd \/ ConnectionRemove
    BY <1>8 DEF MenuAddConnection, MenuLlm, ConnectionAdd, ConnectionRemove, BeginWrite
  <1>9. CASE Interrupt \/ HumanEdit \/ StartOver
    BY <1>9 DEF Interrupt, HumanEdit, StartOver, EndTo
  <1> QED
    BY <1>1, <1>2, <1>3, <1>4, <1>5, <1>6, <1>7, <1>8, <1>9 DEF Next

-----------------------------------------------------------------------------
(* Theorems                                                                 *)

\* After any sequence of commands, answers and interrupts the configuration has
\* its shape and a default that is one of its connections, and no connection that
\* came through a prompt was untested (setup.py, setup_state.py, connection.py).
THEOREM ConfigurationIsSound == Spec => []ConfigIsSound
  <1>1. SetupInv => ConfigIsSound
    <2> SUFFICES ASSUME SetupInv PROVE ConfigIsSound
      OBVIOUS
    <2>1. TypeOK /\ PromptedMeansTested
      BY DEF SetupInv, ConfigOK
    <2>2. DefaultIsConfigured
      BY DEF SetupInv, ConfigOK, TypeOK, SoundConfig, IsFile, DefaultIsConfigured
    <2> QED
      BY <2>1, <2>2 DEF ConfigIsSound
  <1> QED
    BY <1>1, SetupInit, SetupStep, PTL DEF Spec

\* When an install is through, every file of the pack stands in the project as
\* this version wrote it, whatever an interrupted install, another version or a
\* hand edit had left there (packs/install.py: install_pack, _claim).
THEOREM InstallsAreWhole == Spec => []InstallIsWhole
  <1>1. Init => InstalledOK
    BY DEF Init, InstalledOK
  <1>2. SetupInv /\ InstalledOK => InstallIsWhole
    <2> SUFFICES ASSUME SetupInv, InstalledOK, pc = "install", job.written = Len(job.pack.files),
                        NEW i \in DOMAIN job.pack.files
                 PROVE  LET target == PackTarget(job.pack.files[i], job.conn)
                        IN  /\ target \in DOMAIN files
                            /\ files[target].content = <<job.pack.id, job.pack.version, i>>
      BY DEF InstallIsWhole
    <2>1. job \in Jobs /\ job.pack \in Packs
      BY JobFields, RecordsAreFiles DEF SetupInv, TypeOK
    <2>2. job.pack.files \in Seq(FileRecords)
      BY <2>1, ProjectSetupAssumption DEF FileRecords
    <2>3. i \in 1..job.written
      BY <2>2
    <2> QED
      BY <2>3 DEF InstalledOK
  <1> QED
    BY <1>1, <1>2, SetupInit, SetupStep, InstalledStep, PTL DEF Spec

\* The wizard drops its checkpoint after the configuration was written out.
ClearOK == pc = "clear" => IsFile(config)

LEMMA ClearStep == SetupInv /\ ClearOK /\ [Next]_vars => ClearOK'
  <1> SUFFICES ASSUME SetupInv, ClearOK, [Next]_vars, pc' = "clear" PROVE IsFile(config')
    BY DEF ClearOK
  <1>1. CASE FinishWrite
    <2>1. config' = writing.config /\ writing \in Writes
      BY <1>1 DEF FinishWrite, SetupInv, TypeOK
    <2>2. writing.config \in Configs
      BY <2>1 DEF Writes
    <2> QED
      BY <2>1, <2>2, RecordsAreFiles
  <1>2. CASE UNCHANGED vars
    BY <1>2 DEF vars, ClearOK
  <1>3. CASE Next /\ ~FinishWrite
    BY <1>3 DEF Next, Wizard, Setup, NameStep, OfferPacks, ConnectionStep, LlmStep, SchemaStep,
         SkipStep, Answer, WriteConfig, MinimalSetup, BeginWrite, ClearState, EndTo, Back, Bootstrap,
         GenerateContracts, WriteContract, EndGenerate, PackConnection, PackParams, InstallFile,
         EndInstall, PackAdd, MenuAddConnection, MenuGenerate, MenuLlm, MenuPack, ConnectionAdd,
         ConnectionRemove, Interrupt, HumanEdit, StartOver
  <1> QED
    BY <1>1, <1>2, <1>3

\* Generating contracts replaces no file, the checkpoint is dropped only when the
\* configuration stands, and an answer that was saved is kept
\* through interrupts and new runs of the wizard until the project is written or
\* the checkpoint is lost (bootstrap.py: write_inferred_contracts; setup_state.py).
THEOREM WorkIsKept == Spec => WorkSurvives
  <1>1. [Next]_vars => [pc = "generate" => \A t \in DOMAIN files : t \in DOMAIN files' /\ files'[t] = files[t]]_vars
    <2> SUFFICES ASSUME [Next]_vars, pc = "generate", NEW t \in DOMAIN files
                 PROVE  t \in DOMAIN files' /\ files'[t] = files[t]
      OBVIOUS
    <2>1. CASE WriteContract
      <3> DEFINE p == Head(todo)
                 target == ContractTarget(p)
      <3>1. files' = IF target = Null THEN files ELSE With(target, Written("inferred", p.source, Null))
        BY <2>1 DEF WriteContract
      <3>2. target = Null \/ target \notin DOMAIN files
        BY DEF ContractTarget
      <3> HIDE DEF target
      <3> QED
        BY <3>1, <3>2 DEF With
    <2>2. CASE UNCHANGED files
      BY <2>2
    <2>3. CASE Wizard
      BY <2>3 DEF Wizard, Setup, NameStep, OfferPacks, ConnectionStep, LlmStep, SchemaStep, WriteConfig,
                  MinimalSetup, ClearState, Bootstrap
    <2> QED
      BY <2>1, <2>2, <2>3 DEF Next, vars, FinishWrite, GenerateContracts, EndGenerate, PackConnection,
          PackParams, InstallFile, EndInstall, PackAdd, MenuAddConnection, MenuGenerate, MenuLlm,
          MenuPack, ConnectionAdd, ConnectionRemove, Interrupt, HumanEdit, StartOver
  <1>2. SetupInv /\ [Next]_vars =>
          [(IsFile(checkpoint) /\ IsFile(checkpoint')) =>
             /\ checkpoint.steps \subseteq checkpoint'.steps
             /\ "connection" \in checkpoint.steps => checkpoint'.conn = checkpoint.conn
             /\ "llm" \in checkpoint.steps => checkpoint'.llm = checkpoint.llm]_vars
    <2> SUFFICES ASSUME SetupInv, Next, IsFile(checkpoint), IsFile(checkpoint'), checkpoint' # checkpoint
                 PROVE  /\ checkpoint.steps \subseteq checkpoint'.steps
                        /\ "connection" \in checkpoint.steps => checkpoint'.conn = checkpoint.conn
                        /\ "llm" \in checkpoint.steps => checkpoint'.llm = checkpoint.llm
      BY DEF vars
    <2>1. draft \in States /\ (pc \in Steps => Agree(checkpoint, draft))
      BY DEF SetupInv, TypeOK, AnswersOK
    <2>2. ASSUME pc \in Steps, NEW answered \in States, answered.steps = draft.steps,
                 NEW step, checkpoint' = [answered EXCEPT !.steps = @ \cup {step}]
          PROVE  /\ checkpoint.steps \subseteq checkpoint'.steps
                 /\ checkpoint'.conn = answered.conn /\ checkpoint'.llm = answered.llm
      BY <2>1, <2>2 DEF States, Agree
    <2>3. ~(checkpoint' = Null) /\ ~(checkpoint' = Torn)
      BY DEF IsFile
    <2>4. CASE NameStep
      BY <2>1, <2>2, <2>4 DEF NameStep, SkipStep, Answer, Steps, Agree
    <2>5. CASE ConnectionStep
      <3>1. CASE Answer("connection", draft, "llm")
        BY <2>1, <2>2, <2>5, <3>1 DEF ConnectionStep, Answer, Steps, Agree
      <3>2. ASSUME NEW e, Answer("connection", [draft EXCEPT !.conn = e], "llm"), e \in Entries
            PROVE  /\ checkpoint.steps \subseteq checkpoint'.steps
                   /\ "connection" \in checkpoint.steps => checkpoint'.conn = checkpoint.conn
                   /\ "llm" \in checkpoint.steps => checkpoint'.llm = checkpoint.llm
        <4> DEFINE answered == [draft EXCEPT !.conn = e]
        <4>1. answered \in States /\ answered.steps = draft.steps /\ answered.llm = draft.llm
          BY <2>1, <3>2 DEF States
        <4>2. "connection" \notin draft.steps /\ checkpoint' = [answered EXCEPT !.steps = @ \cup {"connection"}]
          BY <3>2 DEF Answer
        <4>3. pc \in Steps
          BY <2>5 DEF ConnectionStep, Steps
        <4> HIDE DEF answered
        <4> QED
          BY <2>1, <2>2, <4>1, <4>2, <4>3 DEF Agree
      <3> QED
        BY <2>5, <3>1, <3>2, EntryType DEF ConnectionStep, SkipStep
    <2>6. CASE LlmStep
      <3>1. ASSUME NEW llm \in BOOLEAN, Answer("llm", [draft EXCEPT !.llm = llm], "schema")
            PROVE  /\ checkpoint.steps \subseteq checkpoint'.steps
                   /\ "connection" \in checkpoint.steps => checkpoint'.conn = checkpoint.conn
                   /\ "llm" \in checkpoint.steps => checkpoint'.llm = checkpoint.llm
        <4> DEFINE answered == [draft EXCEPT !.llm = llm]
        <4>1. answered \in States /\ answered.steps = draft.steps /\ answered.conn = draft.conn
          BY <2>1 DEF States
        <4>2. "llm" \notin draft.steps /\ checkpoint' = [answered EXCEPT !.steps = @ \cup {"llm"}]
          BY <3>1 DEF Answer
        <4>3. pc \in Steps
          BY <2>6 DEF LlmStep, Steps
        <4> HIDE DEF answered
        <4> QED
          BY <2>1, <2>2, <4>1, <4>2, <4>3 DEF Agree
      <3> QED
        BY <2>6, <3>1 DEF LlmStep, SkipStep
    <2>7. CASE SchemaStep
      BY <2>1, <2>2, <2>7 DEF SchemaStep, SkipStep, Answer, Steps, Agree
    <2>8. CASE ClearState \/ Interrupt
      BY <2>3, <2>8 DEF ClearState, Interrupt
    <2> QED
      BY <2>4, <2>5, <2>6, <2>7, <2>8
      DEF Next, Wizard, Setup, OfferPacks, WriteConfig, MinimalSetup, Bootstrap, FinishWrite,
          GenerateContracts, WriteContract, EndGenerate, PackConnection, PackParams, InstallFile,
          EndInstall, PackAdd, MenuAddConnection, MenuGenerate, MenuLlm, MenuPack, ConnectionAdd,
          ConnectionRemove, HumanEdit, StartOver
  <1>3. SetupInv /\ SetupInv' /\ ClearOK /\ [Next]_vars =>
          [(checkpoint # Null /\ checkpoint' = Null) => IsFile(config)]_vars
    <2> SUFFICES ASSUME SetupInv', ClearOK, Next, checkpoint # Null, checkpoint' = Null PROVE IsFile(config)
      BY DEF vars
    <2>1. checkpoint' # draft' /\ checkpoint' # checkpoint /\ checkpoint' # Torn
      BY RecordsAreFiles DEF SetupInv, TypeOK
    <2>2. CASE ClearState
      BY <2>2 DEF ClearState, ClearOK
    <2>3. CASE Interrupt
      BY <2>1, <2>3 DEF Interrupt
    <2>4. CASE NameStep \/ ConnectionStep \/ LlmStep \/ SchemaStep
      BY <2>1, <2>4 DEF NameStep, ConnectionStep, LlmStep, SchemaStep, SkipStep, Answer
    <2>5. CASE Setup \/ OfferPacks \/ WriteConfig \/ MinimalSetup \/ Bootstrap
      BY <2>1, <2>5 DEF Setup, OfferPacks, WriteConfig, MinimalSetup, Bootstrap
    <2> QED
      BY <2>1, <2>2, <2>3, <2>4, <2>5 DEF Next, Wizard, FinishWrite, GenerateContracts, WriteContract,
          EndGenerate, PackConnection, PackParams, InstallFile, EndInstall, PackAdd, MenuAddConnection,
          MenuGenerate, MenuLlm, MenuPack, ConnectionAdd, ConnectionRemove, HumanEdit, StartOver
  <1>4. Init => ClearOK
    BY DEF Init, ClearOK
  <1> QED
    BY <1>1, <1>2, <1>3, <1>4, SetupInit, SetupStep, ClearStep, PTL
    DEF Spec, WorkSurvives, GenerateOnlyAdds, DumpedBeforeCleared, AnswersSurvive
==============================================================================
