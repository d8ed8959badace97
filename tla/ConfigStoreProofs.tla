-------------------------- MODULE ConfigStoreProofs --------------------------
(***************************************************************************)
(* The invariants of ConfigStore for any number of processes, any names    *)
(* and any faults.                                                         *)
(***************************************************************************)
EXTENDS ConfigStore, HostConfigProofs

-----------------------------------------------------------------------------
(* The inductive invariant.                                                *)

\* A configuration nothing was freed from.  The default is only claimed where
\* no host has the empty name, which is printed but not parsed.
Good(c) ==
    /\ NamesUnique(c)
    /\ Intact(c)
    /\ EmptyName \notin Names => WellFormed(c)

\* The slot a successful addition has filled.
LastIsHost(c) == Len(c.hosts) > 0 /\ c.hosts[Len(c.hosts)] \in Host

FileInv == file \in Config => Good(file)

\* The copy may point to a freed host only on the way out, or to the list that
\* will trip over it; what is being saved never does.
CopyInv(p) ==
    mem[p] \in Config =>
        /\ NamesUnique(mem[p])
        /\ Intact(mem[p]) => Good(mem[p])
        /\ pc[p] \notin {"list", "done", "segv"} => Intact(mem[p])

SaveInv(p) ==
    /\ buf[p] \in Config => Good(buf[p])
    /\ pc[p] \in {"save", "open"} => buf[p] \in Config
    /\ pc[p] \in {"save", "open"} <=> op[p] # "none"
    /\ op[p] = "add" => /\ LastIsHost(buf[p])
                        /\ mem[p] \in Config => mem[p] = buf[p]
    /\ pc[p] = "ask" => mem[p] \in Config /\ LastIsHost(mem[p])

IInv == TypeOK /\ FileInv /\ \A p \in Procs : CopyInv(p) /\ SaveInv(p)

-----------------------------------------------------------------------------
(* Loading and the operations.                                             *)

\* What config_load returns, wherever a process may call it from to change it.
LEMMA LoadedIsGood ==
    ASSUME IInv, NEW p \in Procs
    PROVE  /\ ReadFile \in Config \union {NoConfig}
           /\ ReadFile \in Config => Good(ReadFile)
           /\ Loaded(p) \in Config \union {NoConfig}
           /\ Loaded(p) \in Config => NamesUnique(Loaded(p))
           /\ Loaded(p) \in Config /\ Intact(Loaded(p)) => Good(Loaded(p))
           /\ pc[p] \notin {"list", "done", "segv"} =>
                 /\ Loaded(p) \in Config => Good(Loaded(p))
                 /\ LoadedOrFresh(p) \in Config /\ Good(LoadedOrFresh(p))
<1>1. file \in Config => ParseConfig(file) \in Config /\ Good(ParseConfig(file))
  BY ParseConfigProperties DEF IInv, FileInv, Good
<1>2. /\ ReadFile \in Config \union {NoConfig}
      /\ ReadFile \in Config => Good(ReadFile)
  BY <1>1, StoreAssumption DEF ReadFile
<1>3. mem[p] \in Config \union {NoConfig} /\ CopyInv(p)
  BY DEF IInv, TypeOK
<1>4. FreshConfig \in Config /\ Good(FreshConfig)
  BY FreshConfigProperties, SentinelsAreDistinct DEF Good, Intact, FreshConfig
<1>5. Good(ReadFile) => NamesUnique(ReadFile)
  BY DEF Good
<1>6. /\ Loaded(p) \in Config \union {NoConfig}
      /\ Loaded(p) \in Config => NamesUnique(Loaded(p))
      /\ Loaded(p) \in Config /\ Intact(Loaded(p)) => Good(Loaded(p))
      /\ pc[p] \notin {"list", "done", "segv"} =>
            (Loaded(p) \in Config => Good(Loaded(p)))
  BY <1>2, <1>3, <1>5, StoreAssumption DEF Loaded, CopyInv
<1> QED  BY <1>2, <1>4, <1>6, StoreAssumption DEF LoadedOrFresh

\* A step of p that leaves the file alone and keeps p's own invariants.
LEMMA LocalStep ==
    ASSUME IInv, NEW p \in Procs, TypeOK', CopyInv(p)', SaveInv(p)',
           file' = file,
           \A q \in Procs \ {p} : /\ mem'[q] = mem[q] /\ buf'[q] = buf[q]
                                  /\ pc'[q] = pc[q] /\ op'[q] = op[q]
    PROVE  IInv'
<1>1. FileInv'
  BY DEF IInv, FileInv
<1>2. \A q \in Procs \ {p} : CopyInv(q)' /\ SaveInv(q)'
  BY DEF IInv, CopyInv, SaveInv
<1> QED  BY <1>1, <1>2 DEF IInv

LEMMA ChangeAndSaveKeeps ==
    ASSUME IInv, NEW p \in Procs, NEW c \in Config, NEW kind \in {"add", "change"},
           Good(c), kind = "add" => LastIsHost(c),
           pc[p] \in {"ready", "menu", "setup", "ask"},
           ChangeAndSave(p, c, kind), promised' \subseteq Names
    PROVE  IInv'
<1> USE DEF IInv, ChangeAndSave, BeginSave
<1>1. TypeOK'
  BY DEF TypeOK, Steps
<1>2. /\ pc'[p] = "save" /\ buf'[p] = c /\ op'[p] = kind
      /\ mem'[p] \in {c, NoConfig}
  BY DEF TypeOK
<1>3. CopyInv(p)'
  BY <1>2, StoreAssumption DEF CopyInv, Good
<1>4. SaveInv(p)'
  BY <1>2, StoreAssumption DEF SaveInv
<1>5. \A q \in Procs \ {p} : /\ mem'[q] = mem[q] /\ buf'[q] = buf[q]
                             /\ pc'[q] = pc[q] /\ op'[q] = op[q]
  BY DEF TypeOK
<1> QED  BY <1>1, <1>3, <1>4, <1>5, LocalStep

LEMMA RefuseKeeps ==
    ASSUME IInv, NEW p \in Procs, pc[p] \in {"ready", "menu", "setup"}, Refuse(p)
    PROVE  IInv'
<1> USE DEF IInv, Refuse, Report, AfterOp
<1>1. /\ Loaded(p) \in Config \union {NoConfig}
      /\ Loaded(p) \in Config => Good(Loaded(p))
  BY LoadedIsGood
<1>2. TypeOK'
  BY <1>1 DEF TypeOK, Steps
<1>3. /\ pc'[p] \in {"list", "done"} /\ buf'[p] = buf[p] /\ op'[p] = op[p]
      /\ mem'[p] = Loaded(p)
  BY DEF TypeOK
<1>4. CopyInv(p)'
  BY <1>1, <1>3 DEF CopyInv, Good
<1>5. SaveInv(p)'
  BY <1>3 DEF SaveInv
<1>6. \A q \in Procs \ {p} : /\ mem'[q] = mem[q] /\ buf'[q] = buf[q]
                             /\ pc'[q] = pc[q] /\ op'[q] = op[q]
  BY DEF TypeOK
<1> QED  BY <1>2, <1>4, <1>5, <1>6, LocalStep

LEMMA ChangeKeeps ==
    ASSUME IInv, NEW p \in Procs, Change(p)
    PROVE  IInv'
<1> DEFINE c == LoadedOrFresh(p)
<1>1. pc[p] \in {"ready", "menu", "setup"} =>
          /\ c \in Config /\ NamesUnique(c) /\ Intact(c) /\ Good(c)
          /\ Loaded(p) # NoConfig => Loaded(p) = c
  BY LoadedIsGood DEF Good, LoadedOrFresh
<1>2. promised \subseteq Names
  BY DEF IInv, TypeOK
<1>3. CASE WizardSave(p)
  <2> USE DEF WizardSave, BeginSave, IInv
  <2>1. FreshConfig \in Config /\ Good(FreshConfig)
    BY FreshConfigProperties, SentinelsAreDistinct DEF Good, Intact, FreshConfig
  <2>2. TypeOK'
    BY <1>3, <2>1 DEF TypeOK, Steps
  <2>3. /\ pc'[p] = "save" /\ buf'[p] = FreshConfig /\ op'[p] = "wizard"
        /\ mem'[p] = mem[p] /\ file' = file
    BY <1>3 DEF TypeOK
  <2>4. CopyInv(p)'
    BY <1>3, <2>3 DEF CopyInv
  <2>5. SaveInv(p)'
    BY <2>1, <2>3 DEF SaveInv
  <2>6. \A q \in Procs \ {p} : /\ mem'[q] = mem[q] /\ buf'[q] = buf[q]
                               /\ pc'[q] = pc[q] /\ op'[q] = op[q]
    BY <1>3 DEF TypeOK
  <2> QED  BY <2>2, <2>3, <2>4, <2>5, <2>6, LocalStep
<1>4. ASSUME NEW n \in Names, NEW v \in Values, HostAdd(p, n, v)
      PROVE  IInv'
  <2> DEFINE h == [name |-> n, endpoint |-> v]
             d == AddHost(c, h)
  <2>1. pc[p] \in {"ready", "menu", "setup"}
    BY <1>4 DEF HostAdd, Accepts
  <2>2. CASE n \in NamesOf(c)
    BY <1>4, <2>1, <2>2, RefuseKeeps DEF HostAdd
  <2>3. CASE n \notin NamesOf(c)
    <3>1. h \in Host /\ h.name = n
      BY DEF Host
    <3>2. /\ d \in Config /\ Len(d.hosts) = Len(c.hosts) + 1
          /\ Intact(c) => Intact(d)
          /\ WellFormed(c) => WellFormed(d)
          /\ NamesUnique(c) => NamesUnique(d)
      BY <1>1, <2>1, <2>3, <3>1, AddHostProperties
    <3>3. d \in Config /\ Good(d)
      BY <1>1, <2>1, <3>2 DEF Good
    <3>4. LastIsHost(d)
      <4>1. c.hosts \in Seq(Slot) /\ h \in Slot
        BY <1>1, <2>1, <3>1 DEF Config, Slot
      <4>2. d.hosts = Append(c.hosts, h)
        BY <1>1, <2>1 DEF AddHost, Config
      <4>3. d.hosts[Len(c.hosts) + 1] = h /\ Len(c.hosts) \in Nat
        BY <4>1, <4>2, AppendProperties
      <4> QED  BY <3>1, <3>2, <4>3 DEF LastIsHost
    <3>5. ChangeAndSave(p, d, "add") /\ promised' = promised
      BY <1>4, <2>3 DEF HostAdd
    <3> QED  BY <1>2, <2>1, <3>3, <3>4, <3>5, ChangeAndSaveKeeps
  <2> QED  BY <2>2, <2>3
<1>5. ASSUME NEW n \in Names, HostRemove(p, n)
      PROVE  IInv'
  <2>1. pc[p] \in {"ready", "menu", "setup"}
    BY <1>5 DEF HostRemove, Accepts
  <2>2. CASE Loaded(p) = NoConfig \/ n \notin NamesOf(c)
    BY <1>5, <2>1, <2>2, RefuseKeeps DEF HostRemove
  <2>3. CASE Loaded(p) # NoConfig /\ n \in NamesOf(c)
    <3>1. RemoveHost(c, n) \in Config /\ Good(RemoveHost(c, n))
      BY <1>1, <2>1, <2>3, RemoveHostProperties DEF Good
    <3>2. ChangeAndSave(p, RemoveHost(c, n), "change") /\ promised' \subseteq Names
      BY <1>1, <1>2, <1>5, <2>1, <2>3 DEF HostRemove
    <3> QED  BY <2>1, <3>1, <3>2, ChangeAndSaveKeeps
  <2> QED  BY <2>2, <2>3
<1>6. ASSUME NEW n \in Names, HostSetDefault(p, n)
      PROVE  IInv'
  <2>1. pc[p] \in {"ready", "menu", "setup"}
    BY <1>6 DEF HostSetDefault, Accepts
  <2>2. CASE n \notin NamesOf(c)
    BY <1>6, <2>1, <2>2, RefuseKeeps DEF HostSetDefault
  <2>3. CASE n \in NamesOf(c)
    <3>1. SetDefaultHost(c, n) \in Config /\ Good(SetDefaultHost(c, n))
      BY <1>1, <2>1, <2>3, SetDefaultHostProperties DEF Good
    <3>2. ChangeAndSave(p, SetDefaultHost(c, n), "change") /\ promised' = promised
      BY <1>6, <2>3 DEF HostSetDefault
    <3> QED  BY <1>2, <2>1, <3>1, <3>2, ChangeAndSaveKeeps
  <2> QED  BY <2>2, <2>3
<1>7. ASSUME NEW n \in Names, NEW v \in Values, HostEdit(p, n, v)
      PROVE  IInv'
  <2>1. pc[p] \in {"ready", "menu", "setup"}
    BY <1>7 DEF HostEdit, Accepts
  <2>2. CASE n \notin NamesOf(c)
    BY <1>7, <2>1, <2>2, RefuseKeeps DEF HostEdit
  <2>3. CASE n \in NamesOf(c)
    <3>1. SetEndpoint(c, n, v) \in Config /\ Good(SetEndpoint(c, n, v))
      BY <1>1, <2>1, <2>3, SetEndpointProperties DEF Good
    <3>2. ChangeAndSave(p, SetEndpoint(c, n, v), "change") /\ promised' = promised
      BY <1>7, <2>3 DEF HostEdit
    <3> QED  BY <1>2, <2>1, <3>1, <3>2, ChangeAndSaveKeeps
  <2> QED  BY <2>2, <2>3
<1>8. ASSUME NEW v \in Levels, SetLogLevel(p, v)
      PROVE  IInv'
  <2>1. pc[p] \in {"ready", "menu", "setup"}
    BY <1>8 DEF SetLogLevel, Accepts
  <2>2. SetLevel(c, v) \in Config /\ Good(SetLevel(c, v))
    BY <1>1, <2>1, SetScalarProperties DEF Good
  <2>3. ChangeAndSave(p, SetLevel(c, v), "change") /\ promised' = promised
    BY <1>8 DEF SetLogLevel
  <2> QED  BY <1>2, <2>1, <2>2, <2>3, ChangeAndSaveKeeps
<1>9. ASSUME NEW v \in BOOLEAN, SetCopyToClipboard(p, v)
      PROVE  IInv'
  <2>1. pc[p] \in {"ready", "menu", "setup"}
    BY <1>9 DEF SetCopyToClipboard
  <2>2. CASE v = c.copy_to_clipboard
    BY <1>9, <2>1, <2>2, RefuseKeeps DEF SetCopyToClipboard
  <2>3. CASE v # c.copy_to_clipboard
    <3>1. SetClipboard(c, v) \in Config /\ Good(SetClipboard(c, v))
      BY <1>1, <2>1, SentinelsAreDistinct, SetScalarProperties DEF Good
    <3>2. ChangeAndSave(p, SetClipboard(c, v), "change") /\ promised' = promised
      BY <1>9, <2>3 DEF SetCopyToClipboard
    <3> QED  BY <1>2, <2>1, <3>1, <3>2, ChangeAndSaveKeeps
  <2> QED  BY <2>2, <2>3
<1>10. CASE AnswerYes(p)
  <2> DEFINE m == mem[p]
             n == m.hosts[Len(m.hosts)].name
  <2>1. pc[p] = "ask" /\ m \in Config /\ LastIsHost(m) /\ Good(m)
    BY <1>10 DEF AnswerYes, IInv, CopyInv, SaveInv
  <2>2. n \in NamesOf(m)
    <3>1. Len(m.hosts) \in Nat /\ DOMAIN m.hosts = 1 .. Len(m.hosts)
      BY <2>1, ConfigFields
    <3>2. Len(m.hosts) \in Filled(m)
      BY <2>1, <3>1 DEF LastIsHost, Filled
    <3> QED  BY <3>2 DEF NamesOf
  <2>3. SetDefaultHost(m, n) \in Config /\ Good(SetDefaultHost(m, n))
    BY <2>1, <2>2, SetDefaultHostProperties DEF Good
  <2>4. ChangeAndSave(p, SetDefaultHost(m, n), "change") /\ promised' = promised
    BY <1>10 DEF AnswerYes
  <2> QED  BY <1>2, <2>1, <2>3, <2>4, ChangeAndSaveKeeps
<1>11. CASE AnswerNo(p)
  <2> USE DEF IInv, AnswerNo, AfterOp, local
  <2>1. TypeOK'
    BY <1>11 DEF TypeOK, Steps
  <2>2. pc'[p] \in {"list", "done"} /\ pc[p] = "ask"
    BY <1>11 DEF TypeOK
  <2>3. CopyInv(p)' /\ SaveInv(p)'
    BY <1>11, <2>2 DEF CopyInv, SaveInv
  <2>4. \A q \in Procs \ {p} : /\ mem'[q] = mem[q] /\ buf'[q] = buf[q]
                               /\ pc'[q] = pc[q] /\ op'[q] = op[q]
    BY <1>11 DEF TypeOK
  <2> QED  BY <1>11, <2>1, <2>3, <2>4, LocalStep
<1>12. ASSUME SetInvalid(p)
       PROVE  IInv'
  BY <1>12, RefuseKeeps DEF SetInvalid, Accepts
<1> QED  BY <1>3, <1>4, <1>5, <1>6, <1>7, <1>8, <1>9, <1>10, <1>11, <1>12 DEF Change

-----------------------------------------------------------------------------
(* config_save.                                                            *)

\* What is written is as good as what was saved.
LEMMA WrittenIsGood ==
    ASSUME NEW c \in Config, Good(c)
    PROVE  ConfigToJson(c) \in Config /\ Good(ConfigToJson(c))
<1>1. /\ ConfigToJson(c) \in Config /\ Listable(ConfigToJson(c))
      /\ NamesUnique(ConfigToJson(c))
      /\ WellFormed(c) => WellFormed(ConfigToJson(c))
  BY ConfigToJsonProperties DEF Good
<1>2. Intact(ConfigToJson(c))
  BY <1>1, SentinelsAreDistinct DEF Intact, Listable
<1> QED  BY <1>1, <1>2 DEF Good

\* A step of p that may write the file and keeps p's own invariants.
LEMMA FileStep ==
    ASSUME IInv, NEW p \in Procs, TypeOK', FileInv', CopyInv(p)', SaveInv(p)',
           \A q \in Procs \ {p} : /\ mem'[q] = mem[q] /\ buf'[q] = buf[q]
                                  /\ pc'[q] = pc[q] /\ op'[q] = op[q]
    PROVE  IInv'
<1>1. \A q \in Procs \ {p} : CopyInv(q)' /\ SaveInv(q)'
  BY DEF IInv, CopyInv, SaveInv
<1> QED  BY <1>1 DEF IInv

LEMMA SavedKeeps ==
    ASSUME IInv, NEW p \in Procs, pc[p] = "open", Saved(p),
           file' \in Config \union {Absent, Torn}, FileInv', spoiled' \in BOOLEAN
    PROVE  IInv'
<1>1. /\ buf[p] \in Config /\ Good(buf[p]) /\ op[p] \in {"wizard", "add", "change"}
      /\ op[p] = "add" => LastIsHost(buf[p])
  BY DEF IInv, SaveInv, TypeOK
<1>2. op[p] = "add" => buf[p].hosts[Len(buf[p].hosts)].name \in Names
  BY <1>1 DEF LastIsHost, Host
<1> USE DEF Saved, AfterOp
<1>3. TypeOK'
  <2>1. promised' \subseteq Names
    BY <1>2 DEF IInv, TypeOK
  <2>2. pc' \in [Procs -> Steps] /\ result' \in [Procs -> {"none", "ok", "failed"}]
    BY DEF IInv, TypeOK, Steps
  <2>3. /\ mem' \in [Procs -> Config \union {NoConfig}]
        /\ buf' \in [Procs -> Config \union {NoConfig}]
    BY <1>1 DEF IInv, TypeOK
  <2>4. /\ op' \in [Procs -> {"none", "wizard", "add", "change"}]
        /\ mode' \in [Procs -> {"command", "editor"}]
    BY DEF IInv, TypeOK
  <2> QED  BY <2>1, <2>2, <2>3, <2>4 DEF TypeOK
<1>4. /\ mem'[p] \in {buf[p], NoConfig} /\ buf'[p] = NoConfig /\ op'[p] = "none"
      /\ pc'[p] \in {"setup", "ask", "list", "done"}
      /\ pc'[p] = "ask" => op[p] = "add" /\ mem'[p] = buf[p]
  BY DEF IInv, TypeOK
<1>5. CopyInv(p)'
  BY <1>1, <1>4, StoreAssumption DEF CopyInv, Good
<1>6. SaveInv(p)'
  BY <1>1, <1>4, StoreAssumption DEF SaveInv
<1>7. \A q \in Procs \ {p} : /\ mem'[q] = mem[q] /\ buf'[q] = buf[q]
                             /\ pc'[q] = pc[q] /\ op'[q] = op[q]
  BY DEF IInv, TypeOK
<1> QED  BY <1>3, <1>5, <1>6, <1>7, FileStep

LEMMA NotSavedKeeps ==
    ASSUME IInv, NEW p \in Procs, pc[p] \in {"save", "open"}, NotSaved(p),
           file' \in Config \union {Absent, Torn}, FileInv', spoiled' \in BOOLEAN
    PROVE  IInv'
<1>1. /\ mem[p] \in Config \union {NoConfig}
      /\ mem[p] \in Config => NamesUnique(mem[p]) /\ Intact(mem[p]) /\ Good(mem[p])
      /\ op[p] = "add" /\ mem[p] \in Config => Len(mem[p].hosts) > 0
  BY DEF IInv, TypeOK, CopyInv, SaveInv, LastIsHost
<1>2. ASSUME op[p] = "add", mem[p] \in Config
      PROVE  /\ FreeLastHost(mem[p]) \in Config
             /\ NamesUnique(FreeLastHost(mem[p]))
             /\ ~Intact(FreeLastHost(mem[p]))
  BY <1>1, <1>2, FreeLastHostProperties
<1> USE DEF NotSaved, Report, AfterOp
<1>3. mem' = [mem EXCEPT ![p] = IF op[p] = "add" /\ mem[p] # NoConfig
                                THEN FreeLastHost(mem[p]) ELSE mem[p]]
  BY DEF IInv, TypeOK
<1>4. TypeOK'
  <2>1. mem' \in [Procs -> Config \union {NoConfig}]
    BY <1>1, <1>2, <1>3 DEF IInv, TypeOK
  <2> QED  BY <2>1 DEF IInv, TypeOK, Steps
<1>5. /\ buf'[p] = NoConfig /\ op'[p] = "none" /\ pc'[p] \in {"list", "done"}
      /\ \/ mem'[p] = mem[p]
         \/ /\ op[p] = "add" /\ mem[p] \in Config
            /\ mem'[p] = FreeLastHost(mem[p])
  BY <1>1, <1>3 DEF IInv, TypeOK
<1>6. CopyInv(p)'
  BY <1>1, <1>2, <1>5 DEF CopyInv
<1>7. SaveInv(p)'
  BY <1>5, StoreAssumption DEF SaveInv
<1>8. \A q \in Procs \ {p} : /\ mem'[q] = mem[q] /\ buf'[q] = buf[q]
                             /\ pc'[q] = pc[q] /\ op'[q] = op[q]
  BY DEF IInv, TypeOK
<1> QED  BY <1>4, <1>6, <1>7, <1>8, FileStep

LEMMA SaveKeeps ==
    ASSUME IInv, NEW p \in Procs, Save(p)
    PROVE  IInv'
<1>1. FileInv /\ file \in Config \union {Absent, Torn} /\ Torn \notin Config
  BY StoreAssumption DEF IInv, TypeOK
<1>2. file' \in {file, Torn} => FileInv' /\ file' \in Config \union {Absent, Torn}
  BY <1>1 DEF FileInv
<1>3. CASE OpenFile(p)
  <2> USE DEF OpenFile, local
  <2>1. TypeOK'
    BY <1>3 DEF IInv, TypeOK, Steps
  <2>2. pc'[p] = "open" /\ pc[p] = "save"
    BY <1>3 DEF IInv, TypeOK
  <2>3. CopyInv(p)' /\ SaveInv(p)'
    BY <1>3, <2>2 DEF IInv, CopyInv, SaveInv
  <2>4. \A q \in Procs \ {p} : /\ mem'[q] = mem[q] /\ buf'[q] = buf[q]
                               /\ pc'[q] = pc[q] /\ op'[q] = op[q]
    BY <1>3 DEF IInv, TypeOK
  <2> QED  BY <1>2, <1>3, <2>1, <2>3, <2>4, FileStep
<1>4. CASE WriteFile(p)
  <2>1. buf[p] \in Config /\ Good(buf[p]) /\ pc[p] = "open"
    BY <1>4 DEF WriteFile, IInv, SaveInv
  <2>2. file' \in Config /\ FileInv'
    BY <1>4, <2>1, WrittenIsGood DEF WriteFile, FileInv
  <2>3. spoiled' \in BOOLEAN
    BY <1>4 DEF WriteFile
  <2> QED  BY <1>4, <2>1, <2>2, <2>3, SavedKeeps DEF WriteFile
<1>5. CASE FlushLost(p)
  <2>1. spoiled' \in BOOLEAN
    BY <1>5 DEF FlushLost
  <2> QED  BY <1>2, <1>5, <2>1, SavedKeeps DEF FlushLost
<1>6. CASE OpenFails(p)
  <2>1. spoiled' \in BOOLEAN
    BY <1>6 DEF OpenFails, IInv, TypeOK
  <2> QED  BY <1>2, <1>6, <2>1, NotSavedKeeps DEF OpenFails
<1>7. CASE WriteFails(p)
  <2>1. spoiled' \in BOOLEAN
    BY <1>7 DEF WriteFails
  <2> QED  BY <1>2, <1>7, <2>1, NotSavedKeeps DEF WriteFails
<1> QED  BY <1>3, <1>4, <1>5, <1>6, <1>7 DEF Save

-----------------------------------------------------------------------------
(* The life of a process.                                                  *)

LEMMA GoneKeeps ==
    ASSUME IInv, NEW p \in Procs, Gone(p), spoiled' \in BOOLEAN
    PROVE  IInv'
<1> USE DEF Gone
<1>1. TypeOK'
  BY DEF IInv, TypeOK, Steps
<1>2. /\ mem'[p] = NoConfig /\ buf'[p] = NoConfig
      /\ pc'[p] = "off" /\ op'[p] = "none"
  BY DEF IInv, TypeOK
<1>3. CopyInv(p)' /\ SaveInv(p)'
  BY <1>2, StoreAssumption DEF CopyInv, SaveInv
<1>4. \A q \in Procs \ {p} : /\ mem'[q] = mem[q] /\ buf'[q] = buf[q]
                             /\ pc'[q] = pc[q] /\ op'[q] = op[q]
  BY DEF IInv, TypeOK
<1> QED  BY <1>1, <1>3, <1>4, LocalStep

LEMMA LifeKeeps ==
    ASSUME IInv, NEW p \in Procs, Life(p)
    PROVE  IInv'
<1>1. CASE Start(p)
  <2> USE DEF Start, local
  <2>1. ReadFile \in Config \union {NoConfig} /\ (ReadFile \in Config => Good(ReadFile))
    BY LoadedIsGood
  <2>2. TypeOK'
    BY <1>1, <2>1 DEF IInv, TypeOK, Steps
  <2>3. /\ mem'[p] = ReadFile /\ pc[p] = "off" /\ pc'[p] \in {"hung", "stat"}
        /\ buf'[p] = buf[p] /\ op'[p] = op[p]
    BY <1>1 DEF IInv, TypeOK
  <2>4. op[p] = "none"
    BY <2>3 DEF IInv, SaveInv
  <2>5. CopyInv(p)' /\ SaveInv(p)'
    BY <2>1, <2>3, <2>4 DEF IInv, CopyInv, SaveInv, Good
  <2>6. \A q \in Procs \ {p} : /\ mem'[q] = mem[q] /\ buf'[q] = buf[q]
                               /\ pc'[q] = pc[q] /\ op'[q] = op[q]
    BY <1>1 DEF IInv, TypeOK
  <2> QED  BY <1>1, <2>2, <2>5, <2>6, LocalStep
<1>2. CASE Stat(p) \/ OpenEditor(p) \/ Quit(p)
  <2> USE DEF Stat, OpenEditor, Quit, local
  <2>1. TypeOK'
    BY <1>2 DEF IInv, TypeOK, Steps
  <2>2. /\ pc[p] \in {"stat", "ready", "menu", "setup"}
        /\ pc'[p] \in {"wizard", "ready", "list", "done"}
        /\ mem'[p] = mem[p] /\ buf'[p] = buf[p] /\ op'[p] = op[p]
    BY <1>2 DEF IInv, TypeOK
  <2>3. CopyInv(p)' /\ SaveInv(p)'
    BY <2>2 DEF IInv, CopyInv, SaveInv
  <2>4. \A q \in Procs \ {p} : /\ mem'[q] = mem[q] /\ buf'[q] = buf[q]
                               /\ pc'[q] = pc[q] /\ op'[q] = op[q]
    BY <1>2 DEF IInv, TypeOK
  <2>5. file' = file
    BY <1>2
  <2> QED  BY <2>1, <2>3, <2>4, <2>5, LocalStep
<1>3. CASE ShowHosts(p)
  <2> DEFINE c == Loaded(p)
  <2>1. /\ c \in Config \union {NoConfig}
        /\ c \in Config => NamesUnique(c)
        /\ c \in Config /\ Intact(c) => Good(c)
    BY LoadedIsGood
  <2>2. c \in Config /\ Listable(c) => Intact(c)
    BY SentinelsAreDistinct DEF Listable, Intact
  <2> HIDE DEF c
  <2>3. /\ mem'[p] = c /\ pc[p] \in {"list", "ready"} /\ pc'[p] \in {"segv", "menu", "done"}
        /\ buf'[p] = buf[p] /\ op'[p] = op[p] /\ file' = file
        /\ pc'[p] = "menu" /\ c \in Config => Listable(c)
    BY <1>3, StoreAssumption DEF ShowHosts, local, IInv, TypeOK, c
  <2>4. TypeOK'
    BY <1>3, <2>1 DEF ShowHosts, local, IInv, TypeOK, Steps, c
  <2>5. CopyInv(p)'
    BY <2>1, <2>2, <2>3 DEF CopyInv
  <2>6. SaveInv(p)'
    BY <2>3 DEF IInv, SaveInv
  <2>7. \A q \in Procs \ {p} : /\ mem'[q] = mem[q] /\ buf'[q] = buf[q]
                               /\ pc'[q] = pc[q] /\ op'[q] = op[q]
    BY <1>3 DEF ShowHosts, local, IInv, TypeOK
  <2> QED  BY <2>3, <2>4, <2>5, <2>6, <2>7, LocalStep
<1>4. CASE Exit(p) \/ Kill(p) \/ Crash(p)
  <2>1. spoiled' \in BOOLEAN
    BY <1>4 DEF Exit, Kill, Crash, IInv, TypeOK
  <2> QED  BY <1>4, <2>1, GoneKeeps DEF Exit, Kill, Crash
<1> QED  BY <1>1, <1>2, <1>3, <1>4 DEF Life

-----------------------------------------------------------------------------
(* The theorems.                                                           *)

LEMMA InitEstablishes == Init => IInv
<1>1. ASSUME Init
      PROVE  TypeOK
  BY <1>1 DEF Init, TypeOK, Steps
<1>2. ASSUME Init
      PROVE  FileInv /\ \A p \in Procs : CopyInv(p) /\ SaveInv(p)
  BY <1>2, StoreAssumption DEF Init, FileInv, CopyInv, SaveInv
<1> QED  BY <1>1, <1>2 DEF IInv

LEMMA StutterKeeps ==
    ASSUME IInv, UNCHANGED vars
    PROVE  IInv'
BY DEF vars, local, IInv, TypeOK, FileInv, CopyInv, SaveInv

LEMMA Invariance == Spec => []IInv
<1>1. IInv /\ [Next]_vars => IInv'
  BY ChangeKeeps, SaveKeeps, LifeKeeps, StutterKeeps DEF Next
<1> QED  BY <1>1, InitEstablishes, PTL DEF Spec

\* Every operation and every fault leaves the state of the store well typed
\* (config.c:394-1068, hosts.c:136-471).
THEOREM TypeCorrect == Spec => []TypeOK
BY Invariance, PTL DEF IInv

LEMMA SnapshotsAreUnique ==
    ASSUME IInv, NEW c \in Snapshots
    PROVE  NamesUnique(c)
BY DEF IInv, FileInv, CopyInv, SaveInv, Snapshots, Good

\* However many processes run, crash or fail to write, no configuration in the
\* file, in a copy or on its way to the file has two hosts of one name, which
\* the searches of config.c (919-926, 976-983) rely on.
THEOREM NamesStayUnique == Spec => []HostNamesAreUnique
<1>1. IInv => HostNamesAreUnique
  BY SnapshotsAreUnique DEF HostNamesAreUnique
<1> QED  BY <1>1, Invariance, PTL

\* Where no imported host has an empty name, default_host always names a host of
\* the same configuration and is chosen as soon as there is one
\* (config.c:936-939, 1020-1029), whatever runs, crashes or fails to write.
THEOREM DefaultStaysAHost ==
    ASSUME EmptyName \notin Names
    PROVE  Spec => []DefaultIsAHost
<1>1. ASSUME IInv, NEW c \in Snapshots, Intact(c)
      PROVE  DefaultExists(c) /\ DefaultChosen(c)
  <2>1. Good(c)
    BY <1>1 DEF IInv, FileInv, CopyInv, SaveInv, Snapshots
  <2> QED  BY <2>1 DEF Good, WellFormed
<1>2. IInv => DefaultIsAHost
  BY <1>1 DEF DefaultIsAHost
<1> QED  BY <1>2, Invariance, PTL

\* Whatever fails or crashes, a host freed after a failed save (hosts.c:446-468)
\* is in no file and in nothing about to be saved, and the copy that points to it
\* is never searched, changed or saved: its process is on the way out or at the
\* list (hosts.c:674-711), with any names and any number of processes.
THEOREM FreedHostStays == Spec => []FreedHostStaysAside
<1>1. IInv => FreedHostStaysAside
  BY DEF IInv, FileInv, CopyInv, SaveInv, Good, FreedHostStaysAside
<1> QED  BY <1>1, Invariance, PTL

LEMMA TornInvariance == Spec => []TornHasAWriter
<1>1. Init => TornHasAWriter
  BY StoreAssumption DEF Init, TornHasAWriter
<1>2. ASSUME IInv, TornHasAWriter, [Next]_vars
      PROVE  TornHasAWriter'
  <2>1. CASE UNCHANGED vars
    BY <1>2, <2>1 DEF vars, TornHasAWriter
  <2>2. ASSUME NEW p \in Procs, file' = file, pc[p] # "open", spoiled' = spoiled,
               \A q \in Procs \ {p} : pc'[q] = pc[q]
        PROVE  TornHasAWriter'
    BY <1>2, <2>2 DEF TornHasAWriter
  <2>3. ASSUME NEW p \in Procs, Life(p)
        PROVE  TornHasAWriter'
    <3>1. \A q \in Procs \ {p} : pc'[q] = pc[q]
      BY <1>2, <2>3 DEF Life, Start, Stat, OpenEditor, ShowHosts, Quit, Exit, Kill,
         Crash, Gone, IInv, TypeOK
    <3>2. CASE Crash(p)
      <4>1. file' = file /\ spoiled' = (spoiled \/ (pc[p] = "open" /\ file = Torn))
        BY <3>2 DEF Crash, Gone
      <4> QED  BY <1>2, <3>1, <4>1 DEF TornHasAWriter
    <3>3. CASE ~Crash(p)
      <4>1. file' = file /\ pc[p] # "open" /\ spoiled' = spoiled
        BY <2>3, <3>3 DEF Life, Start, Stat, OpenEditor, ShowHosts, Quit, Exit, Kill,
           Gone, local
      <4> QED  BY <2>2, <3>1, <4>1
    <3> QED  BY <3>2, <3>3
  <2>4. ASSUME NEW p \in Procs, Change(p)
        PROVE  TornHasAWriter'
    <3> USE DEF Change, WizardSave, HostAdd, HostRemove, HostSetDefault, HostEdit,
            SetLogLevel, SetCopyToClipboard, SetInvalid, AnswerYes, AnswerNo, ChangeAndSave,
            BeginSave, Refuse, Report, Accepts, local
    <3>1. file' = file /\ pc[p] # "open" /\ spoiled' = spoiled
      BY <2>4
    <3>2. \A q \in Procs \ {p} : pc'[q] = pc[q]
      BY <1>2, <2>4 DEF IInv, TypeOK
    <3> QED  BY <2>2, <3>1, <3>2
  <2>5. ASSUME NEW p \in Procs, Save(p)
        PROVE  TornHasAWriter'
    <3>1. CASE OpenFile(p)
      <4>1. pc'[p] = "open"
        BY <1>2, <3>1 DEF OpenFile, IInv, TypeOK
      <4> QED  BY <4>1 DEF TornHasAWriter
    <3>2. CASE WriteFile(p)
      <4>1. buf[p] \in Config /\ Good(buf[p])
        BY <1>2, <3>2 DEF WriteFile, IInv, SaveInv
      <4>2. file' \in Config
        BY <3>2, <4>1, WrittenIsGood DEF WriteFile
      <4> QED  BY <4>2, StoreAssumption DEF TornHasAWriter
    <3>3. CASE FlushLost(p) \/ WriteFails(p)
      <4>1. file' = Torn => spoiled'
        BY <3>3 DEF FlushLost, WriteFails
      <4> QED  BY <4>1 DEF TornHasAWriter
    <3>4. CASE OpenFails(p)
      <4>1. file' = file /\ pc[p] # "open" /\ spoiled' = spoiled
        BY <3>4 DEF OpenFails
      <4>2. \A q \in Procs \ {p} : pc'[q] = pc[q]
        BY <1>2, <3>4 DEF OpenFails, NotSaved, Report, IInv, TypeOK
      <4> QED  BY <2>2, <4>1, <4>2
    <3> QED  BY <2>5, <3>1, <3>2, <3>3, <3>4 DEF Save
  <2> QED  BY <1>2, <2>1, <2>3, <2>4, <2>5 DEF Next
<1> QED  BY <1>1, <1>2, Invariance, PTL DEF Spec

\* However many processes save at once, config.json is cut short only while one of
\* them is between fopen and fclose of its config_save (config.c:517-542), or
\* where a crash or a failed write has cut a save off and none was complete since.
THEOREM TornOnlyWhileSaving == Spec => []TornHasAWriter
BY TornInvariance

\* A start waits for its own mutex (logging.c:117, config.c:463) only while another
\* process is in its config_save, or after a save was cut off and before the next
\* complete one, whatever runs, crashes or fails to write.
THEOREM HangsOnlyOnTorn == Spec => HangsOnlyOnACutSave
<1>1. ASSUME IInv, TornHasAWriter, [Next]_vars, NEW p \in Procs,
             pc[p] # "hung", pc'[p] = "hung"
      PROVE  spoiled \/ \E q \in Procs \ {p} : pc[q] = "open"
  <2>1. PICK r \in Procs : Life(r) \/ Change(r) \/ Save(r)
    BY <1>1 DEF Next, vars
  <2>2. ~Change(r)
    BY <1>1 DEF Change, WizardSave, HostAdd, HostRemove, HostSetDefault, HostEdit,
       SetLogLevel, SetCopyToClipboard, SetInvalid, AnswerYes, AnswerNo, ChangeAndSave,
       BeginSave, Refuse, Report, AfterOp, IInv, TypeOK
  <2>3. ~Save(r)
    BY <1>1 DEF Save, OpenFile, WriteFile, FlushLost, OpenFails, WriteFails, Saved,
       NotSaved, Report, AfterOp, IInv, TypeOK
  <2>4. Start(r)
    BY <1>1, <2>1, <2>2, <2>3 DEF Life, Start, Stat, OpenEditor, ShowHosts, Quit, Exit,
       Kill, Crash, Gone, IInv, TypeOK
  <2>5. pc[p] = "off" /\ file = Torn
    BY <1>1, <2>4 DEF Start, IInv, TypeOK
  <2> QED  BY <1>1, <2>5 DEF TornHasAWriter
<1>2. IInv /\ TornHasAWriter /\ [Next]_vars =>
          [\A p \in Procs : pc[p] # "hung" /\ pc'[p] = "hung"
              => spoiled \/ \E q \in Procs \ {p} : pc[q] = "open"]_vars
  BY <1>1
<1> QED  BY <1>2, Invariance, TornInvariance, PTL DEF Spec, HangsOnlyOnACutSave

-----------------------------------------------------------------------------
(* What a command does, in one sentence.                                   *)

\* What one command makes of the configuration c.
Changed(c, d) ==
    \/ \E n \in Names \ NamesOf(c), v \in Values :
          d = AddHost(c, [name |-> n, endpoint |-> v])
    \/ \E n \in NamesOf(c) :
          \/ d = RemoveHost(c, n)
          \/ d = SetDefaultHost(c, n)
          \/ \E v \in Values : d = SetEndpoint(c, n, v)
    \/ \E v \in Levels : d = SetLevel(c, v)
    \/ \E v \in BOOLEAN : d = SetClipboard(c, v)

Choosing == {"ready", "menu", "setup", "ask"}

\* p sets out to save a change of what it loaded.
SetsOut(p) ==
    /\ pc[p] \in Choosing /\ pc'[p] = "save"
    /\ Changed(LoadedOrFresh(p), buf'[p])
    /\ promised' \subseteq promised
    /\ promised \subseteq NamesOf(LoadedOrFresh(p)) => promised' \subseteq NamesOf(buf'[p])

\* p sets out to save the configuration the wizard begins with.
SetsOutFresh(p) ==
    /\ pc[p] = "wizard" /\ pc'[p] = "save"
    /\ buf'[p] = FreshConfig /\ op'[p] = "wizard" /\ mem'[p] = mem[p]
    /\ promised' = promised

\* p goes on without a change.
GoesOn(p) ==
    /\ pc[p] \in Choosing /\ pc'[p] \in {"list", "done"}
    /\ mem'[p] \in {mem[p], Loaded(p)}
    /\ promised' = promised

LEMMA SetsOutSteps ==
    ASSUME IInv, NEW p \in Procs, NEW d, NEW kind, ChangeAndSave(p, d, kind),
           pc[p] \in Choosing, Changed(LoadedOrFresh(p), d),
           promised' \subseteq promised,
           promised \subseteq NamesOf(LoadedOrFresh(p)) => promised' \subseteq NamesOf(d)
    PROVE  SetsOut(p)
<1>1. pc'[p] = "save" /\ buf'[p] = d
  BY DEF ChangeAndSave, BeginSave, IInv, TypeOK
<1> QED  BY <1>1 DEF SetsOut

LEMMA RefuseSteps ==
    ASSUME IInv, NEW p \in Procs, Refuse(p), pc[p] \in Choosing
    PROVE  GoesOn(p)
BY DEF Refuse, Report, AfterOp, GoesOn, IInv, TypeOK

LEMMA ChangeSteps ==
    ASSUME IInv, NEW p \in Procs, Change(p)
    PROVE  SetsOut(p) \/ SetsOutFresh(p) \/ GoesOn(p)
<1> DEFINE c == LoadedOrFresh(p)
<1>1. pc[p] \in Choosing => c \in Config /\ NamesUnique(c)
  BY LoadedIsGood DEF Good, Choosing
<1>2. CASE WizardSave(p)
  BY <1>2 DEF WizardSave, BeginSave, SetsOutFresh, IInv, TypeOK
<1>3. ASSUME NEW n \in Names, NEW v \in Values, HostAdd(p, n, v)
      PROVE  SetsOut(p) \/ GoesOn(p)
  <2> DEFINE h == [name |-> n, endpoint |-> v]
             d == AddHost(c, h)
  <2>1. pc[p] \in Choosing
    BY <1>3 DEF HostAdd, Accepts, Choosing
  <2>2. CASE n \in NamesOf(c)
    BY <1>3, <2>1, <2>2, RefuseSteps DEF HostAdd
  <2>3. CASE n \notin NamesOf(c)
    <3>1. h \in Host /\ h.name = n
      BY DEF Host
    <3>2. NamesOf(d) = NamesOf(c) \union {n}
      BY <1>1, <2>1, <2>3, <3>1, AddHostProperties
    <3>3. Changed(c, d)
      BY <2>3 DEF Changed
    <3>4. ChangeAndSave(p, d, "add") /\ promised' = promised
      BY <1>3, <2>3 DEF HostAdd
    <3> HIDE DEF c, d, h
    <3>5. promised \subseteq NamesOf(c) => promised' \subseteq NamesOf(d)
      BY <3>2, <3>4
    <3> QED  BY <2>1, <3>3, <3>4, <3>5, SetsOutSteps DEF c
  <2> QED  BY <2>2, <2>3
<1>4. ASSUME NEW n \in Names, HostRemove(p, n)
      PROVE  SetsOut(p) \/ GoesOn(p)
  <2> DEFINE d == RemoveHost(c, n)
  <2>1. pc[p] \in Choosing
    BY <1>4 DEF HostRemove, Accepts, Choosing
  <2>2. CASE Loaded(p) = NoConfig \/ n \notin NamesOf(c)
    BY <1>4, <2>1, <2>2, RefuseSteps DEF HostRemove
  <2>3. CASE Loaded(p) # NoConfig /\ n \in NamesOf(c)
    <3>1. Loaded(p) = c
      BY <2>3 DEF LoadedOrFresh
    <3>2. NamesOf(d) = NamesOf(c) \ {n}
      BY <1>1, <2>1, <2>3, RemoveHostProperties
    <3>3. Changed(c, d)
      BY <2>3 DEF Changed
    <3>4. ChangeAndSave(p, d, "change") /\ promised' = promised \ {n}
      BY <1>4, <2>3, <3>1 DEF HostRemove
    <3> HIDE DEF c, d
    <3>5. promised \subseteq NamesOf(c) => promised' \subseteq NamesOf(d)
      BY <3>2, <3>4
    <3> QED  BY <2>1, <3>3, <3>4, <3>5, SetsOutSteps DEF c
  <2> QED  BY <2>2, <2>3
<1>5. ASSUME pc[p] \in Choosing, NEW d, NamesOf(d) = NamesOf(c), Changed(c, d),
             NEW kind, ChangeAndSave(p, d, kind), promised' = promised
      PROVE  SetsOut(p)
  BY <1>5, SetsOutSteps
<1>6. ASSUME NEW n \in Names, HostSetDefault(p, n)
      PROVE  SetsOut(p) \/ GoesOn(p)
  <2> DEFINE d == SetDefaultHost(c, n)
  <2>1. pc[p] \in Choosing
    BY <1>6 DEF HostSetDefault, Accepts, Choosing
  <2>2. CASE n \notin NamesOf(c)
    BY <1>6, <2>1, <2>2, RefuseSteps DEF HostSetDefault
  <2>3. CASE n \in NamesOf(c)
    <3>1. NamesOf(d) = NamesOf(c)
      BY <1>1, <2>1, <2>3, SetDefaultHostProperties
    <3>2. Changed(c, d)
      BY <2>3 DEF Changed
    <3>3. ChangeAndSave(p, d, "change") /\ promised' = promised
      BY <1>6, <2>3 DEF HostSetDefault
    <3> HIDE DEF c, d
    <3> QED  BY <1>5, <2>1, <3>1, <3>2, <3>3
  <2> QED  BY <2>2, <2>3
<1>7. ASSUME NEW n \in Names, NEW v \in Values, HostEdit(p, n, v)
      PROVE  SetsOut(p) \/ GoesOn(p)
  <2> DEFINE d == SetEndpoint(c, n, v)
  <2>1. pc[p] \in Choosing
    BY <1>7 DEF HostEdit, Accepts, Choosing
  <2>2. CASE n \notin NamesOf(c)
    BY <1>7, <2>1, <2>2, RefuseSteps DEF HostEdit
  <2>3. CASE n \in NamesOf(c)
    <3>1. NamesOf(d) = NamesOf(c)
      BY <1>1, <2>1, <2>3, SetEndpointProperties
    <3>2. Changed(c, d)
      BY <2>3 DEF Changed
    <3>3. ChangeAndSave(p, d, "change") /\ promised' = promised
      BY <1>7, <2>3 DEF HostEdit
    <3> HIDE DEF c, d
    <3> QED  BY <1>5, <2>1, <3>1, <3>2, <3>3
  <2> QED  BY <2>2, <2>3
<1>8. ASSUME NEW v \in Levels, SetLogLevel(p, v)
      PROVE  SetsOut(p)
  <2> DEFINE d == SetLevel(c, v)
  <2>1. pc[p] \in Choosing /\ ChangeAndSave(p, d, "change") /\ promised' = promised
    BY <1>8 DEF SetLogLevel, Accepts, Choosing
  <2>2. NamesOf(d) = NamesOf(c)
    BY <1>1, <2>1, SetScalarProperties
  <2>3. Changed(c, d)
    BY DEF Changed
  <2> HIDE DEF c, d
  <2> QED  BY <1>5, <2>1, <2>2, <2>3
<1>9. ASSUME NEW v \in BOOLEAN, SetCopyToClipboard(p, v)
      PROVE  SetsOut(p) \/ GoesOn(p)
  <2> DEFINE d == SetClipboard(c, v)
  <2>1. pc[p] \in Choosing
    BY <1>9 DEF SetCopyToClipboard, Choosing
  <2>2. CASE v = c.copy_to_clipboard
    BY <1>9, <2>1, <2>2, RefuseSteps DEF SetCopyToClipboard
  <2>3. CASE v # c.copy_to_clipboard
    <3>1. NamesOf(d) = NamesOf(c)
      BY <1>1, <2>1, SentinelsAreDistinct, SetScalarProperties
    <3>2. Changed(c, d)
      BY DEF Changed
    <3>3. ChangeAndSave(p, d, "change") /\ promised' = promised
      BY <1>9, <2>3 DEF SetCopyToClipboard
    <3> HIDE DEF c, d
    <3> QED  BY <1>5, <2>1, <3>1, <3>2, <3>3
  <2> QED  BY <2>2, <2>3
<1>10. CASE AnswerYes(p)
  <2> DEFINE n == mem[p].hosts[Len(mem[p].hosts)].name
             d == SetDefaultHost(c, n)
  <2>1. pc[p] = "ask" /\ mem[p] \in Config /\ LastIsHost(mem[p])
    BY <1>10 DEF AnswerYes, IInv, SaveInv
  <2>2. c = mem[p] /\ pc[p] \in Choosing
    BY <2>1, StoreAssumption DEF LoadedOrFresh, Loaded, Choosing
  <2>3. n \in NamesOf(c)
    <3>1. Len(mem[p].hosts) \in Nat /\ DOMAIN mem[p].hosts = 1 .. Len(mem[p].hosts)
      BY <2>1, ConfigFields
    <3>2. Len(mem[p].hosts) \in Filled(mem[p])
      BY <2>1, <3>1 DEF LastIsHost, Filled
    <3> HIDE DEF c
    <3> QED  BY <2>2, <3>2 DEF NamesOf
  <2>4. ChangeAndSave(p, d, "change") /\ promised' = promised
    <3> HIDE DEF c
    <3> QED  BY <1>10, <2>2 DEF AnswerYes
  <2>5. NamesOf(d) = NamesOf(c)
    BY <1>1, <2>2, <2>3, SetDefaultHostProperties
  <2>6. Changed(c, d)
    BY <2>3 DEF Changed
  <2> HIDE DEF c, d
  <2> QED  BY <1>5, <2>2, <2>4, <2>5, <2>6
<1>11. CASE AnswerNo(p)
  BY <1>11 DEF AnswerNo, AfterOp, local, GoesOn, Choosing, IInv, TypeOK
<1>12. CASE SetInvalid(p)
  BY <1>12, RefuseSteps DEF SetInvalid, Accepts, Choosing
<1> QED  BY <1>2, <1>3, <1>4, <1>6, <1>7, <1>8, <1>9, <1>10, <1>11, <1>12 DEF Change

-----------------------------------------------------------------------------
(* One process, nothing failing.                                           *)

\* The copy is what the file holds but while it is saved, and what is saved is
\* one change away from the file.
SoloInv(p) ==
    /\ file = Torn <=> pc[p] = "open"
    /\ file = Absent => pc[p] \in {"off", "stat", "wizard", "save"} /\ promised = {}
    /\ pc[p] = "wizard" => file = Absent
    /\ pc[p] # "hung"
    /\ pc[p] \notin {"save", "open"} /\ mem[p] \in Config => mem[p] = file
    /\ pc[p] = "save" => \/ file = Absent /\ op[p] = "wizard" /\ buf[p] = FreshConfig
                         \/ file \in Config /\ Changed(file, buf[p])
    /\ pc[p] \in {"save", "open"} => promised \subseteq NamesOf(buf[p])
    /\ file \in Config => promised \subseteq NamesOf(file)

\* The file is read as it was written, and written as it is to be.
LEMMA AsItIs ==
    ASSUME IInv, EmptyName \notin Names, NEW p \in Procs
    PROVE  /\ file \in Config => ReadFile = file
           /\ file \notin Config => ReadFile = NoConfig
           /\ buf[p] \in Config => ConfigToJson(buf[p]) = buf[p]
<1>1. file \in Config => Listable(file)
  BY DEF IInv, FileInv, Good, WellFormed
<1>2. buf[p] \in Config => Listable(buf[p])
  BY DEF IInv, SaveInv, Good, WellFormed
<1> QED  BY <1>1, <1>2, RoundTrip DEF ReadFile

\* Where a process may change something, what it loads is the file.
LEMMA LoadsTheFile ==
    ASSUME IInv, EmptyName \notin Names, NEW p \in Procs, SoloInv(p)
    PROVE  /\ pc[p] \notin {"save", "open"} /\ Loaded(p) \in Config => Loaded(p) = file
           /\ pc[p] \in Choosing => file \in Config /\ LoadedOrFresh(p) = file
<1>1. /\ file \in Config => ReadFile = file
      /\ file \notin Config => ReadFile = NoConfig
  BY AsItIs
<1>2. mem[p] \in Config \union {NoConfig} /\ file \in Config \union {Absent, Torn}
  BY DEF IInv, TypeOK
<1>3. pc[p] \notin {"save", "open"} /\ Loaded(p) \in Config => Loaded(p) = file
  BY <1>1, <1>2, StoreAssumption DEF Loaded, SoloInv
<1>4. pc[p] \in Choosing => file \in Config
  BY <1>2 DEF SoloInv, Choosing
<1>5. pc[p] \in Choosing => Loaded(p) = file
  BY <1>1, <1>2, <1>4, StoreAssumption DEF Loaded, SoloInv, Choosing
<1> QED  BY <1>3, <1>4, <1>5, StoreAssumption DEF LoadedOrFresh

\* A successful save: the file is what was saved, and holds the host just added.
LEMMA SoloWrites ==
    ASSUME IInv, EmptyName \notin Names, NEW p \in Procs, SoloInv(p), WriteFile(p)
    PROVE  SoloInv(p)' /\ file' = ConfigToJson(buf[p])
<1>1. /\ pc[p] = "open" /\ buf[p] \in Config /\ file' = ConfigToJson(buf[p])
      /\ ConfigToJson(buf[p]) = buf[p]
      /\ op[p] = "add" => LastIsHost(buf[p])
  BY AsItIs DEF WriteFile, IInv, SaveInv
<1>2. /\ pc'[p] \in {"setup", "ask", "list", "done"} /\ mem'[p] \in {NoConfig, buf[p]}
      /\ promised' \in {promised,
                        promised \union {buf[p].hosts[Len(buf[p].hosts)].name}}
      /\ promised' # promised => op[p] = "add"
  BY DEF WriteFile, Saved, AfterOp, IInv, TypeOK
<1>3. op[p] = "add" => buf[p].hosts[Len(buf[p].hosts)].name \in NamesOf(buf[p])
  <2>1. Len(buf[p].hosts) \in Nat /\ DOMAIN buf[p].hosts = 1 .. Len(buf[p].hosts)
    BY <1>1, ConfigFields
  <2>2. op[p] = "add" => Len(buf[p].hosts) \in Filled(buf[p])
    BY <1>1, <2>1 DEF LastIsHost, Filled
  <2> QED  BY <2>2 DEF NamesOf
<1>4. promised \subseteq NamesOf(buf[p])
  BY <1>1 DEF SoloInv
<1>5. promised' \subseteq NamesOf(buf[p])
  BY <1>2, <1>3, <1>4
<1>6. file' = buf[p] /\ file' # Torn /\ file' # Absent
  BY <1>1, StoreAssumption
<1> QED  BY <1>1, <1>2, <1>5, <1>6, StoreAssumption DEF SoloInv

LEMMA SoloKeeps ==
    ASSUME IInv, EmptyName \notin Names, Faults = {}, NEW p \in Procs, SoloInv(p),
           Life(p) \/ Change(p) \/ Save(p)
    PROVE  SoloInv(p)'
<1>1. /\ file \in Config => ReadFile = file
      /\ file \notin Config => ReadFile = NoConfig
  BY AsItIs
<1>2. file \in Config \union {Absent, Torn}
  BY DEF IInv, TypeOK
<1>3. CASE Change(p)
  <2>1. file' = file
    BY <1>3 DEF Change, WizardSave, HostAdd, HostRemove, HostSetDefault, HostEdit,
       SetLogLevel, SetCopyToClipboard, SetInvalid, AnswerYes, AnswerNo, ChangeAndSave,
       BeginSave, Refuse, local
  <2>2. CASE SetsOut(p)
    <3>1. file \in Config /\ LoadedOrFresh(p) = file
      BY <2>2, LoadsTheFile DEF SetsOut
    <3>2. promised \subseteq NamesOf(file)
      BY <3>1 DEF SoloInv
    <3> QED  BY <2>1, <2>2, <3>1, <3>2, StoreAssumption DEF SoloInv, SetsOut
  <2>3. CASE SetsOutFresh(p)
    BY <2>1, <2>3, StoreAssumption DEF SoloInv, SetsOutFresh
  <2>4. CASE GoesOn(p)
    <3>1. file \in Config /\ LoadedOrFresh(p) = file
      BY <2>4, LoadsTheFile DEF GoesOn
    <3>2. mem'[p] \in Config => mem'[p] = file
      BY <2>4, LoadsTheFile DEF GoesOn, SoloInv, Choosing
    <3> QED  BY <2>1, <2>4, <3>1, <3>2, StoreAssumption DEF SoloInv, GoesOn, Choosing
  <2> QED  BY <1>3, <2>2, <2>3, <2>4, ChangeSteps
<1>4. CASE Save(p)
  <2>1. OpenFile(p) \/ WriteFile(p)
    BY <1>4 DEF Save, FlushLost, OpenFails, WriteFails
  <2>2. CASE OpenFile(p)
    <3>1. /\ pc[p] = "save" /\ pc'[p] = "open" /\ file' = Torn /\ promised' = promised
          /\ buf' = buf
      BY <2>2 DEF OpenFile, local, IInv, TypeOK
    <3> QED  BY <3>1, StoreAssumption DEF SoloInv
  <2> QED  BY <2>1, <2>2, SoloWrites
<1>5. CASE Life(p)
  <2>1. file' = file /\ promised' = promised
    BY <1>5 DEF Life, Start, Stat, OpenEditor, ShowHosts, Quit, Exit, Kill, Crash, Gone,
       local
  <2>2. CASE Start(p)
    <3>1. /\ pc[p] = "off" /\ mem'[p] = ReadFile
          /\ pc'[p] = IF file = Torn THEN "hung" ELSE "stat"
      BY <2>2 DEF Start, IInv, TypeOK
    <3> QED  BY <1>1, <1>2, <2>1, <3>1, StoreAssumption DEF SoloInv
  <2>3. CASE Stat(p)
    <3>1. /\ pc[p] = "stat" /\ mem' = mem
          /\ pc'[p] = IF file = Absent THEN "wizard" ELSE "ready"
      BY <2>3 DEF Stat, IInv, TypeOK
    <3> QED  BY <2>1, <3>1 DEF SoloInv
  <2>4. CASE OpenEditor(p) \/ Quit(p)
    <3>1. /\ pc[p] \in {"ready", "menu", "setup"} /\ mem' = mem
          /\ pc'[p] \in {"list", "done"}
      BY <2>4 DEF OpenEditor, Quit, IInv, TypeOK
    <3> QED  BY <2>1, <3>1 DEF SoloInv
  <2>5. CASE ShowHosts(p)
    <3>1. /\ pc[p] \in {"list", "ready"} /\ pc'[p] \in {"menu", "done", "segv"}
          /\ mem'[p] = Loaded(p)
      BY <2>5 DEF ShowHosts, IInv, TypeOK
    <3>2. Loaded(p) \in Config => Loaded(p) = file
      BY <3>1, LoadsTheFile
    <3> QED  BY <2>1, <3>1, <3>2 DEF SoloInv
  <2>6. CASE Gone(p) /\ pc[p] \in {"done", "segv", "hung"}
    <3>1. pc'[p] = "off" /\ mem'[p] = NoConfig
      BY <2>6 DEF Gone, IInv, TypeOK
    <3> QED  BY <2>1, <2>6, <3>1, StoreAssumption DEF SoloInv
  <2> QED  BY <1>5, <2>2, <2>3, <2>4, <2>5, <2>6 DEF Life, Exit, Kill, Crash
<1> QED  BY <1>3, <1>4, <1>5

LEMMA SoloInvariance ==
    ASSUME NEW p, Procs = {p}, Faults = {}, EmptyName \notin Names
    PROVE  Spec => []SoloInv(p)
<1>1. Init => SoloInv(p)
  BY StoreAssumption DEF Init, SoloInv
<1>2. IInv /\ SoloInv(p) /\ [Next]_vars => SoloInv(p)'
  <2>1. SoloInv(p) /\ UNCHANGED vars => SoloInv(p)'
    BY DEF vars, local, SoloInv
  <2> QED  BY <2>1, SoloKeeps DEF Next
<1> QED  BY <1>1, <1>2, Invariance, PTL DEF Spec

\* The theorems below are about one process at a time, with no crash and no
\* failing call, where no imported host has an empty name.

\* Between two operations the cached copy is what loading the file again would
\* give (config.c:397-400), through any sequence of commands and editor turns.
THEOREM CopyStaysCurrent ==
    ASSUME NEW p, Procs = {p}, Faults = {}, EmptyName \notin Names
    PROVE  Spec => []CopyIsCurrent
<1>1. IInv /\ SoloInv(p) => CopyIsCurrent
  <2> SUFFICES ASSUME IInv, SoloInv(p), mem[p] # NoConfig,
                      pc[p] \in {"ready", "list", "menu", "ask", "done"}
               PROVE  mem[p] = ReadFile
    BY DEF CopyIsCurrent
  <2>1. mem[p] \in Config
    BY DEF IInv, TypeOK
  <2>2. mem[p] = file
    BY <2>1 DEF SoloInv
  <2> QED  BY <2>1, <2>2, AsItIs
<1> QED  BY <1>1, Invariance, SoloInvariance, PTL

\* A host reported as added (hosts.c:349), and not removed since, is in the file
\* whenever the file can be read.
THEOREM AddedHostsStay ==
    ASSUME NEW p, Procs = {p}, Faults = {}, EmptyName \notin Names
    PROVE  Spec => []AddedHostsAreStored
<1>1. SoloInv(p) => AddedHostsAreStored
  BY DEF SoloInv, AddedHostsAreStored
<1> QED  BY <1>1, SoloInvariance, PTL

-----------------------------------------------------------------------------
(* One process implements the register.                                    *)

\* The operators of the register are those of the store.
LEMMA SameOperators ==
    /\ FreshConfig = Register!FreshConfig
    /\ \A c : NamesOf(c) = Register!NamesOf(c)
    /\ \A c, h : AddHost(c, h) = Register!AddHost(c, h)
    /\ \A c, n : RemoveHost(c, n) = Register!RemoveHost(c, n)
    /\ \A c, n : SetDefaultHost(c, n) = Register!SetDefaultHost(c, n)
    /\ \A c, n, v : SetEndpoint(c, n, v) = Register!SetEndpoint(c, n, v)
    /\ \A c, v : SetLevel(c, v) = Register!SetLevel(c, v)
    /\ \A c, v : SetClipboard(c, v) = Register!SetClipboard(c, v)
<1>. Host = Register!Host
  BY DEF Host, Register!Host
<1>1. \A c : Filled(c) = Register!Filled(c)
  BY DEF Filled, Register!Filled
<1>2. \A c : NamesOf(c) = Register!NamesOf(c)
  BY <1>1 DEF NamesOf, Register!NamesOf
<1>3. \A c, n : IndexOf(c, n) = Register!IndexOf(c, n)
  BY <1>1 DEF IndexOf, Register!IndexOf
<1>4. ASSUME NEW c, NEW n
      PROVE  RemoveHost(c, n) = Register!RemoveHost(c, n)
  <2> DEFINE rest(i) == [j \in 1 .. Len(c.hosts) - 1 |->
                            IF j < i THEN c.hosts[j] ELSE c.hosts[j + 1]]
             removed(i, H) ==
                [c EXCEPT !.hosts = rest(i),
                          !.default_host =
                              IF c.default_host # n THEN c.default_host
                              ELSE IF Len(c.hosts) > 1 /\ rest(i)[1] \in H
                                   THEN rest(i)[1].name ELSE NoName]
  <2>1. RemoveHost(c, n) = removed(IndexOf(c, n), Host)
    BY DEF RemoveHost
  <2>2. Register!RemoveHost(c, n) = removed(Register!IndexOf(c, n), Register!Host)
    BY DEF Register!RemoveHost
  <2> HIDE DEF removed
  <2> QED  BY <1>3, <2>1, <2>2
<1>5. \A c, n, v : SetEndpoint(c, n, v) = Register!SetEndpoint(c, n, v)
  BY <1>3 DEF SetEndpoint, Register!SetEndpoint
<1>6. \A c, h : AddHost(c, h) = Register!AddHost(c, h)
  BY DEF AddHost, Register!AddHost
<1>7. /\ \A c, n : SetDefaultHost(c, n) = Register!SetDefaultHost(c, n)
      /\ \A c, v : SetLevel(c, v) = Register!SetLevel(c, v)
      /\ \A c, v : SetClipboard(c, v) = Register!SetClipboard(c, v)
      /\ FreshConfig = Register!FreshConfig
  BY DEF SetDefaultHost, Register!SetDefaultHost, SetLevel, Register!SetLevel,
     SetClipboard, Register!SetClipboard, FreshConfig, Register!FreshConfig
<1> QED  BY <1>2, <1>4, <1>5, <1>6, <1>7

\* A change of the stored configuration is a step of the register.
LEMMA ChangedIsAStep ==
    ASSUME StoredConfig \in Config, Changed(StoredConfig, StoredConfig')
    PROVE  Register!Next
<1> DEFINE c == StoredConfig
           d == StoredConfig'
<1>1. c # Absent /\ NamesOf(c) \subseteq Names
  BY StoreAssumption, ConfigFields
<1>2. ASSUME NEW n \in Names \ NamesOf(c), NEW v \in Values,
             d = AddHost(c, [name |-> n, endpoint |-> v])
      PROVE  Register!Next
  <2>1. Register!Add(n, v)
    BY <1>2, SameOperators DEF Register!Add
  <2> QED  BY <1>1, <2>1 DEF Register!Next
<1>3. ASSUME NEW n \in NamesOf(c), d = RemoveHost(c, n)
      PROVE  Register!Next
  <2>1. Register!Remove(n)
    BY <1>3, SameOperators DEF Register!Remove
  <2> QED  BY <1>1, <2>1 DEF Register!Next
<1>4. ASSUME NEW n \in NamesOf(c), d = SetDefaultHost(c, n)
      PROVE  Register!Next
  <2>1. Register!SetDefault(n)
    BY <1>4, SameOperators DEF Register!SetDefault
  <2> QED  BY <1>1, <2>1 DEF Register!Next
<1>5. ASSUME NEW n \in NamesOf(c), NEW v \in Values, d = SetEndpoint(c, n, v)
      PROVE  Register!Next
  <2>1. Register!Edit(n, v)
    BY <1>5, SameOperators DEF Register!Edit
  <2> QED  BY <1>1, <2>1 DEF Register!Next
<1>6. ASSUME NEW v \in Levels, d = SetLevel(c, v)
      PROVE  Register!Next
  <2>1. Register!SetLogLevel(v)
    BY <1>6, SameOperators DEF Register!SetLogLevel
  <2> QED  BY <1>1, <2>1 DEF Register!Next
<1>7. ASSUME NEW v \in BOOLEAN, d = SetClipboard(c, v)
      PROVE  Register!Next
  <2>1. Register!SetCopy(v)
    BY <1>7, SameOperators DEF Register!SetCopy
  <2> QED  BY <1>1, <2>1 DEF Register!Next
<1> QED  BY <1>2, <1>3, <1>4, <1>5, <1>6, <1>7 DEF Changed

\* What is stored, when p is the only process.
LEMMA StoredBySolo ==
    ASSUME NEW p, Procs = {p}
    PROVE  StoredConfig = IF pc[p] = "open" THEN ConfigToJson(buf[p]) ELSE file
<1> DEFINE W == {q \in Procs : pc[q] = "open"}
<1>1. StoredConfig = IF W = {} THEN file ELSE ConfigToJson(buf[CHOOSE q \in W : TRUE])
  BY DEF StoredConfig
<1>2. CASE pc[p] = "open"
  <2>1. W = {p}
    BY <1>2
  <2>2. (CHOOSE q \in {p} : TRUE) = p
    OBVIOUS
  <2> QED  BY <1>1, <1>2, <2>1, <2>2
<1>3. CASE pc[p] # "open"
  <2>1. W = {}
    BY <1>3
  <2> QED  BY <1>1, <1>3, <2>1
<1> QED  BY <1>2, <1>3

\* Only opening the file takes effect: it makes what is stored the
\* configuration that was changed.
LEMMA SoloStep ==
    ASSUME NEW p, Procs = {p}, Faults = {}, EmptyName \notin Names,
           IInv, SoloInv(p), Life(p) \/ Change(p) \/ Save(p)
    PROVE  Register!Next \/ UNCHANGED StoredConfig
<1>1. /\ StoredConfig = IF pc[p] = "open" THEN ConfigToJson(buf[p]) ELSE file
      /\ StoredConfig' = IF pc'[p] = "open" THEN ConfigToJson(buf'[p]) ELSE file'
  <2>1. StoredConfig = IF pc[p] = "open" THEN ConfigToJson(buf[p]) ELSE file
    BY StoredBySolo
  <2>2. (StoredConfig = IF pc[p] = "open" THEN ConfigToJson(buf[p]) ELSE file)'
    BY StoredBySolo, PTL
  <2> QED  BY <2>1, <2>2
<1>2. CASE OpenFile(p)
  <2>1. /\ pc[p] = "save" /\ pc'[p] = "open" /\ buf' = buf
        /\ buf[p] \in Config /\ ConfigToJson(buf[p]) = buf[p]
    BY <1>2, AsItIs DEF OpenFile, local, IInv, TypeOK, SaveInv
  <2>2. StoredConfig = file /\ StoredConfig' = buf[p]
    BY <1>1, <2>1
  <2>3. CASE file = Absent /\ buf[p] = FreshConfig
    BY <2>2, <2>3, SameOperators DEF Register!Next, Register!Create
  <2>4. CASE file \in Config /\ Changed(file, buf[p])
    BY <2>2, <2>4, ChangedIsAStep
  <2> QED  BY <2>1, <2>3, <2>4 DEF SoloInv
<1>3. CASE WriteFile(p)
  <2>1. /\ pc[p] = "open" /\ file' = ConfigToJson(buf[p])
        /\ pc'[p] \in {"setup", "ask", "list", "done"}
    BY <1>3 DEF WriteFile, Saved, AfterOp, IInv, TypeOK
  <2> QED  BY <1>1, <2>1
<1>4. CASE Change(p)
  <2>1. pc[p] # "open" /\ pc'[p] # "open"
    BY <1>4, ChangeSteps DEF SetsOut, SetsOutFresh, GoesOn, Choosing
  <2>2. file' = file
    BY <1>4 DEF Change, WizardSave, HostAdd, HostRemove, HostSetDefault, HostEdit,
       SetLogLevel, SetCopyToClipboard, SetInvalid, AnswerYes, AnswerNo, ChangeAndSave,
       BeginSave, Refuse, local
  <2> QED  BY <1>1, <2>1, <2>2
<1>5. CASE Life(p)
  <2>1. pc[p] # "open" /\ pc'[p] # "open" /\ file' = file
    BY <1>5 DEF Life, Start, Stat, OpenEditor, ShowHosts, Quit, Exit, Kill, Crash, Gone,
       IInv, TypeOK
  <2> QED  BY <1>1, <2>1
<1> QED
  BY <1>2, <1>3, <1>4, <1>5 DEF Save, FlushLost, OpenFails, WriteFails

\* One process at a time, with no crash and no failing call, each command changes
\* config.json as one atomic operation on the configuration would, although it
\* reads the file at start-up, changes a copy, truncates the file and writes it
\* (config.c:394-1034): the store implements the register.
THEOREM StoreImplementsRegister ==
    ASSUME NEW p, Procs = {p}, Faults = {}, EmptyName \notin Names
    PROVE  Spec => ImplementsRegister
<1>1. Init => Register!Init
  <2>1. StoredConfig = IF pc[p] = "open" THEN ConfigToJson(buf[p]) ELSE file
    BY StoredBySolo
  <2> QED  BY <2>1 DEF Init, Register!Init
<1>2. IInv /\ SoloInv(p) /\ [Next]_vars => [Register!Next]_StoredConfig
  <2>1. UNCHANGED vars => UNCHANGED StoredConfig
    BY DEF vars, StoredConfig
  <2> QED  BY <2>1, SoloStep DEF Next
<1> QED  BY <1>1, <1>2, Invariance, SoloInvariance, PTL
         DEF Spec, ImplementsRegister, Register!Spec
=============================================================================
