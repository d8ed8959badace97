--------------------------- MODULE ConfigRegister ---------------------------
(***************************************************************************)
(* What the configuration commands promise together: one configuration,    *)
(* which each command reads and changes in a single step.  ConfigStore     *)
(* implements it when one process runs at a time and nothing fails.        *)
(***************************************************************************)
EXTENDS HostConfig

CONSTANT Absent

VARIABLE cfg

Init == cfg = Absent

Create == cfg = Absent /\ cfg' = FreshConfig

Add(n, v) ==
    /\ n \notin NamesOf(cfg)
    /\ cfg' = AddHost(cfg, [name |-> n, endpoint |-> v])

Remove(n) == n \in NamesOf(cfg) /\ cfg' = RemoveHost(cfg, n)

SetDefault(n) == n \in NamesOf(cfg) /\ cfg' = SetDefaultHost(cfg, n)

Edit(n, v) == n \in NamesOf(cfg) /\ cfg' = SetEndpoint(cfg, n, v)

SetLogLevel(v) == cfg' = SetLevel(cfg, v)

SetCopy(v) == cfg' = SetClipboard(cfg, v)

Next ==
    \/ Create
    \/ /\ cfg # Absent
       /\ \/ \E n \in Names, v \in Values : Add(n, v) \/ Edit(n, v)
          \/ \E n \in Names : Remove(n) \/ SetDefault(n)
          \/ \E v \in Levels : SetLogLevel(v)
          \/ \E v \in BOOLEAN : SetCopy(v)

Spec == Init /\ [][Next]_cfg
=============================================================================
