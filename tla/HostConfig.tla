----------------------------- MODULE HostConfig -----------------------------
(***************************************************************************)
(* The configuration value of src/core/config.c: the struct                *)
(* hostman_config_t as the operations on it see it, what config_to_json    *)
(* prints of it and what parse_config makes of that text again.            *)
(*                                                                         *)
(* A host keeps its name and one of its properties, endpoint, which stands *)
(* for the seven strings "config set hosts.<name>.<property>" may change.  *)
(* Of the global keys, default_host, log_level and copy_to_clipboard are   *)
(* kept; version, log_file and clipboard_manager are set as log_level is.  *)
(***************************************************************************)
EXTENDS Naturals, Sequences, FiniteSets

CONSTANTS
    Names,      \* the names a host may be given
    EmptyName,  \* the name "", which an imported file may carry
    Values,     \* the values of a host's property
    Levels,     \* the values of log_level
    NoName,     \* default_host == NULL
    NullHost,   \* a slot of hosts[] that holds NULL
    FreedHost   \* a slot of hosts[] that points to a host already freed

Host == [name : Names, endpoint : Values]

ASSUME SentinelsAreDistinct ==
    /\ NoName \notin Names
    /\ NullHost \notin Host
    /\ FreedHost \notin Host
    /\ NullHost # FreedHost
    /\ "INFO" \in Levels

Slot == Host \union {NullHost, FreedHost}

\* hosts[0 .. host_count - 1] is the sequence hosts, whose first index is 1.
Config == [hosts : Seq(Slot),
           default_host : Names \union {NoName},
           log_level : Levels,
           copy_to_clipboard : BOOLEAN]

\* What the wizard saves and what the setters start from when nothing loads.
FreshConfig == [hosts |-> <<>>,
                default_host |-> NoName,
                log_level |-> "INFO",
                copy_to_clipboard |-> TRUE]

\* The indices that the test "config->hosts[i] &&" lets through.
Filled(c) == {i \in DOMAIN c.hosts : c.hosts[i] \in Host}

NamesOf(c) == {c.hosts[i].name : i \in Filled(c)}

\* The search loops stop at the first slot that carries the name.
IndexOf(c, n) ==
    CHOOSE i \in Filled(c) :
        /\ c.hosts[i].name = n
        /\ \A j \in Filled(c) : c.hosts[j].name = n => i <= j

-----------------------------------------------------------------------------
(* The file: printing and parsing.                                         *)

\* The entries of s at the indices K, in their order.
Kept(s, K) ==
    [k \in 1 .. Cardinality(K) |->
        s[CHOOSE i \in K : Cardinality({j \in K : j <= i}) = k]]

\* Mutant of ConfigToJson: copy_to_clipboard is never printed.
ConfigToJsonNoClipboard(c) ==
    [c EXCEPT !.hosts = Kept(@, Filled(c)), !.copy_to_clipboard = TRUE]

\* Mutant of ConfigToJson: the loop over hosts[] ends one slot early.
ConfigToJsonOneShort(c) ==
    [c EXCEPT !.hosts = Kept(@, Filled(c) \ {Len(@)})]

\* config_to_json leaves out the empty slots.
ConfigToJson(c) == [c EXCEPT !.hosts = Kept(@, Filled(c))]

\* parse_config sizes hosts[] for every entry of the object and compacts the
\* entries parse_host_config accepts, which leaves NULL slots behind them.
ParseConfig(c) ==
    LET accepted == {i \in Filled(c) : c.hosts[i].name # EmptyName}
        parsed   == Kept(c.hosts, accepted)
    IN  [c EXCEPT !.hosts =
            [k \in DOMAIN @ |->
                IF k <= Cardinality(accepted) THEN parsed[k] ELSE NullHost]]

-----------------------------------------------------------------------------
(* The changes of a configuration in memory.                               *)

AddHost(c, h) ==
    [c EXCEPT !.hosts = Append(@, h),
              !.default_host =
                  IF c.hosts = <<>> /\ @ = NoName THEN h.name ELSE @]

\* Mutant of RemoveHost: default_host is left as it was.
RemoveHostKeepingDefault(c, n) ==
    LET i == IndexOf(c, n)
    IN  [c EXCEPT !.hosts =
            [j \in 1 .. Len(@) - 1 |-> IF j < i THEN @[j] ELSE @[j + 1]]]

\* The slots behind the removed one move up; a default that is gone becomes
\* the host now in the first slot, if there is one.
RemoveHost(c, n) ==
    LET i    == IndexOf(c, n)
        rest == [j \in 1 .. Len(c.hosts) - 1 |->
                    IF j < i THEN c.hosts[j] ELSE c.hosts[j + 1]]
    IN  [c EXCEPT
            !.hosts = rest,
            !.default_host =
                IF @ # n THEN @
                ELSE IF Len(c.hosts) > 1 /\ rest[1] \in Host
                     THEN rest[1].name
                     ELSE NoName]

SetDefaultHost(c, n) == [c EXCEPT !.default_host = n]

SetEndpoint(c, n, v) ==
    LET i == IndexOf(c, n)
    IN  [c EXCEPT !.hosts[i] = [name |-> n, endpoint |-> v]]

\* Mutant of SetLevel: the old string is freed and the new one not duplicated.
SetLevelToNull(c, v) == [c EXCEPT !.log_level = NoName]

SetLevel(c, v) == [c EXCEPT !.log_level = v]

SetClipboard(c, v) == [c EXCEPT !.copy_to_clipboard = v]

\* hosts_add frees the host it could not add, config_add_host has left the
\* pointer in the last slot.
FreeLastHost(c) == [c EXCEPT !.hosts[Len(c.hosts)] = FreedHost]

-----------------------------------------------------------------------------
(* What a configuration must satisfy.                                      *)

Intact(c) == \A i \in DOMAIN c.hosts : c.hosts[i] # FreedHost

Listable(c) == \A i \in DOMAIN c.hosts : c.hosts[i] \in Host

DefaultExists(c) == c.default_host # NoName => c.default_host \in NamesOf(c)

DefaultChosen(c) == NamesOf(c) # {} => c.default_host # NoName

NamesUnique(c) ==
    \A i, j \in Filled(c) : c.hosts[i].name = c.hosts[j].name => i = j
=============================================================================
