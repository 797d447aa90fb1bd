--------------------------- MODULE MCConfigManager ---------------------------
(* TLC instance of ConfigManager.                                          *)
EXTENDS ConfigManager, FiniteSets
LOCAL INSTANCE TLC

\* A bound: of the hosts, the secrets and the key of a configuration at most one
\* has a dollar sign or is empty, not counting a key that is left out.
Special == Dollar \cup {Empty}

OneSpecial(cfg) ==
    LET special == {<<i, f>> \in (DOMAIN cfg.servers) \X {"host", "secret"} :
                        cfg.servers[i][f] \in Special}
    IN  /\ \A a, b \in special : a = b
        /\ cfg.key \in Dollar => special = {}

\* Others: at most two of these at a time, a page that is open, a roll under way
\* and a save that has failed; and nothing follows an edit with a placeholder
\* out of place.
Pages == {c \in Clients : view[c] # None}
Rolls == {c \in Clients : rolling[c] # None}

Bounded ==
    /\ Up => OneSpecial(current)
    /\ file # None => OneSpecial(file)
    /\ Cardinality(Pages) + Cardinality(Rolls) + (IF unsaved THEN 1 ELSE 0) <= 2
    /\ ~shifted

ConfigSymmetry == Permutations(Clients) \cup Permutations(Ids) \cup Permutations(Keys)
=============================================================================
