---------------------------- MODULE MCAdminStore ----------------------------
(* One entry in the config file; the database is empty, or has one backend  *)
(* from an earlier run. Feeds are empty, good, or end in a link that panics.*)
EXTENDS AdminStore

CONSTANTS a0, a1

Good == [scheme |-> "url", user |-> TRUE, addr |-> a1, valid |-> TRUE]
Broken == [scheme |-> "url", user |-> TRUE, addr |-> a1, valid |-> FALSE]

MCFeeds == {<<>>, <<Good>>, <<Good, Broken>>}
MCFirstFeeds == {<<Good>>}
MCCfg == <<TRUE>>
MCTables == {{}, {[id |-> 1, addr |-> a1, primary |-> TRUE, enabled |-> TRUE]}}
=============================================================================
