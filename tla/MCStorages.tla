----------------------------- MODULE MCStorages -----------------------------
EXTENDS Storages

MCTills == [h \in Hashes |-> IF h = "h1" THEN {1, 2} ELSE {11}]
MCRules ==
  {[name |-> "f", trafficType |-> "user", sets |-> {"a", "b"}, matchers |-> {"IN_SEGMENT"}, segments |-> {1},
    excluded |-> {}],
   [name |-> "f", trafficType |-> "account", sets |-> {"b"}, matchers |-> {"WHITELIST"}, segments |-> {},
    excluded |-> {}],
   [name |-> "f", trafficType |-> "user", sets |-> {"a"}, matchers |-> {"WHITELIST"}, segments |-> {},
    excluded |-> {}],
   [name |-> "g", trafficType |-> "user", sets |-> {"b"}, matchers |-> {"IN_LARGE_SEGMENT"}, segments |-> {},
    excluded |-> {}]}
MCRBRules ==
  {[name |-> "r", matchers |-> {"ALL_KEYS"}, segments |-> {}, excluded |-> {1}],
   [name |-> "r", matchers |-> {"ALL_KEYS"}, segments |-> {}, excluded |-> {}]}
MCAnswers == {<<>>, <<1, 1>>, <<2>>, <<1, 2>>}
=============================================================================
