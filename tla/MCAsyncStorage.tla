---------------------------- MODULE MCAsyncStorage ----------------------------
EXTENDS AsyncStorage

MCRules ==
  {[name |-> "f", trafficType |-> "user", sets |-> {"a", "b"}],
   [name |-> "f", trafficType |-> "account", sets |-> {"b"}],
   [name |-> "g", trafficType |-> "user", sets |-> {"a"}]}
MCLists == [i1 |-> "impressions", i2 |-> "impressions", e |-> "events", u1 |-> "uniqueKeys", u2 |-> "uniqueKeys"]
MCListOf == [t \in Thing |-> MCLists[t]]
=============================================================================
