------------------------- MODULE MCDefinitionsSync -------------------------
(* Two feature flags, one of which uses a rule-based segment, or none. *)
EXTENDS DefinitionsSync
CONSTANTS f1, f2, r1
MCFlags == {f1, f2}
MCRBSegments == {r1}
MCUses == [x \in MCFlags |-> IF x = f2 THEN MCRBSegments ELSE {}]
NoUses == [x \in MCFlags |-> {}]
=============================================================================
