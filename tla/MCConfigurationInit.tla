------------------------- MODULE MCConfigurationInit -------------------------
(* Instances of ConfigurationInit for TLC.                                 *)
EXTENDS ConfigurationInit

CONSTANTS r1, r2, r3
=============================================================================
