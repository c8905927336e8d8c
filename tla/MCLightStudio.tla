---------------------------- MODULE MCLightStudio ----------------------------
(***************************************************************************)
(* Model values for LightStudio: two tabs and two colours, or one.         *)
(***************************************************************************)
EXTENDS LightStudio

CONSTANTS t1, t2, off, red

MCTabs == {t1, t2}
OneTab == {t1}
Nothing == {}
MCColors == {off, red}
OneColor == {off}

=============================================================================
