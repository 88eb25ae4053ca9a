--------------------------- MODULE MCEffectsOrder ---------------------------
(***************************************************************************)
(* EffectQueue for TLC: a page that fades its element out and in, at the   *)
(* end of the queue or beside what is queued there.                        *)
(***************************************************************************)
EXTENDS EffectQueue

MCPages ==
    {[kinds |-> {"Fade", "Appear"}, positions |-> {"parallel", "end"}, limits |-> {0}, most |-> 3]}
=============================================================================
