---------------------------- MODULE MCComponent ----------------------------
(* Component for TLC: three processes for one name, and a few disturbances. *)
EXTENDS Component
=============================================================================
