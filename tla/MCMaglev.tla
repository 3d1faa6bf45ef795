------------------------------ MODULE MCMaglev ------------------------------
EXTENDS Maglev

(* No backend, one, two or three. *)
MCMaxSize == <<9, 9, 7, 5>>
=============================================================================
