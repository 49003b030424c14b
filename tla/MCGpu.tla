------------------------------- MODULE MCGpu -------------------------------
(***************************************************************************)
(* Two cores of four threads.  The first kernel runs one block at a time   *)
(* on a core, so that its third block goes to the core that first ends     *)
(* one; the second kernel fills the first core with two blocks.  There are *)
(* blocks with one barrier, with two in a row and with one at the end.     *)
(***************************************************************************)
EXTENDS Gpu

MCProgram ==
    << << << <<"bar", "bar", "op">>, <<"bar", "bar">> >>,
          << <<"br", "op">> >>,
          << <<"bar", "op">>, <<"bar">>, <<"bar">> >> >>,
       << << <<"bar", "op">>, <<"bar">> >>,
          << <<"op">> >>,
          << <<"op">>, <<"br">> >> >> >>

MCMaxBlock == <<1, 2>>
=============================================================================
