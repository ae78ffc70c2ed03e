------------------------------ MODULE MCFiles ------------------------------
(***************************************************************************)
(* Two handles on one file; files with LF, CRLF, empty and unterminated    *)
(* lines and a line longer than the buffer; one failing read.              *)
(***************************************************************************)
EXTENDS Files

MCContents == {
  << >>,
  <<"x", "\n", "x">>,
  <<"\n", "x", "\r", "\n">>,
  <<"x", "x", "x", "\n">>,
  <<"x", "\r">>}
=============================================================================
