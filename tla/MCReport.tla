------------------------------- MODULE MCReport -------------------------------
(* A small instance of Report for TLC: a list with the log, a webhook of each  *)
(* kind and a name that is not declared any more.                              *)
EXTENDS Report

Names == <<"alerts", "gone", "chatty">>

Hooks == [alerts |-> [failuresOnly |-> TRUE, urlOk |-> TRUE],
          chatty |-> [failuresOnly |-> FALSE, urlOk |-> TRUE]]
=============================================================================
