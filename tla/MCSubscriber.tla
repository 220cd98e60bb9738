---------------------------- MODULE MCSubscriber ----------------------------
(* Constants of Subscriber for TLC.                                        *)
EXTENDS Subscriber, TLC

WholeAndParts == {<<"whole", "tty">>, <<"whole", "pipe">>, <<"parts", "tty">>}
PartsOnly == {<<"parts", "tty">>}
=============================================================================
