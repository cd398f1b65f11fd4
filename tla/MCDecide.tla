------------------------------ MODULE MCDecide ------------------------------
EXTENDS Decide

CONSTANTS same, other, none

MCTitles == {same, other, none}
MCYears == {0, 2000, 2001, 2002}
MCCerts == {<<>>, <<"", "12">>, <<"15">>}
=============================================================================
