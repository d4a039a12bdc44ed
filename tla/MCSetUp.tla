-------------------------------- MODULE MCSetUp --------------------------------
(* SetUp on an account whose user name is not Apple's, with an Apple alias;*)
(* one host is iCloud's, and one of the ports speaks IMAP.                 *)
EXTENDS SetUp

CONSTANTS mailHost, icloudHost, p143, p993, user, alias

BothHostsOn993 == {<<mailHost, p993>>, <<icloudHost, p993>>}
===============================================================================
