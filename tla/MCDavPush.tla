----------------------------- MODULE MCDavPush ------------------------------
(***************************************************************************)
(* Values for model-checking DavPush.                                      *)
(***************************************************************************)
EXTENDS PushClaims, TLC

CONSTANTS c1, c2, c3, t1, t2, t3

Settings(enabled, url, calendars) ==
    [davpush_enabled |-> enabled, callback_url |-> url, calendars |-> calendars]

All     == Settings(TRUE, TRUE, {})
OnlyOne == Settings(TRUE, TRUE, {c1})
NoUrl   == Settings(TRUE, FALSE, {})

AllConfigurations == {All, OnlyOne, NoUrl}
OneConfiguration  == {All}
=============================================================================
