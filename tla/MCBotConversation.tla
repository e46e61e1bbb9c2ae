------------------------- MODULE MCBotConversation -------------------------
(* Two moves, and one button that no part has.                             *)
EXTENDS BotConversation

MCButtons == {<<"shoulder", "up">>, <<"forearm", "rotate">>, <<"manipulator", "rotate">>}
=============================================================================
