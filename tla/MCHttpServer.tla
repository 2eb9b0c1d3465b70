---------------------------- MODULE MCHttpServer ----------------------------
(* HttpServer for TLC: no middleware of the application, that of lib, or one of *)
(* its own around the token middleware.                                         *)
EXTENDS HttpServer

MiddlewareChoices == {<<>>, <<"limitBody", "auth">>, <<"auth", "custom">>}
=============================================================================
