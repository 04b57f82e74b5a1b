-------------------------- MODULE ConfigParserClaims --------------------------
(***************************************************************************)
(* What config_parser.h says of Parse and the code does not keep.          *)
(***************************************************************************)
EXTENDS ConfigParser

\* "Returns true iff the input config file is valid" (config_parser.h:41-42): a
\* file that ends in the middle of a statement is not, as the test of
\* "include conf/mime.types" has it (tests/config_parser_test.cc:50).
UnfinishedRejected == result = "accepted" => lex # "word"
==============================================================================
