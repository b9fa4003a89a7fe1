--------------------------- MODULE MCAnswerStream ---------------------------
EXTENDS AnswerStream
=============================================================================
