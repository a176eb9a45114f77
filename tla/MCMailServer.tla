---------------------------- MODULE MCMailServer ----------------------------
(* A small instance of MailServer: two requests, hashes of two bytes. *)
EXTENDS MailServer

Historic == [id |-> <<1, 2>>, kind |-> "historic", timeout |-> TRUE]
Messages == [id |-> <<2, 1>>, kind |-> "messages", timeout |-> FALSE]
MCRequest == {Historic, Messages}

MCPrefix == <<0>>

CONSTANTS m1, m2
MCBatch == {<<m1, m2>>}

(* A result with a cursor, one whose cursor is too long, and a failure. *)
Page(cursor) == [failed |-> FALSE, text |-> << >>, last |-> <<3, 3>>, cursor |-> cursor]
Failure == [failed |-> TRUE, text |-> <<9>>, last |-> << >>, cursor |-> << >>]
MCResponse ==
    {[id |-> Historic.id, result |-> Page(<<7, 7, 7>>)],
     [id |-> Messages.id, result |-> Page(<<7, 7, 7, 7>>)],
     [id |-> Messages.id, result |-> Failure]}
=============================================================================
