----------------------------- MODULE MCDeadlines -----------------------------
\* A small instance of Deadlines: two connections, which may get the same fd one
\* after the other, two fds of one page and one beyond the table, a goroutine that
\* sets deadlines and the ticker of a server.
EXTENDS Deadlines

CONSTANTS c1, c2, s1, k1

MCConns == {c1, c2}
MCFds == 1..3
MCInRange == 1..2
MCPages == {0, 1}
MCPageOf == <<0, 0, 1>>
MCSetters == {s1}
MCScanners == {k1}

=============================================================================
