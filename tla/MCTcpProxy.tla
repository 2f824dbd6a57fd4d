----------------------------- MODULE MCTcpProxy -----------------------------
EXTENDS TcpProxy

MCPortRoutes == [both |-> [p1 |-> {"t1"}, p2 |-> {"t2"}], one |-> [p1 |-> {"t1", "t2"}, p2 |-> {}]]
MCSniRoutes == [both |-> [example |-> {"t1"}], one |-> [example |-> {"t2"}]]

\* A hello of a given length, without extensions unless said otherwise.
Hello(handshake, compression) ==
    [content |-> 22, type |-> 1, record |-> handshake + 4, handshake |-> handshake, 
     session |-> 0, suites |-> 2, compression |-> compression, extensions |-> 0, exts |-> << >>]
Named == [Hello(60, 1) EXCEPT !.extensions = 17,
            !.exts = <<[type |-> 16, length |-> 2, names_length |-> 0, names |-> << >>],
                       [type |-> 0, length |-> 7, names_length |-> 5,
                        names |-> <<[type |-> 0, length |-> 2, name |-> "example"]>>]>>]
MCShape == [named |-> Named,                               \* names a server
            short |-> Hello(42, 9),                        \* a length beyond the end
            plain |-> [Named EXCEPT !.content = 71]]       \* no TLS at all
MCBoundaries ==
    {[content |-> 22, type |-> 1, record |-> h + 4, handshake |-> h, session |-> sid, suites |-> cs,
      compression |-> cm, extensions |-> x, exts |-> e] :
        h \in {37, 38, 39, 40, 41, 42, 44, 46, 48, 70, 72}, sid \in {0, 1, 32, 33}, cs \in 0 .. 3, cm \in 0 .. 2,
        x \in {0, 1, 4, 6}, e \in {<< >>, <<[type |-> 16, length |-> 2, names_length |-> 0, names |-> << >>]>>}}
=============================================================================
