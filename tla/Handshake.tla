------------------------------ MODULE Handshake ------------------------------
(***************************************************************************)
(* The subprotocol negotiation of one connection: the builders, the        *)
(* upgrade request, the server's choice and the client's verdict, for      *)
(* every pair of a client and a server of the repository.                  *)
(*                                                                         *)
(* Clients: native (websock-tungstenite-mux), browser (websock-wasm-mux)   *)
(* and plain (websock-tungstenite).  Servers: mux (websock-tungstenite-mux)*)
(* and plain (websock-tungstenite).  Left out: request and response        *)
(* headers other than the subprotocol, TLS, invalid header values, limits, *)
(* and names that differ only in case.                                     *)
(***************************************************************************)
EXTENDS Integers, Sequences, SequencesExt

CONSTANTS
    Mux,         \* SUBPROTOCOL, "websock-mux-1"
    Others,      \* other subprotocols
    None,        \* no subprotocol
    MaxProtocols \* bound: entries of a list of protocols

Protocols == Others \cup {Mux}
Lists == SeqOf(Protocols, MaxProtocols)

VARIABLES
    client,  \* kind of the client and the list its builder holds
    server,  \* kind of the server and the list its builder holds
    wire,    \* what crossed last: idle, request, accepted, refused
    chosen,  \* the subprotocol in the response
    cres,    \* what connect returned: pending, session, conn, error
    sres     \* what bind and accept returned

vars == <<client, server, wire, chosen, cres, sres>>

-----------------------------------------------------------------------------
(* Builders *)

(* ClientBuilder::new and ServerBuilder::new *)
New(kind) ==
    [kind |-> kind, protocols |-> IF kind = "plain" THEN <<>> ELSE <<Mux>>]

Init ==
    /\ client \in {New(k) : k \in {"native", "browser", "plain"}}
    /\ server \in {New(k) : k \in {"mux", "plain"}}
    /\ wire = "idle" /\ chosen = None /\ cres = "pending" /\ sres = "building"

(* with_options of the native builders and of the browser's: a missing      *)
(* SUBPROTOCOL goes first or last.                                          *)
PutFirst(list) == IF Contains(list, Mux) THEN list ELSE <<Mux>> \o list
PutLast(list)  == IF Contains(list, Mux) THEN list ELSE Append(list, Mux)

WithOptions(builder, list) ==
    [builder EXCEPT !.protocols = CASE builder.kind = "plain" -> list
                                    [] builder.kind = "browser" -> PutLast(list)
                                    [] OTHER -> PutFirst(list)]

WithProtocol(builder, p) == [builder EXCEPT !.protocols = Append(@, p)]

ConfigureClient ==
    /\ wire = "idle"
    /\ \/ \E list \in Lists : client' = WithOptions(client, list)
       \/ \E p \in Protocols : /\ client.kind # "browser"
                               /\ Len(client.protocols) < MaxProtocols
                               /\ client' = WithProtocol(client, p)
    /\ UNCHANGED <<server, wire, chosen, cres, sres>>

ConfigureServer ==
    /\ sres = "building"
    /\ \/ \E list \in Lists : server' = WithOptions(server, list)
       \/ \E p \in Protocols : /\ Len(server.protocols) < MaxProtocols
                               /\ server' = WithProtocol(server, p)
    /\ UNCHANGED <<client, wire, chosen, cres, sres>>

-----------------------------------------------------------------------------
(* bind, connect, accept *)

Bind ==
    /\ sres = "building"
    /\ sres' = IF server.kind = "mux" /\ ~Contains(server.protocols, Mux)
               THEN "error" ELSE "listening"
    /\ UNCHANGED <<client, server, wire, chosen, cres>>

(* The list is joined into one header of the upgrade request. *)
Upgrade ==
    /\ wire = "idle" /\ sres = "listening" /\ wire' = "request"
    /\ UNCHANGED <<client, server, chosen, cres, sres>>

ConnectNative == client.kind = "native" /\ Upgrade
ConnectPlain  == client.kind = "plain" /\ Upgrade

(* The constructor of the browser's WebSocket throws on a repeated name. *)
ConnectBrowser ==
    /\ client.kind = "browser" /\ cres = "pending"
    /\ \/ IsInjective(client.protocols) /\ Upgrade
       \/ /\ ~IsInjective(client.protocols) /\ wire = "idle"
          /\ cres' = "error"
          /\ UNCHANGED <<client, server, wire, chosen, sres>>

(* The first requested protocol that is allowed.  No protocol is requested  *)
(* when the list is empty, and none found when nothing is allowed.          *)
SelectProtocol(requested, allowed) ==
    LET found == SelectSeq(requested, LAMBDA p : Contains(allowed, p)) IN
    IF found = <<>> THEN None ELSE Head(found)

AcceptPlain ==
    /\ server.kind = "plain" /\ wire = "request"
    /\ chosen' = SelectProtocol(client.protocols, server.protocols)
    /\ wire' = "accepted" /\ sres' = "conn"
    /\ UNCHANGED <<client, server, cres>>

AcceptMux ==
    /\ server.kind = "mux" /\ wire = "request"
    /\ LET p == SelectProtocol(client.protocols, server.protocols) IN
       \/ /\ p # Mux
          /\ wire' = "refused" /\ sres' = "error" /\ UNCHANGED chosen
       \/ /\ p = Mux
          /\ wire' = "accepted" /\ sres' = "session" /\ chosen' = p
    /\ UNCHANGED <<client, server, cres>>

(* tungstenite and the browser fail the handshake when protocols were       *)
(* requested and none of them was chosen, or one that was not requested.    *)
Verified == IF client.protocols = <<>> THEN chosen = None
            ELSE Contains(client.protocols, chosen)

Refused ==
    /\ cres = "pending"
    /\ wire = "refused" \/ (wire = "accepted" /\ ~Verified)
    /\ cres' = "error"
    /\ UNCHANGED <<client, server, wire, chosen, sres>>

Connected(kind, result) ==
    /\ client.kind = kind /\ cres = "pending"
    /\ wire = "accepted" /\ Verified
    /\ cres' = result
    /\ UNCHANGED <<client, server, wire, chosen, sres>>

NativeConnected  == Connected("native", IF chosen = Mux THEN "session" ELSE "error")
PlainConnected   == Connected("plain", "conn")
(* Session::new takes the connection as it is. *)
BrowserConnected == Connected("browser", "session")

Next == \/ ConfigureClient \/ ConfigureServer
        \/ Bind \/ ConnectNative \/ ConnectPlain \/ ConnectBrowser
        \/ AcceptPlain \/ AcceptMux \/ Refused
        \/ NativeConnected \/ PlainConnected \/ BrowserConnected

Spec == Init /\ [][Next]_vars

-----------------------------------------------------------------------------
(* docs/mux-protocol.md: "A connection using this protocol MUST negotiate   *)
(* the WebSocket subprotocol": whoever has a mux Session has negotiated it, *)
(* whatever the builders were given and in which order.                     *)
MuxNegotiated == "session" \in {cres, sres} => chosen = Mux

=============================================================================
