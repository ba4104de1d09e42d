------------------------------ MODULE Transfer ------------------------------
(***************************************************************************)
(* bot_http_download (services/botnet, http.c and tcp.c): connecting to    *)
(* the addresses of a host in turn, TLS, the request, the response read    *)
(* into a growing buffer until the connection ends, redirects, the file.   *)
(*                                                                         *)
(* The server answers as it likes, cuts the connection, stalls or never    *)
(* stops sending.  A response is a header of HeaderLen units followed by   *)
(* the units of its body.                                                  *)
(***************************************************************************)
EXTENDS Integers

CONSTANTS
    Url, TlsUrl,    \* URLs with a host, and those of them with https
    NoHost,         \* a URL without, as in a relative Location
    TypeUrl,        \* a Content-Type, read as a URL
    NoUrl,
    Addresses,      \* number of addresses of a host
    MaxRedirects,   \* HTTP_MAX_REDIRECTS
    InitialBuf, MaxResponse,    \* HTTP_INITIAL_BUF_SIZE, HTTP_MAX_RESPONSE_SIZE
    Chunk,          \* most that one receive returns
    HeaderLen,
    Bodies, Endless \* lengths of bodies; a body that never ends

ASSUME TransferAssumption ==
    /\ TlsUrl \subseteq Url /\ TypeUrl \in Url /\ NoHost \notin Url /\ NoUrl \notin Url \cup {NoHost}
    /\ Addresses \in Nat \ {0} /\ MaxRedirects \in Nat
    /\ InitialBuf \in Nat \ {0} /\ MaxResponse \in Nat /\ InitialBuf <= MaxResponse
    /\ Chunk \in Nat \ {0} /\ HeaderLen \in Nat \ {0}
    /\ Bodies \subseteq Nat /\ Endless \in Nat /\ Endless > MaxResponse

VARIABLES
    step,       \* where the call is
    url, hops,  \* of the current request
    addrs,      \* addresses not tried yet
    socks,      \* open sockets
    tls,        \* SSL_CTX and SSL objects are allocated
    answer,     \* what the server sends
    stalled,    \* it neither sends nor closes any more
    cut,        \* the last response was cut short
    buf,        \* response_buf_t while it is allocated, size and capacity
    resp,       \* the bot_http_response_t: whether it holds memory, and body_size
    result,     \* of the call
    file,       \* length written to the target, or Untouched
    lost        \* fclose could not write the end of it

netVars == <<step, url, hops, addrs, socks, tls, answer, stalled, cut, buf, resp, result, file,
             lost>>

Answer == [status : {"ok", "redirect", "other"}, location : Url \cup {NoHost, NoUrl},
           typed : BOOLEAN, body : Bodies \cup {Endless}]

NoAnswer == [status |-> "other", location |-> NoUrl, typed |-> FALSE, body |-> 0]

NoBuf == [size |-> 0, cap |-> 0]

Untouched == -1

Freed == [held |-> FALSE, body |-> 0]

TransferInit ==
    /\ step = "request" /\ url \in Url /\ hops = 0 /\ addrs = 0
    /\ socks = 0 /\ tls = FALSE
    /\ answer = NoAnswer /\ stalled = FALSE /\ cut = FALSE
    /\ buf = NoBuf /\ resp = Freed
    /\ result = "none" /\ file = Untouched /\ lost = FALSE

Fails == step' = "done" /\ result' = "failed"

Connection == <<socks, tls>>

-----------------------------------------------------------------------------
(* The start of http_request: the limit, parse_url.                        *)
http_request ==
    /\ step = "request"
    /\ IF hops > MaxRedirects \/ url = NoHost
       THEN Fails /\ UNCHANGED addrs
       ELSE step' = "connect" /\ addrs' = Addresses /\ UNCHANGED result
    /\ UNCHANGED <<url, hops, Connection, answer, stalled, cut, buf, resp, file, lost>>

(* bot_tcp_connect.  The socket of an address that refuses, or does not    *)
(* answer for 15 seconds, is closed before the next is tried; the name may *)
(* also have no address at all.                                            *)
bot_tcp_connect ==
    /\ step = "connect"
    /\ \/ /\ socks' = socks + 1
          /\ step' = IF url \in TlsUrl THEN "handshake" ELSE "send"
          /\ UNCHANGED <<addrs, result>>
       \/ /\ addrs' = addrs - 1
          /\ IF addrs = 1 THEN Fails ELSE UNCHANGED <<step, result>>
          /\ UNCHANGED socks
       \/ addrs = Addresses /\ Fails /\ UNCHANGED <<addrs, socks>>
    /\ UNCHANGED <<url, hops, tls, answer, stalled, cut, buf, resp, file, lost>>

(* Every failure from here on closes what is open.                         *)
Hangup == socks' = socks - 1 /\ tls' = FALSE

(* Mutant of Handshake: a failure leaves the socket open. *)
HandshakeLeaks ==
    /\ step = "handshake"
    /\ \/ tls' = TRUE /\ step' = "send" /\ UNCHANGED <<socks, result>>
       \/ Fails /\ UNCHANGED Connection
    /\ UNCHANGED <<url, hops, addrs, answer, stalled, cut, buf, resp, file, lost>>

Handshake ==
    /\ step = "handshake"
    /\ \/ tls' = TRUE /\ step' = "send" /\ UNCHANGED <<socks, result>>
       \/ Hangup /\ Fails
    /\ UNCHANGED <<url, hops, addrs, answer, stalled, cut, buf, resp, file, lost>>

(* bot_tcp_send or SSL_write send all of it or fail.                       *)
SendRequest ==
    /\ step = "send"
    /\ \/ /\ answer' \in Answer
          /\ buf' = [size |-> 0, cap |-> InitialBuf]
          /\ step' = "read" /\ UNCHANGED <<Connection, result>>
       \/ Hangup /\ Fails /\ UNCHANGED <<answer, buf>>
    /\ UNCHANGED <<url, hops, addrs, stalled, cut, resp, file, lost>>

(* Capacities that doubling reaches from capacity c, and the limit. *)
Capacities(c) ==
    {MaxResponse} \cup {n \in c .. MaxResponse : \E k \in 0 .. MaxResponse : n = c * 2 ^ k}

(* rbuf_append doubles until size fits; 0 when it never does. *)
Grown(size, c) ==
    LET fits == {n \in Capacities(c) : size < n}
    IN  IF fits = {} THEN 0 ELSE CHOOSE n \in fits : \A m \in fits : n <= m

Left == HeaderLen + answer.body - buf.size

(* One receive of http_read_response, and rbuf_append, which keeps room    *)
(* for a terminating zero.                                                 *)
Receive ==
    /\ step = "read" /\ ~stalled /\ Left > 0
    /\ \E n \in 1 .. Chunk :
         /\ n <= Left
         /\ LET cap == Grown(buf.size + n, buf.cap) IN
            IF cap = 0
            THEN Hangup /\ Fails /\ buf' = NoBuf
            ELSE buf' = [size |-> buf.size + n, cap |-> cap] /\ UNCHANGED <<Connection, step, result>>
    /\ UNCHANGED <<url, hops, addrs, answer, stalled, cut, resp, file, lost>>

ServerStalls ==
    /\ step = "read" /\ Left > 0 /\ ~stalled
    /\ stalled' = TRUE
    /\ UNCHANGED <<step, url, hops, addrs, Connection, answer, cut, buf, resp, result, file, lost>>

(* The end of the response is the end of the connection, an error, or 30   *)
(* seconds without data; but SSL_read asks to be called again then.        *)
ResponseEnds ==
    /\ step = "read"
    /\ stalled => ~tls
    /\ step' = "parse" /\ cut' = (Left > 0)
    /\ UNCHANGED <<url, hops, addrs, Connection, answer, stalled, buf, resp, result, file, lost>>

(* Where a redirect leads: the Content-Type is what is left in the         *)
(* response when there is no Location.                                     *)
Target ==
    IF answer.status # "redirect" THEN NoUrl
    ELSE IF answer.location # NoUrl THEN answer.location
    ELSE IF answer.typed THEN TypeUrl ELSE NoUrl

(* Mutant of Parse: redirects are not counted. *)
ParseUncounted ==
    /\ step = "parse"
    /\ Hangup /\ buf' = NoBuf /\ stalled' = FALSE
    /\ IF buf.size < HeaderLen THEN Fails /\ UNCHANGED <<resp, url>>
       ELSE IF Target # NoUrl
       THEN url' = Target /\ resp' = Freed /\ step' = "request" /\ UNCHANGED result
       ELSE /\ resp' = [held |-> TRUE, body |-> buf.size - HeaderLen]
            /\ step' = "store" /\ UNCHANGED <<result, url>>
    /\ UNCHANGED <<hops, addrs, answer, cut, file, lost>>

(* The rest of http_read_response and of http_request.                     *)
Parse ==
    /\ step = "parse"
    /\ Hangup /\ buf' = NoBuf /\ stalled' = FALSE
    /\ IF buf.size < HeaderLen
       THEN Fails /\ UNCHANGED <<resp, url, hops>>
       ELSE IF Target # NoUrl
       THEN /\ url' = Target /\ hops' = hops + 1 /\ resp' = Freed
            /\ step' = "request" /\ UNCHANGED result
       ELSE /\ resp' = [held |-> TRUE, body |-> buf.size - HeaderLen]
            /\ step' = "store" /\ UNCHANGED <<result, url, hops>>
    /\ UNCHANGED <<addrs, answer, cut, file, lost>>

(* The rest of bot_http_download: the target is truncated when it is       *)
(* opened, and the disk may be full.  fwrite says so of what it passes on; *)
(* what it keeps in its buffer is written by fclose, whose result is not   *)
(* looked at.                                                              *)
bot_http_download ==
    /\ step = "store"
    /\ resp' = Freed
    /\ IF answer.status # "ok" \/ resp.body = 0
       THEN Fails /\ UNCHANGED <<file, lost>>
       ELSE \/ Fails /\ UNCHANGED <<file, lost>>
            \/ Fails /\ file' \in 0 .. resp.body - 1 /\ UNCHANGED lost
            \/ /\ step' = "done" /\ result' = "ok"
               /\ \/ file' = resp.body /\ UNCHANGED lost
                  \/ file' \in 0 .. resp.body - 1 /\ lost' = TRUE
    /\ UNCHANGED <<url, hops, addrs, Connection, answer, stalled, cut, buf>>

ClientStep ==
    \/ http_request \/ bot_tcp_connect \/ Handshake \/ SendRequest \/ Receive
    \/ ResponseEnds \/ Parse \/ bot_http_download

TransferNext == ClientStep \/ ServerStalls

(* Each call of the library returns; the server has to do nothing.         *)
TransferSpec == TransferInit /\ [][TransferNext]_netVars /\ WF_netVars(ClientStep)

-----------------------------------------------------------------------------
TransferTypeOK ==
    /\ step \in {"request", "connect", "handshake", "send", "read", "parse", "store", "done"}
    /\ url \in Url \cup {NoHost} /\ hops \in 0 .. MaxRedirects + 1 /\ addrs \in 0 .. Addresses
    /\ socks \in Nat /\ tls \in BOOLEAN /\ answer \in Answer \cup {NoAnswer}
    /\ stalled \in BOOLEAN /\ cut \in BOOLEAN
    /\ buf \in [size : Nat, cap : 0 .. MaxResponse]
    /\ resp \in [held : BOOLEAN, body : Nat]
    /\ result \in {"none", "ok", "failed"} /\ file \in Nat \cup {Untouched}
    /\ lost \in BOOLEAN

(***************************************************************************)
(* Whatever fails, at whichever request of a chain of redirects, sockets,  *)
(* TLS objects and buffers are given back: never two connections at once,  *)
(* and nothing left when the call returns.                                 *)
(***************************************************************************)
NothingLeaks ==
    /\ socks <= 1 /\ (tls => socks = 1)
    /\ step \in {"request", "done"} => socks = 0 /\ buf = NoBuf /\ ~resp.held

(***************************************************************************)
(* The response and its terminating zero fit the buffer, however the       *)
(* pieces arrive and grow past the doubled capacity, up to the limit.      *)
(***************************************************************************)
ResponseFits == step \in {"read", "parse"} => buf.size < buf.cap /\ buf.cap <= MaxResponse

(***************************************************************************)
(* The call returns: however often it is sent elsewhere, or back, however  *)
(* the server drips, never stops or falls silent.  The exception is a      *)
(* server that falls silent over TLS: it is asked again without end.       *)
(***************************************************************************)
DownloadReturns == <>(step = "done" \/ (stalled /\ tls))

(***************************************************************************)
(* A download that succeeds is the body that the last server sent, unless  *)
(* the connection was cut or the end of the file did not get onto the disk *)
(* with fclose (http.c:549-552), and then is shorter: never longer and     *)
(* never of another response; one that fails before the file is opened     *)
(* leaves the old file alone.                                              *)
(***************************************************************************)
FileIsBody ==
    /\ result = "ok" /\ ~cut /\ ~lost => file = answer.body
    /\ result = "ok" => answer.status = "ok" /\ file <= answer.body
    /\ file # Untouched => step = "done" /\ answer.status = "ok"

(* What the call has at each point of it, and what it knows of the answer. *)
InPlace ==
    /\ step \notin {"request", "done"} => hops <= MaxRedirects
    /\ step = "connect" => addrs > 0
    /\ socks = IF step \in {"handshake", "send", "read", "parse"} THEN 1 ELSE 0
    /\ tls => step \in {"send", "read", "parse"}
    /\ buf # NoBuf => step \in {"read", "parse"}
    /\ resp.held <=> step = "store"
    /\ step \in {"read", "parse", "store"} => answer \in Answer
    /\ step \in {"read", "parse"} => Left >= 0
    /\ step = "parse" /\ ~cut => Left = 0
    /\ step = "store" => resp.body <= answer.body
    /\ step = "store" /\ ~cut => resp.body = answer.body
    /\ step # "done" => result = "none" /\ file = Untouched /\ ~lost

(* What one download leaves behind, on every way out of it: no socket, no  *)
(* session and no response of a redirect; nothing beyond the buffer; and   *)
(* in the file the body that the server sent, as far as connection and     *)
(* disk let it through.                                                    *)
TransferInv == TransferTypeOK /\ InPlace /\ NothingLeaks /\ ResponseFits /\ FileIsBody
=============================================================================
