----------------------------- MODULE TLSContext -----------------------------
(***************************************************************************)
(* WebSocketTLSContext: a move-only owner of one SSL_CTX.                  *)
(*                                                                         *)
(* Objects are WebSocketTLSContext instances, each unborn, live or         *)
(* destroyed; ctx[o] is its _ctx member.  SSL_CTX_new hands out a context  *)
(* from Ctxs never handed out before; nfree counts the SSL_CTX_free calls  *)
(* per context.  The options only decide which OpenSSL calls init makes,   *)
(* and each of those calls may fail, so init has three outcomes:           *)
(* SSL_CTX_new fails, a later step fails (the context is freed), or the    *)
(* context is installed.  createSsl only reads _ctx (SSL_new takes its own *)
(* reference on the SSL_CTX) and changes no state of the object.           *)
(***************************************************************************)
EXTENDS Naturals, FiniteSets

CONSTANTS Objects, Ctxs, Null

ASSUME Null \notin Ctxs

VARIABLES life, ctx, allocated, nfree

vars == <<life, ctx, allocated, nfree>>

\* SSL_CTX_free(c).
Free(c) == nfree' = [nfree EXCEPT ![c] = @ + 1]

\* reset(): free the held context, if any, and clear _ctx.
ResetOf(o) ==
  /\ IF ctx[o] # Null THEN Free(ctx[o]) ELSE UNCHANGED nfree
  /\ ctx' = [ctx EXCEPT ![o] = Null]

TLSInit ==
  /\ life = [o \in Objects |-> "unborn"]
  /\ ctx = [o \in Objects |-> Null]
  /\ allocated = {}
  /\ nfree = [c \in Ctxs |-> 0]

\* WebSocketTLSContext() = default: _ctx{nullptr}.
Construct(o) ==
  /\ life[o] = "unborn"
  /\ life' = [life EXCEPT ![o] = "live"]
  /\ UNCHANGED <<ctx, allocated, nfree>>

\* Mutant: the source's _ctx not cleared.
MoveConstructNoSteal(o, other) ==
  /\ life[o] = "unborn" /\ life[other] = "live"
  /\ life' = [life EXCEPT ![o] = "live"]
  /\ ctx' = [ctx EXCEPT ![o] = ctx[other]]
  /\ UNCHANGED <<allocated, nfree>>

\* WebSocketTLSContext(WebSocketTLSContext&& other): take other's _ctx.
MoveConstruct(o, other) ==
  /\ life[o] = "unborn" /\ life[other] = "live"
  /\ life' = [life EXCEPT ![o] = "live"]
  /\ ctx' = [ctx EXCEPT ![o] = ctx[other], ![other] = Null]
  /\ UNCHANGED <<allocated, nfree>>

\* operator=(WebSocketTLSContext&& other): nothing on self-assignment;
\* otherwise reset() and take other's _ctx.
MoveAssign(this, other) ==
  /\ life[this] = "live" /\ life[other] = "live"
  /\ IF this = other
     THEN UNCHANGED <<ctx, nfree>>
     ELSE /\ IF ctx[this] # Null THEN Free(ctx[this]) ELSE UNCHANGED nfree
          /\ ctx' = [ctx EXCEPT ![this] = ctx[other], ![other] = Null]
  /\ UNCHANGED <<life, allocated>>

\* reset() called by the owner.
Reset(o) ==
  /\ life[o] = "live"
  /\ ResetOf(o)
  /\ UNCHANGED <<life, allocated>>

\* The contexts SSL_CTX_new may return (bounded by Ctxs).
Fresh == Ctxs \ allocated

\* Mutant: init without its initial reset().
InitNoReset(o) ==
  /\ life[o] = "live"
  /\ \/ UNCHANGED <<ctx, allocated, nfree>>
     \/ \E c \in Fresh :
          /\ allocated' = allocated \cup {c}
          /\ \/ ctx' = [ctx EXCEPT ![o] = c] /\ UNCHANGED nfree
             \/ Free(c) /\ UNCHANGED ctx
  /\ UNCHANGED life

\* init(opt, err): reset(); SSL_CTX_new; then the option-dependent calls,
\* any of which frees the new context and returns false on failure; on
\* success _ctx = ctx.  Which call fails is not told apart: every failure
\* path after SSL_CTX_new does the same, SSL_CTX_free(ctx); return false.
InitTLS(o) ==
  /\ life[o] = "live"
  /\ LET held == ctx[o]
         nf   == IF held # Null THEN [nfree EXCEPT ![held] = @ + 1] ELSE nfree
     IN \/ /\ ctx' = [ctx EXCEPT ![o] = Null]          \* SSL_CTX_new failed
           /\ nfree' = nf /\ UNCHANGED allocated
        \/ \E c \in Fresh :
             /\ allocated' = allocated \cup {c}
             /\ \/ /\ ctx' = [ctx EXCEPT ![o] = c]      \* installed
                   /\ nfree' = nf
                \/ /\ ctx' = [ctx EXCEPT ![o] = Null]   \* a later call failed
                   /\ nfree' = [nf EXCEPT ![c] = @ + 1]
  /\ UNCHANGED life

\* Mutant: the destructor not calling reset().
DestroyNoReset(o) ==
  /\ life[o] = "live"
  /\ life' = [life EXCEPT ![o] = "dead"]
  /\ UNCHANGED <<ctx, allocated, nfree>>

\* ~WebSocketTLSContext(): reset().
Destroy(o) ==
  /\ life[o] = "live"
  /\ life' = [life EXCEPT ![o] = "dead"]
  /\ ResetOf(o)
  /\ UNCHANGED allocated

TLSNext ==
  \/ \E o \in Objects :
       Construct(o) \/ Reset(o) \/ InitTLS(o) \/ Destroy(o)
  \/ \E o, other \in Objects : MoveConstruct(o, other) \/ MoveAssign(o, other)

TLSSpec == TLSInit /\ [][TLSNext]_vars

-----------------------------------------------------------------------------
(* Properties.                                                             *)

Holders(c) == {o \in Objects : ctx[o] = c}

\* Types, and only a live object holds a context: a destroyed object has
\* released its _ctx (~WebSocketTLSContext calls reset()).
TypeOK ==
  /\ life \in [Objects -> {"unborn", "live", "dead"}]
  /\ ctx \in [Objects -> Ctxs \cup {Null}]
  /\ allocated \subseteq Ctxs /\ nfree \in [Ctxs -> Nat]
  /\ \A o \in Objects : ctx[o] # Null => life[o] = "live"

\* No SSL_CTX is freed twice, whatever sequence of moves, self-moves,
\* re-inits, failed inits, resets and destructions the owners perform.
NoDoubleFree == \A c \in Ctxs : nfree[c] <= 1

\* Every context SSL_CTX_new returned and nobody freed is held by exactly
\* one object (no leak, no shared ownership), and no object holds a freed
\* context (no dangling _ctx for createSsl to use).
SoleOwner ==
  \A c \in allocated :
    IF nfree[c] = 0 THEN Cardinality(Holders(c)) = 1 ELSE Holders(c) = {}

=============================================================================
