--------------------------------- MODULE Cli ---------------------------------
(***************************************************************************)
(* The command line tool (cmd/main.go) in a shell session: packets that    *)
(* "generate" prints are fed to "decode".                                  *)
(*                                                                         *)
(* A packet is the sequence of nodes it has yet to visit; module Sphinx    *)
(* shows that this is all there is to it for someone with the key of the   *)
(* first of them, since the tool's associated data is always the same.     *)
(***************************************************************************)
EXTENDS Integers, Sequences

CONSTANTS
  Node,          \* nodes, that is, pairs of a public and a private key
  NoNode,        \* an empty OnionHop
  NumMaxHops     \* hops of a PaymentPath

\* An argument: the hex form of a key, something else, or a hex form of 33 bytes
\* that are no point of the curve.
Argument == Node \cup {"not hex", "off curve"}

VARIABLES
  pc,        \* where main is; "exit" between two runs of the tool
  args,      \* the arguments after the command
  stdin,     \* the standard input: a packet, part of one, or something else
  stdout,    \* what the session printed last
  path,      \* path
  i,         \* the index of the loop over the keys
  log,       \* the maps of the MemoryReplayLog, "nil" or "empty"
  exit       \* how the last run ended

vars == <<pc, args, stdin, stdout, path, i, log, exit>>

Empty   == [k \in 0 .. NumMaxHops - 1 |-> NoNode]
Nothing == [form |-> "not hex", hops |-> <<>>]
Packet(hops) == [form |-> "packet", hops |-> hops]

Init ==
  /\ pc = "exit"
  /\ args = <<>>
  /\ stdin = Nothing
  /\ stdout = Nothing
  /\ path = Empty
  /\ i = 0
  /\ log = "nil"
  /\ exit = [cmd |-> "none", how |-> "ok"]

\* The process ends, and its variables with it.
Exit(cmd, how) ==
  /\ pc' = "exit"
  /\ exit' = [cmd |-> cmd, how |-> how]
  /\ path' = Empty
  /\ i' = 0
  /\ log' = "nil"

\* No argument, or a command the tool does not know.
Usage ==
  /\ pc = "exit"
  /\ Exit("none", "ok")
  /\ args' = <<>>
  /\ stdin' = Nothing
  /\ UNCHANGED stdout

-----------------------------------------------------------------------------
\* generate <keys>
Generate(keys) ==
  /\ pc = "exit"
  /\ pc' = "generate"
  /\ args' = keys
  /\ stdin' = Nothing
  /\ UNCHANGED <<stdout, path, i, log, exit>>

\* A round of the loop over the keys.  One key too many is found only when it is
\* stored, past the end of the path.
GenerateKey ==
  /\ pc = "generate"
  /\ i < Len(args)
  /\ LET key == args[i + 1]
     IN  IF key \in Node /\ i < NumMaxHops
         THEN /\ path' = [path EXCEPT ![i] = key]
              /\ i' = i + 1
              /\ UNCHANGED <<pc, log, exit>>
         ELSE Exit("generate", IF key = "not hex" THEN "fatal" ELSE "panic")
  /\ UNCHANGED <<args, stdin, stdout>>

\* PaymentPath.TrueRouteLength
TrueRouteLength(p) ==
  CHOOSE n \in 0 .. NumMaxHops :
    /\ \A k \in 0 .. n - 1 : p[k] # NoNode
    /\ n < NumMaxHops => p[n] = NoNode

\* NewOnionPacket, which panics if there are no hops, Encode, and the output.
GeneratePrint ==
  /\ pc = "generate"
  /\ i = Len(args)
  /\ LET n == TrueRouteLength(path)
     IN  IF n = 0
         THEN Exit("generate", "panic") /\ UNCHANGED stdout
         ELSE /\ Exit("generate", "ok")
              /\ stdout' = Packet([k \in 1 .. n |-> path[k - 1]])
  /\ UNCHANGED <<args, stdin>>

-----------------------------------------------------------------------------
\* decode <key>, on the last output, part of it, or something else.
Decode(keys, form) ==
  /\ pc = "exit"
  /\ pc' = "decode"
  /\ args' = keys
  /\ stdin' = IF form = "packet" THEN stdout ELSE [stdout EXCEPT !.form = form]
  /\ UNCHANGED <<stdout, path, i, log, exit>>

\* The key and the message are converted, the router is made; its log is a
\* MemoryReplayLog that nobody starts.
DecodeMessage ==
  /\ pc = "decode"
  /\ IF args # <<>> /\ args[1] \in Node /\ stdin.form = "packet"
     THEN pc' = "process" /\ log' = "nil" /\ UNCHANGED <<path, i, exit>>
     ELSE Exit("decode", IF args = <<>> THEN "panic" ELSE "fatal")
  /\ UNCHANGED <<args, stdin, stdout>>

\* The error of ProcessOnionPacket: of the MAC, of the log's Put, or none.
ErrorFor(m) ==
  IF stdin.hops = <<>> \/ Head(stdin.hops) # m THEN "ErrInvalidOnionHMAC"
  ELSE IF log = "nil" THEN "errReplayLogNotStarted" ELSE "nil"

\* ProcessOnionPacket, Encode of the next packet, and the output.
DecodeProcess ==
  /\ pc = "process"
  /\ IF ErrorFor(args[1]) = "nil"
     THEN /\ Exit("decode", "ok")
          /\ stdout' = Packet(Tail(stdin.hops))
     ELSE Exit("decode", "fatal") /\ UNCHANGED stdout
  /\ UNCHANGED <<args, stdin>>

Next ==
  \/ Usage
  \/ \E n \in 0 .. NumMaxHops + 1 : \E keys \in [1 .. n -> Argument] : Generate(keys)
  \/ GenerateKey
  \/ GeneratePrint
  \/ \E n \in 0 .. 1 : \E keys \in [1 .. n -> Node \cup {"not hex"}],
                          form \in {"packet", "cut", "not hex"} : Decode(keys, form)
  \/ DecodeMessage
  \/ DecodeProcess

Spec == Init /\ [][Next]_vars

-----------------------------------------------------------------------------
\* "decode and fully process an existing one given a private key" (main.go): the
\* holder of the right key gets the next packet.
RightKeyDecodes ==
  /\ pc = "exit" /\ exit.cmd = "decode"
  /\ args # <<>> /\ stdin.form = "packet" /\ stdin.hops # <<>>
  /\ args[1] = Head(stdin.hops)
  => exit.how = "ok" /\ stdout = Packet(Tail(stdin.hops))
=============================================================================
