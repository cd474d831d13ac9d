------------------------------ MODULE MCClones ------------------------------
(* Instances of Clones: the programs that the threads interpret. *)
EXTENDS Clones

C(op) == [op |-> op, progs |-> <<>>]
Clone(op, prog) == [op |-> op, progs |-> <<prog>>]
For(prog, body) == [op |-> "for", progs |-> <<prog, body>>]
Pipe(a, b) == [op |-> "pipe", progs |-> <<a, b>>]
Pipe3(a, b, c) == [op |-> "pipe", progs |-> <<a, b, c>>]

MCCode == [
    nothing |-> <<>>,
    put |-> <<C("write")>>,
    put3 |-> <<C("write"), C("write"), C("write")>>,
    echo |-> <<C("echo")>>,
    echo3 |-> <<C("echo"), C("echo"), C("echo")>>,
    get |-> <<C("read")>>,
    set |-> <<C("line")>>,
    exit |-> <<C("write"), C("exit")>>,
    batch |-> <<Clone("batch", "echo3"), C("write")>>,
    start |-> <<Clone("start", "put3"), C("write")>>,
    startecho |-> <<Clone("start", "echo3"), C("echo"), C("echo")>>,
    exitlast |-> <<C("write"), Clone("wait", "put"), C("exit")>>,
    forbatch |-> <<For("batch", "put")>>,
    forstart |-> <<For("start", "nothing"), C("write")>>,
    forfor |-> <<For("forbatch", "put")>>,
    forexit |-> <<For("exitlast", "nothing")>>,
    forpipe |-> <<For("pipe", "put")>>,
    forecho |-> <<For("echo3", "echo")>>,
    pipe |-> <<Pipe("echo3", "get")>>,
    pipeset |-> <<Pipe("put3", "set"), C("write")>>,
    startpipe |-> <<Clone("start", "pipe"), For("put", "put")>>,
    pipeget |-> <<Pipe("get", "get")>>,
    startexit |-> <<Clone("start", "forexit"), For("exit", "set")>>,
    pipefor |-> <<Pipe("batch", "forbatch")>>,
    pipethree |-> <<Pipe3("put3", "put", "get")>>,
    forbodyexit |-> <<Clone("wait", "fordoexit")>>,
    fordoexit |-> <<For("put3", "exit")>>,
    exitinpipe |-> <<Pipe("exit", "get")>> ]
MCPrograms == DOMAIN MCCode

\* Clones that end by returning or by EXIT, in each other and in pipes.
AllEnding == {"forbatch", "forstart", "forfor", "forpipe", "pipe", "pipeset", "startpipe",
              "pipefor", "pipeget", "startecho", "forexit", "startexit", "exitinpipe",
              "pipethree", "forbodyexit"}
ForEcho == {"forecho"}
=============================================================================
