------------------------------ MODULE MCParts -------------------------------
(***************************************************************************)
(* One run for six parts that share no state: a behaviour picks one of     *)
(* them and leaves the others in their idle state.                         *)
(***************************************************************************)
EXTENDS AnswerStream, Conversation, Settings, Frames, RemoteStream, Credentials

VARIABLE topic

\* An empty body, one of characters, one that ends like a header, and one that
\* looks like a frame.
Char == <<"char", 0>>
MCBodies == {<<>>, <<Char, Char>>, <<Char, Break, Break>>, <<Length(1), Break, Break, Char>>}

MCSeconds == {-1, 5}
MCLists == {<<" ">>, <<"a", " ", "b", "a">>}

\* The login that was written last holds shorter.
MCLogins == {[modified |-> 1, expires |-> 2], [modified |-> 2, expires |-> 1]}

answerVars == vars
allVars == <<topic, answerVars, conversationVars, settingsVars, framesVars, streamVars, credentialVars>>

PartsInit ==
  /\ topic \in {"answer", "conversation", "settings", "frames", "stream", "credentials"}
  /\ IF topic = "answer" THEN Init
     ELSE /\ req = [format |-> "openai", tools |-> FALSE, reasoning |-> FALSE, aggregate |-> FALSE]
          /\ text = <<>> /\ firstLen = NoSecond /\ thoughts = 0 /\ thought = FALSE
          /\ filter = [buffer |-> <<>>, blocked |-> FALSE] /\ thinkingOpen = FALSE /\ textOpen = FALSE
          /\ pendingText = <<>> /\ out = <<>> /\ phase = "cut"
  /\ IF topic = "conversation" THEN ConversationInit ELSE conv = <<>> /\ system = <<>>
  /\ IF topic = "settings" THEN SettingsInit
     ELSE /\ kind = "count" /\ files = [p \in Places |-> Absent] /\ app = "off"
          /\ cfg = Default.count /\ kept = <<>>
  /\ IF topic = "frames" THEN FramesInit
     ELSE /\ transport = "pipe" /\ sent = <<>> /\ wire = <<>> /\ buffer = <<>>
          /\ frames = <<>> /\ reader = "ended"
  /\ IF topic = "stream" THEN StreamInit
     ELSE /\ toCome = [i \in StreamCalls |-> <<>>] /\ sentText = 0 /\ firsts = <<>>
          /\ passed = <<>> /\ order = <<>>
          /\ states = [i \in StreamCalls |-> State(Unknown, Unknown, <<>>)] /\ result = Open
  /\ CredentialsInit

PartsNext ==
  /\ \/ /\ topic = "answer" /\ Next
        /\ UNCHANGED <<conversationVars, settingsVars, framesVars, streamVars, credentialVars>>
     \/ /\ topic = "conversation" /\ ConversationNext
        /\ UNCHANGED <<answerVars, settingsVars, framesVars, streamVars, credentialVars>>
     \/ /\ topic = "settings" /\ SettingsNext
        /\ UNCHANGED <<answerVars, conversationVars, framesVars, streamVars, credentialVars>>
     \/ /\ topic = "frames" /\ FramesNext
        /\ UNCHANGED <<answerVars, conversationVars, settingsVars, streamVars, credentialVars>>
     \/ /\ topic = "stream" /\ StreamNext
        /\ UNCHANGED <<answerVars, conversationVars, settingsVars, framesVars, credentialVars>>
     \/ /\ topic = "credentials" /\ CredentialsNext
        /\ UNCHANGED <<answerVars, conversationVars, settingsVars, framesVars, streamVars>>
  /\ UNCHANGED topic

PartsSpec == PartsInit /\ [][PartsNext]_allVars
=============================================================================
