--------------------------- MODULE ExampleServices ---------------------------
(***************************************************************************)
(* The services that come with libmaid: EchoService and HelloService as    *)
(* protoc generates them from example/echo/echo.proto and                  *)
(* example/hello/hello.proto, with the implementations of the two servers. *)
(* They are what Dispatch hands requests to.                               *)
(***************************************************************************)
EXTENDS Message

EchoRequest == <<"message">>
EchoResponse == <<"message">>
HelloRequest == <<"message">>
HelloResponse == <<"message">>

EchoService == {"Echo"}
HelloService == {"Hello", "HelloRpc", "HelloNotify"}

RequestPrototype(method) ==
  IF method \in EchoService THEN EchoRequest ELSE HelloRequest

ResponsePrototype(method) ==
  IF method \in EchoService THEN EchoResponse ELSE HelloResponse

(* HelloResponse::set_message of a new response: the has bit is set even   *)
(* when the text is empty.                                                 *)
SetMessage(text) == Set(New, "message", text)

(* EchoRequest::message, the default when it has none.                     *)
MessageOf(request) == Get(request, "message")

(* EchoServiceImpl: a request without a message is answered with one that  *)
(* is empty.                                                               *)
Echo(request) == SetMessage(MessageOf(request))

(* HelloServiceImpl, which leaves the response of HelloNotify as it is.    *)
Hello(method) ==
  CASE method = "Hello" -> SetMessage(<<"welcome to libmaid">>)
    [] method = "HelloRpc" -> SetMessage(<<"helle rpc">>)
    [] method = "HelloNotify" -> New

(* CallMethod of the two services: the response to a request that was      *)
(* parsed with the prototype of the method.                                *)
ServiceCallMethod(method, request) ==
  IF method \in EchoService THEN Echo(request) ELSE Hello(method)

(* What a service gets and gives when its class lacks the method: the base *)
(* class fails the call.                                                   *)
NotImplemented(method) == <<"Method", method, "not implemented.">>
=============================================================================
