# A verification project for the Navtech IA SDK

TLA+ models of the parts of this repository in which threads, bytes or bins can go wrong in ways a test
seldom reaches, TLC runs that check them on small instances, and TLAPS proofs, for every value of the
constants, of the safety properties of all of them. Paths below are relative to the
repository; all modules are in this directory. `PROJECT.json` maps every definition to the lines it models.

## 1. The system

The SDK connects a program to a Navtech radar over TCP. The radar sends messages (configuration,
FFT data of one azimuth at a time, navigation, health, ...), each a 16-byte signature, a header and
a payload; the program sends short requests. There are three implementations (C++17, an older C++,
C#), and ROS nodes on top of the C++ ones.

```
 application / ROS node             set_..._callback, start, stop, start_fft_data ...
        |  requests                       ^ callbacks
        v                                 |
   Radar_client  <--- handle_data() --- Threaded_queue (worker thread)
        |                                 ^ enqueue()
        v                                 |
   Tcp_radar_client: connect thread, timer, read thread --- finds messages in the bytes
        |                                 ^
        v                                 |
   Tcp_socket  ------------------------ recv()          radar
```

| Component | State | Operations, and who runs them | What is hard | What makes it correct |
|---|---|---|---|---|
| **Threaded queue** `cpp_17/utility/threaded_queue.h`, `threaded_class.cpp` | the deque, `queue_mutex`, `stop_requested`, `stopping`, `thread`, `dequeue_callback` | `enqueue` (read thread), `do_work` (worker), `start`, `stop`, `set_dequeue_callback` (owner) | tests before the lock; swap and drain without the lock; notify without the lock | bounded depth, order, nothing delivered twice, nothing delivered after `stop()`, `stop()` returns |
| **TCP radar client** `cpp_17/network/tcp_radar_client.cpp`, `tcp_socket.cpp`, `utility/timer.cpp` | `running`, `reading`, `connection_state`, the descriptor, two threads, a timer | `start`, `stop`, `send`; connect thread, read thread, timer callback | a condition without a predicate, a descriptor reused under a blocked `recv()`, reconnection while threads live on | one read thread, a clean stop, an honest state, a lost connection is dialled again |
| **Stream framing** same files, `read_thread_handler`, `handle_data`, `Tcp_socket::receive` | bytes of the socket, a partial message | peek, skip, receive | short reads, resynchronisation | messages delivered whole, in order, once; none lost |
| **Radar client** `cpp_17/network/radar_client.cpp` | `running`, `send_radar_data`, `encoder_size`, `bin_size`, handlers | requests (application), `handle_data` (worker) | requests of two threads, sessions and reconnections between request and answer | angles use their own encoder; the stream comes back, and of the right kind |
| **Peak finder** `cpp_17/navigation/peak_finder.cpp` | configuration, `data_buffer`, `awaiting_rise`, targets | `configure`, `set_threshold`, `fft_data_handler` | boundaries, state left over from the last bin, azimuth or configuration | what is reported is a peak, inside the azimuth; none is missed |
| **C# client** `csharp/IASDK/Networking` | required and current state, `_tcpClient`, `_client`, queued events, a reader per connection | `Connect`, `Disconnect`, commands (application), `Disconnected` events (pool), reader | no lock anywhere, event queue, reconnection from the event | one connection, `Disconnect()` holds, it neither gives up nor misjudges its state |
| **Colossus messages** `cpp_17/network/colossus_network_message.*`, `cpp/cndp*.h`, `csharp/IASDK/Networking/Tcp*Message*.cs`, `pythonexamples` | C++17: one byte vector with overlays; elsewhere composed at once | `append`, `replace`, `header`, `payload`, `relinquish`; readers | order of calls; four layouts, two byte orders | what is read is what was put in, whoever reads it |
| **Sector blanking** `cpp_17/navigation/sector_blanking.cpp` | list of sectors | `add`, `to_vector`, `from_vector` | sizes | round trip |
| **ROS 2 views** `ros2/src/nav_ros/src/b_scan_publisher.cpp`, `laser_scan_publisher.cpp`, `point_cloud_publisher.cpp` | parameters held and used, last azimuth, rotations, image, scan, cloud | FFT and configuration callbacks, `ros2 param set` | wrap of the azimuth, lost azimuths, a second configuration, offsets in 16 bits | every rotation is published once and shows what came of it, indices stay inside |
| **ROS 2 navigation node** `navigation_mode_point_cloud_publisher.cpp` | as above, and the configuration of a peak finder in the radar or in the node | navigation and FFT callbacks, parameters | parameters that depend on each other, read again in rounds | the finder works with what the node believes |
| **ROS 2 video** `colossus*_publisher.cpp`, `colossus*_subscriber_to_video.cpp`, `ros2/src/camera_ros/src/*` | bounded topics, rotation and frame counts, images, files | callbacks of radar, camera and topics | late subscribers, dropped messages, the frame is written inside the next rotation | a frame is a rotation; a late subscriber is configured |
| **ROS 1 nodes** `ros1/src/talker1.cpp`, `Mobile_Platform.cpp`, `RosToColraw.cpp`, `Movement-Detector.cpp` | images, averages, counters of the recorded file | callbacks, parameters | image sizes that change, counters that wrap | an image shows the last turns that came, a file runs on |
| **Old C++ SDK** `cpp/` | as C++17 | as C++17 | as C++17, with other races | as C++17 |
| **Utilities, protocol buffers, test clients, other scripts** | none | conversions | - | - |

Interactions. The read thread calls `enqueue()` and never waits for a callback; the worker calls
`Radar_client::handle_data()`, whose handlers may call back into `Radar_client` (the ROS nodes ask
for data in their configuration handler, `colossus_and_camera_publisher.cpp`) and so into `send()`
of the TCP client; `Radar_client::start()/stop()` start and stop the queue and the connection in
turn. The peak finder and the ROS 2 nodes run inside a callback of the C++17 SDK, talker1 inside one of the
older SDK; publishers and subscribers share nothing but topics, the ROS 1 nodes also the parameter server. `PROJECT.json` lists the hazards
that follow, each at its line.

## 2. Modules

| Module | Models | Status |
|---|---|---|
| `LossyFifo` | abstract: what a queue promises its two users | complete |
| `ThreadedQueue`, `MCThreadedQueue` | the queue and its three threads | complete, refines `LossyFifo` |
| `ThreadedQueue_proofs` | 6 theorems, the refinement of `LossyFifo` among them | complete for safety |
| `TcpRadarClient`, `MCTcpRadarClient` | the connection and its four threads, the radar | Windows branches left out |
| `TcpRadarClient_proofs` | 4 theorems | complete for safety |
| `RadarClient`, `MCRadarClient` | `Radar_client` over the two above | requests without state are in `ColossusMessages` |
| `RadarClient_proofs` | 4 theorems | complete for safety |
| `StreamFraming`, `MCStreamFraming` | the byte stream | complete |
| `StreamFraming_proofs` | 3 theorems | complete for safety |
| `PeakFinder`, `MCPeakFinder` | the search for peaks | the floating-point fit abstracted |
| `PeakFinder_proofs` | 4 theorems | complete |
| `CSharpClient`, `MCCSharpClient` | the C# connection | the application's event handlers left out |
| `CSharpClient_proofs` | 4 theorems | complete for safety |
| `OldRadarClient`, `MCOldRadarClient` | the older C++ SDK under its test client | messages are whole or skipped; the bytes are those of `StreamFraming` |
| `MessageFormats` | byte orders, layouts, peaks, blanking lists | complete for the messages with a header |
| `ColossusMessages`, `MCColossusMessages` | building, sending and reading in four implementations | health message left out |
| `MessagesAndOldClient_proofs` | 3 theorems about `ColossusMessages`, 2 about `OldRadarClient` | complete for safety |
| `RosNode` | what the radar nodes of ROS 2 share: rows, parameters, rotations | complete |
| `RadarPublishers` | the three views, each a process of its own | complete for the data of a rotation |
| `NavigationPublisher` | the navigation node and the peak finder it configures | complete |
| `VideoPipeline` | three publishers, topics, subscribers to video | OpenCV left out |
| `Ros1Nodes` | talker1 and the three nodes on its images | OpenCV, PCL left out |
| `RosWorkspaces`, `MCRosWorkspaces` | what is launched together, over the four modules above | - |
| `RosWorkspaces_proofs` | 8 theorems, one for each invariant of `ros` | complete |

The layers are composed by assumption rather than in one product, which TLC could not finish: the
upper module takes of the lower ones exactly what their runs show. `TcpRadarClient` knows the queue
as `queueOpen` and messages as whole units, which may be skipped as `StreamFraming` shows (its inside of the
read thread);
`RadarClient` knows the connection as a numbered link that comes and goes and first carries a
configuration, which may be lost like any other message, and the queue as a bounded sequence of which at most one message survives a `stop()`
(`AtMostOneSurvivor`).

Conventions. A step is one access to state that another thread can see change. Each thread has a
`...Pc` variable; an action is named for the operation it is a step of. Variables keep the code's
names; those marked "history" in the declarations exist for the properties only, and the `Max...`
constants marked "bound" end behaviours. A definition with a twin above it that differs in one detail
(`TooDeepByOne` above `TooDeep`) is used to see that the properties below notice that detail; the
twins are used nowhere else.

### ThreadedQueue

`queue` is the deque; items are numbered as they are pushed. `mutex` is `queue_mutex`; the flags are
the code's. `EnqueueTestFlags`, `EnqueueTestSize`, `EnqueueLock`, `EnqueuePush` are `enqueue()` cut at
each access: the tests come before the lock. `WorkerLoop` ... `WorkerWake` are `thread_method()` and
`do_work()`: the first critical section copies and pops the front, the callback runs without the
mutex, the second critical section tests and waits. A condition variable is a place (`waiting`) which
`Notified` moves to `wake`; `SpuriousWakeup` moves it without a reason. `Stop`, `PreStop`,
`DrainTake/Pop/Call`, `Swap`, `StopNotify`, `Join` are `Threaded_class::stop()` and `pre_stop()`; `drained` remembers
that a stop has drained the deque.
`stop()` swaps and drains without the mutex: where that meets a critical section that changes the
deque, the program has a data race. Its outcomes are the serialisations, an arbitrary answer of a
size test, and `corrupted`, after which nothing is claimed. The atomic flags have no initialiser, so
`Init` leaves both open.

### TcpRadarClient

`connection_state` is `state`; `SetConnectionState` does nothing unless `running`, and
`IsConnected` answers false then, as in lines 84-104. `sock` is the member of `Tcp_socket`, `open` the descriptors
that are open, and `link[s]`, `inbox[s]` what the kernel knows of a socket: `new`, `up`, ended by the peer (`eof`),
`reset`, `shut` by this side. A thread that is inside `recv()` holds `readFd`, which
outlives `close()` and the reuse of the descriptor. Actions: `Start/StartNotify/StartTimer`;
`Stop` ... `JoinRead` in the order of `stop()`; `TimerFires`; `ConnectTop` ... `ConnectSpawn` for the
connect thread; `ReadLoop` ... `ReadExit` for the read thread; `SendTest`, `SendSucceeds`,
`SendFails` for each of `Senders`, the application's thread and the queue's worker
(`radar_client.cpp:291`); and the radar, which may come up, go, send, and close between or inside messages
(`cut`). `Tcp_socket::close()` has no lock and runs on two threads (lines 71 and 141): it is cut into its test, the
`shutdown()`, the `::close()` and the assignment of -1 (`StopSocket` ... `StopForget`, `ConnectClose` ...
`ConnectForget`). `receive()` gives 0 for an error, for the end of the stream and for the timeout alike
(`HasNothing`), so the peek loop goes round in all three cases and only the skipped byte and `handle_data()` end the
thread. A peek may misjudge a message (`PeekMismatch`), which is then skipped (`SkipByte`).

### RadarClient

A link is numbered; each begins with its configuration message, which `LinkUp` puts into the queue or loses: to a
short peek, or to a full queue (`lost`, history). A request is two steps, as in the
code: `AskSend` sends, `AskRemember` sets `send_radar_data`; the worker's handler does the same
(`Call`, `HandlerRemember`). `Take`, `RestartTest`, `Resend`, `Store`, `Call`, `RawTest`, `RawCall`
are `handle_data()` and the configuration and FFT handlers: the ordinary handlers are copied under
the mutex, the raw ones are tested and called without it. `encoder` holds the link whose
configuration set `encoder_size`, not the number itself.

### StreamFraming

A byte is `[msg, at]`: the message it belongs to and its place. `RadarSends` sends the next of the
messages in `wire`, of which `sent` are sent; `Arrive` moves any number of bytes from the network to the
socket. `Peek` is one `recv()` with `MSG_PEEK` in the loop of
`receive()`; as nothing is taken off the socket, the next `recv()` of the same call starts at the
same byte. `Skip` drops one byte; `ReceiveSome` is one `recv()` without peek; `HeaderOfPayload`,
`HeaderInvalid`, `Enqueue` are `handle_data()`. The bytes of a payload are never taken for a
signature, which 16 random bytes are not.

### PeakFinder

`configure()`, `set_threshold()`, then `fft_data_handler()`: in mode off an azimuth is searched at
once, otherwise `length` of them are combined first, by mean or by maximum. The search is one
action per bin, `PassFalling`, `PassBin`, `FindPeak`, `EndSearch`. Levels are in half dBs; mode off
doubles them because it compares raw values with the threshold where the buffer modes halve them.
A mean is any value between the least and the greatest. Reads outside the data are undefined: they
yield any level, or end the program (`CrashInBuffer`, `CrashInWindow`).

### CSharpClient

`required`, `current` are RadarTcpClient's two states; `tcp` names the current ASyncTcpClient, `client`
the current TcpClientConnection. `sock[s]` is .NET's socket, whose `Connected` tells what the
last operation showed; that of a closed TcpClient is taken to be false. `Connect(t)` and
`Disconnect(t)` run on the application's thread or on a pool thread, step by step, without a lock;
`Renew` queues a `Disconnected` event, which `HandleEvent` runs later and which may connect again.
`UserSend` ... `Sent` are the commands, which notice a lost connection. `Reader(c)` is the read
thread of connection `c`; its failure closes the socket and raises no event.

### OldRadarClient

One module for what the C++17 side has three for, because here the layers meet in the properties. The
application's thread is the test client's `main()`: `Start` (which sets the callbacks too), `StartNotifies` after the sleep,
`AppRequests`, `StopFFTData`, `UnsetCallbacks`, and `Stop()` as its joins
(`StopRequestsQueue` ... `StopJoinsRead`). `connect` is the place of the connect thread: it tests, waits without a
predicate, wakes by timer or notification, dials, reports `Connected` (`ConnectReports`) and only then starts
the reader (`ReaderStarts`). `read` and `worker` are the threads of `ReadThread()` and the queue. `socket` is `dead`
when the radar closed it between messages, which nobody notices (`Receive()` answers 0 as for a timeout), and
`cut` when inside one, which ends the reader. `SkipMessage` is
the short peek (`cpp/tcpsocket.cpp:133`), after which the message is skipped. `Copied` takes the callback under the mutex, `CallBack` runs
it after.

### MessageFormats, ColossusMessages

A value is the sequence of its bytes, most significant first, and a byte is named by the value and its
place: two fields confused, a byte swapped or a part lost all show. The hosts are little-endian. The layouts are those of
`colossus_messages.h`, `cndp*.h`, the C# `Data` arrays and Python's `struct` formats; `ToNetwork`, `FromNetwork`
and `Swap` are the three ways the code swaps bytes. In C++17 a message is built by `SetType`,
`AddHeader` and `AddPart`/`AddBody` in any order over one vector, where `Grown`/`Shifted` are the insertion of a
header before what is there already; the other implementations compose in one go (`CppMessage`,
`CSharpMessage`, `PythonMessage`). `Send` puts the bytes on the wire, and each reader takes its fields, buffer or
peaks from them (`Cpp17Reading` ...), or rejects. `AddSectorCopy`, `AddSectorMove`, `ReadSectors` are the blanking list.

### RosNode, RadarPublishers, NavigationPublisher

A node is a record, and a handler an operator from record to record. `param` is what the parameter server holds and
`used` what the node works with: `Valid`, `Fallback`, `Reread` are the long validation the four nodes repeat, done every
`config_publish_count` rotations. `AzimuthIndex` computes the row as the code does: the SDK's angle is rounded to a
single-precision number, and where that rounding was downwards the truncation to an integer gives the row before
(`ComesEarly`, in exact integer arithmetic). `Adjusted` adds the offset with one correction at the upper
end.

The nodes of `RadarPublishers` are three processes, each with a connection, a queue and parameters of its own, which
share nothing: a behaviour is that of one of them (`view`). `FftData` takes any azimuth after any other, since the
framing and the queue lose some; `ConfigurationData` is a connection of this node, `SetParameter` is
`ros2 param set` with its name. `swept` and `readings` are history. `NavigationPublisher` has either the radar or
the node (`local`) look for peaks, and `inForce` is the configuration that finder was last given: what is sent to a radar
is dropped when the connection is gone (`Configures`, `connection.up`).

### VideoPipeline

A topic is a sequence that keeps the last `Depth` messages and is silent until `Join`. `ConfigurationData`, `FftData`,
`CameraImageBegins/Ends` are the publishers' handlers (the camera image is filled by the main thread while
the radar's may publish it: then the message is `Torn`); `Receive...` are the subscribers'. A rotation number
stands for a row's contents, so that a frame tells which rotation each of its rows belongs to.

### Ros1Nodes

`talker` paints the column of each azimuth that comes (`RadarTurns`) and publishes when the azimuth has turned round. An
azimuth may get lost in the older SDK (`AzimuthLost`): its framing skips messages, its queue drops them. The
image is not cleared, so its column keeps an older turn; `came` (history) is the turn in which each azimuth last
came. `Publish` drops the oldest of a full `inbox`. `ChatterCallback` is Mobile_Platform's: downsampling, average, grid,
3D scan. Two things end the node: OpenCV throws when the sizes of two images differ, and the grid's step may be 0, by
which it divides (`Divides`); `range_res`, which the step is computed with, is 0 when the node starts before talker1 has
put the radar's configuration on the server (`PlatformStarts`). `DataHandler` is RosToColraw's: it may
begin a new file at any image; each record has a sweep counter and the lower word of a time. The file is opened anew for
its configuration and for every record, and where that fails the code only prints (`failed`, `opened`): the part stays
in `file` as one that is not `written`. `DetectorCallback` is
the detector's; it subscribes to `talker1/Navtech/Polar`, which nothing publishes, and is modelled with that topic
remapped.

### RosWorkspaces

`launched` chooses what is started beside the radar, of `LaunchFiles`: a view, the navigation node, a publisher and a subscriber
to video, or talker1 and one ROS 1 node of `Subscribers`. The parts that are not launched keep one value.

## 3. Runs

All numbers are of the configurations here (two TLC workers; `client`, `client_live`, `peaks`, `old_sdk` and `ros` take
between one and three minutes, the others less than one).

| Run | States | What it shows |
|---|---|---|
| `queue` | 54,152 | bound, order, survivors, a clean stop, delivery, refinement; with and without `stop(true)` |
| `client` | 12,415,128 | threads, stop, sockets and connection state |
| `client_live` | 603,805 | `stop()` returns, losses are dialled again, the configuration comes |
| `client_reconnect` | finding | `ConnectionBecomesUsable` fails |
| `radar_client` | 781,566 | encoder, handlers, streams across sessions and links |
| `framing` | 216,830 | what is delivered, lost, and that the thread gets through |
| `peaks` | 5,682,198 | peaks, windows, nothing missed |
| `peaks_max` | finding | `MaxModeFindsEchoes` fails |
| `csharp_client` | 851,182 | one connection, `Disconnect()` holds, retries |
| `old_sdk` | 417,853 | connection state, quiet callbacks, streams that come and come back |
| `messages` | 681 | every message, built in every order, read by four implementations |
| `ros` | 1,951,116 | both ROS workspaces: rotations, indices, settings, videos, images, files, what ends Mobile_Platform |

**queue**: depth 1, five items, three starts; each stop is `stop(false)`, which is what the SDK calls, or `stop(true)`,
whose drain pops beside the worker without the mutex. *DepthBound*: the deque holds at most
`max_queue_depth + 1` items though the size is tested outside the lock and may be misread (a second
item cannot slip in: there is one reader), and one item more once a stop has drained it. *InOrder*: until then delivery
is in order and at most once, across restarts. *AtMostOneSurvivor*: the one `enqueue()` that passed its tests before `stop()` may push behind
the swap; it is delivered in the next session, and it is the only one. *CleanStop*: no
callback after `stop()`, the deque is destroyed only inside `stop()`, and `stop()` hangs only in one way: its
`notify_all()`, sent without the mutex, falls between the worker's test and its wait.
*StopReturnsUnlessMissed*: otherwise it returns, also when it drains.
*AcceptedIsDelivered*: no notification of `enqueue()`, which is sent under the mutex, is lost.
*ImplementsLossyFifo*: the refinement until a stop drains, with what is pending being the item in the worker's hands
followed by the deque. The queue's properties describe this; that it can hang, and that it can be
destroyed, is what they say of the code.

**client**: three sockets, two senders, one message waiting, two starts. *StoppedIsQuiet*: after `stop()` no thread and no
timer is left, `connect()` never overwrites a `std::thread` that was not joined, and `stop()` hangs only for
a missed notification, as in the queue. *HonestState*: in the first session a client that says `connected`
has a reader, and one that says `connecting` is; in later ones it may not (below). *SocketsLostOnlyInStop*:
reconnecting loses no socket, and the kernel keeps none but those with an open descriptor and that of a `recv()` in
progress. `stop()` may lose one: between its `::close()` and its assignment of -1 `connect()` may create a
socket, whose descriptor is then overwritten and stays open with nobody to close it. That is one per session at most.

**client_live**: one start and two sockets. *ThreadsGoOn*: the timer's
notification finds the connect thread sooner or later, so that a loss is dialled again, and `stop()` returns
unless missed. Two senders may both pass the test of the state: the first failure leads to a dialling that waits in
`join()`, and the second marks the new connection as lost; that the connect thread waits there is the exception the
property names (and the finding `client_reconnect`). *FirstSessionGetsConfiguration*: liveness of the path from
`connected` to the queue: the configuration is enqueued, or was skipped after a short peek.

**radar_client**: queue of one, two sessions, two links; the application asks for contoured data or
for none, its handler for non-contoured data or none, with the configuration, FFT and raw FFT
handlers. *AngleOfOwnEncoder*: an azimuth is computed with the encoder size of its own connection, once that connection's
configuration was handled. In the first session nothing overtakes a configuration: only of a connection whose
configuration was lost below are azimuths computed with that of an earlier one, or with the initial 0, by which the
code divides; an application that asks for data by itself gets there.
*UnboundHandlerRests*: after `set_fft_data_callback(nullptr)` at most the call under way comes.
*StreamsAsRemembered*: when nothing is under way the radar streams exactly if `send_radar_data` says
so, unless two requests overlapped; without that exception it fails, because the flag is set after the
message is sent. *StreamResumes*: a stream comes back after a reconnection. Deadlock is checked
here: something can always happen.

**framing**: signature of two bytes, header of three, every sequence of at most three
messages with payloads of at most two bytes and valid or invalid headers, in every division into pieces.
*DeliveredAsSent*: never a message made of parts of others. *LostByShortPeekOnly*: a valid
message is lost only if its own signature was peeked at in part, so one loss does not take the
next message along. *GetsThrough*: every message is passed, or the thread has ended.

**peaks**: every azimuth of six bins, and every two of three or four bins combined, with powers 0 to
2 and limits of two and three bins for a window, eight configurations and changes between them.
*PeaksAreMaxima*, *WindowsInside*, *NoPeakMissed* as their comments say; the exceptions (the first
bin, the bins directly behind another peak) are what the search leaves out by design.

**csharp_client**: one application thread, two pool threads, three sockets, two calls, one failing attempt, one
loss. Each property has an exception, and without it TLC finds a trace: two `Disconnect()` at once can
leave a connection open (*OneConnection*); a pool thread that is already past its test of
`_requiredConnectionState` connects after `Disconnect()` returned (*DisconnectHolds*); a
`Disconnected` event handled late marks a live connection as disconnected, so that every command is
dropped, and of two threads in `Connect()` the later to publish may name a closed connection
(*QuietIsConnected*). *KeepsTrying*: no failed attempt and no race makes the client give up.

**old_sdk**: two starts, one connection that the radar closes, one configuration that is skipped, one message in the
network, queue of one.
*ConnectedHasReader*: in the first session `Connected` means a reader that reads or the step that starts it.
*QuietAfterUnset*: an unset callback runs at most once more, and nothing runs once `Stop()` has returned.
*StreamsWhenConnected*: from any point of the first session at which nobody reads and nothing waits, the radar streams at
last what the configuration's callback asks for. It holds because `Connected` is reported before the reader starts,
so that no request is dropped for the state; with the two lines swapped TLC finds the dropped request.
Exceptions are a stop; another loss; a closure between two messages or inside a signature, which this client never learns
of; a configuration skipped after a short peek, after which nothing asks for the streams; and the join of a
reader that lives on (`JoinsLiveReader`, the older form of `client_reconnect`).

**messages**: up to three parts of three bytes, added before, between and after the header, every kind each
implementation can send; peaks, and lists of up to eight sectors. *SentAsBuilt*: the wire carries header, then parts in
order, whatever the order of the calls and whoever composes. *ReadAsSent*: each reader finds the sender's values. Two
exceptions are what the code does: the times of FFT data come out reversed in all readers but C#'s (written in
network order and read in host order), and a blanking list is refused unless its length is a multiple of
four. Rejections by size are tied to the limits of each SDK. Not covered because they cannot be expressed as a
difference of bytes: C#'s `UpdateContourMap` sends its data under the type `SetNavRangeOffsetAndGain`
(`RadarTcpClient.cs:181`) and is modelled so; Python's version field is 0 until it has received a message; `add(const Sector&)`
answers false when it succeeds.

**ros**: 400 azimuths of which 0, 1 and 399 are sent, two bins, two configurations, one setting of a view and
two of the navigation node; of ROS 1 each of the three subscribers, one reconnection with
another size, two lost azimuths, two failures to open the file.
*RowsAsReceived*: what a view publishes shows in every row of the rotation what the node looked at in the azimuths that
came for it, with the parameters of that moment: the image the last of them, the scan its nearest echo, the cloud the
echoes of all. Azimuths may be lost, repeated or fall on the same row. An echo is stronger than the threshold (see the
defects below for one that is equal to it).
*RowsInside*: no row outside the image is written but with an offset above a whole rotation; a negative one is
such an offset, in its 16 bits, and no validation rejects it.
*RotationPublished*: a rotation that ends is published, without rows of an earlier one; after a second configuration
no image is published any more, as another one was appended to the vector (`b_scan_publisher.cpp:181`).
*WhatIsSetTakesEffect*: after two readings what was set is in use, or was replaced by something valid that is, and the
peak finder works with it - one on the radar as long as its link is that of the last configuration, since settings sent
without a connection are dropped; `end_bin` of the navigation node is excluded, which takes the value of `end_azimuth`
(`navigation_mode_point_cloud_publisher.cpp:286`; `ros2/src/nav_ros/README.md:236` says otherwise).
*VideoOfRotations*: a frame is written only when a rotation ended, and shows that rotation and, in the one row drawn
before the wrap was noticed, the next - unless a message was lost or came before the configuration; and a subscriber
that joins late has its configuration after `config_publish_count` rotations.
*ImagesAsReceived*: an image of talker1 is of one configuration and shows in every column the last pass of the radar
over it that came. Where azimuths were lost that is an earlier turn, so the image may be a mixture; it is one turn
where none was. A column is empty when nothing falls on it, because its double was rounded down, or nothing came since
the connection.
*FileRunsOn*: sweeps count on from record to record and image to image, across their wrap and over the records that could
not be written, so that a reader sees from them how many are missing; times of adjacent records go on. (A file whose
configuration could not be written begins with a record.)
*WhatEndsPlatform*: Mobile_Platform starts before or after the radar's configuration. The average ends it only when images of two sizes came with none in between that came while it was
switched off - switching it off and on between two images does not save it, since only an image resets the average
(`Mobile_Platform.cpp:495-505`). The grid ends it only with a step of less than two bins, or when the node was
started without the radar's configuration: then the resolution is 0 (line 146 says `Exiting...` and goes on), and the
step, a float infinity in 16 bits, may be 0.

### Findings

Each is a run whose property states what a document says, and TLC's counterexample.

- **client_reconnect** (`tcp_radar_client.cpp:147`): after a failed `send()` the old read thread lives on;
  the new connection waits in `join()` for it, while it reads the new socket. The client stays
  `connecting` and drops what is sent.
- **peaks_max** (`peak_finder.cpp:39`): the maximum is not reset between bins, so a combined azimuth
  never falls and mode max finds nothing.

Other defects appear as exceptions in the properties of the passing runs, or as outcomes in the models:

- `laser_scan_publisher.cpp:79` looks for a power greater than `power_threshold`; an echo of exactly that power is
  passed over, where `ros2/src/nav_ros/README.md:183` says "any equal to or above is used to produce a laser scan
  point". *RowsAsReceived* calls an echo what the code does.
- `tcp_radar_client.cpp:88`: `stop()` clears `running` before the read thread reports `disconnected`, which is then
  ignored; the next `start()` may find `connected` and never dial. `HonestState` therefore has the first
  session only.
- `radar_client.cpp:291`: after a reconnection `start_fft_data` is sent whatever kind of data was asked for.
- `tcp_socket.cpp:160`: a signature that arrives in two pieces is misread and its message skipped
  (`LostByShortPeekOnly` bounds the damage).
- `stop()` of queue and client may hang, as described; `stop()` beside a `connect()` may overwrite the descriptor of a
  new socket, which stays open (`SocketsLostOnlyInStop` bounds it).
- A configuration that is lost on its way leaves the C++17 client with the encoder size of before, or 0, and the older
  client without streams.
- A file of RosToColraw may lack records, or its configuration, with no sign but the sweeps (`FileRunsOn`);
  Mobile_Platform divides by 0 after a start without the radar's configuration (`WhatEndsPlatform`).
- Requests that overlap in `RadarClient`; raw handlers tested and called without the mutex.
- A reader that spins on a connection the radar closed (C++ and C#); the races of the C# client above.
- `configure()` of the peak finder keeps azimuths of the former range (`PeakFinder`, `CrashInBuffer`).
- The camera's message published while it is filled (`Torn`); its configuration taken only before the radar's has
  come (`CameraConfigTaken`).
- The exceptions listed under `messages` and `ros`.

### Bounds

`MaxAccepted`, `MaxStarts`, `MaxSessions`, `MaxLinks`, `MaxCalls`, `MaxSockets`, `MaxFailures`, `MaxLosses`, `MaxSkips`,
`MaxLost`, `MaxUnopened` count things that
only grow; each action that would pass one is disabled. They are enough when every thread can meet
every phase of another one twice: three starts let an item survive a stop and meet the stop after
that; two starts let a descriptor be closed, reused and reused again while a thread
holds the old one, and three sockets are one more than that, for the one a stop may lose; two senders may both be past
their test; two links give a message of a former connection; three C# sockets give a
connection, its replacement after an event, and the one after. Depth 1 exercises full and empty
queues with the fewest items. Two bytes are the shortest signature that can arrive in part, and three
are the shortest header that does not end with it. Powers 0 to 2 give every relation of two neighbours
and the threshold. In `old_sdk` two starts give a
session after a stop, one loss a reconnection, and a queue of one drops. Three parts of a message, of three bytes each,
are the fewest that tell order and place apart, and eight sectors are the code's own limit; `LargestPayload` and
`MaxPayloadSize` lie between the shortest and the longest messages. Samples 400 is the real number; azimuths 0, 1, 399 are the wrap
and a step; two bins tell near from far. `ConfigPublishCount` 2 is the least that differs from "always" (the
code has 4); topic depths of 2 are the least that drop while something is kept. `PolarTurns` 9 lets `Movement-Detector` and the
average begin and a file be split; two lost azimuths can be the two before a wrap or the same one of two turns, and two
failures to open a file its configuration and a record, or two records in a row; `SweepWrap` 5 and `TickWrap` 64 let the counters wrap.
`SubscriberBound` of the ROS 1 part
stops the turns two earlier for Mobile_Platform, after three images, and leaves lost azimuths to Movement-Detector: a subscriber
sees of an image its configuration only. The C# run was also done with three calls, and with four sockets and
one pool thread, with the same result.

`CHECK_DEADLOCK FALSE` stands where the system may stop: the application owes no call, the radar no
message, a stream ends, a destroyed deque or a crash ends the model, and a bound is reached.

### Fairness

- Every thread the system schedules goes on: weak fairness for the steps *inside* a call.
- A mutex released again and again is obtained at some time: strong fairness for the three lock steps of
  the queue; POSIX does not promise it, the schedulers in use do.
- The timer fires again and again (`Timer` runs a loop).
- A `recv()` ends at the latest with its timeout of 60 s (`tcp_socket`); in `framing` the radar sends what it
  has to send, what was sent arrives, and the read thread is scheduled (weak fairness of each).
- The C# thread pool runs what is queued.
- `old_sdk`: the steps inside `Start()` and `Stop()`, the connect thread with its timer, the reader and the worker are
  scheduled (weak fairness), and dialling succeeds at some time (strong fairness of `DialSucceeds`: the radar is there).
- None in `ros`, `messages` and `peaks`, whose properties are invariants.
- No fairness for the application (`start`, `stop`, `enqueue` by the radar, `send`), for the
  radar, for losses, or for spurious wake-ups.

## 4. Proofs

Checked by TLAPS for every value of the constants that satisfies the named assumptions: any number of
threads, sockets, sessions, messages and azimuths, any depth and any size. Every safety property of the passing
runs is a theorem; so is the queue's refinement. The argument is the same everywhere: an invariant `IInv`
(`MessageInv` for the messages, in `RosWorkspaces_proofs` one for each part) that holds initially, is kept by
every action, and implies the property. What each adds to its property, and why it has to:

**ThreadedQueue_proofs**. *TypeCorrect* holds for every use of the queue. *DepthBounded*,
*DeliveredInOrder*, *OneSurvivor* and *StopIsClean* hold for the use the SDK makes of it
(`SdkUse == TRUE \notin FinishWork`: nothing in the SDK calls `stop(true)`, so that the deque is never `drained`); otherwise only
`ConstantsAssumption` is needed: any depth, any number of items and of starts. None of the
properties is inductive; `IInv` adds

- `MutexInv`: who holds the mutex is where the code says;
- `OwnerInv`: a joinable thread exists, and the owner's place implies the flags;
- `DepthInv`: a reader past the size test has room, or will when the pop it raced with is done -
  the reason that the unlocked test overshoots by at most one;
- `OrderInv`: as `InOrder`, also for the item that is copied and not yet popped;
- `SurvivorInv`: from the swap on, deque plus item in flight is at most one, because
  `stopping` was set before it;
- `PopInv`, `NotifyInv`: why an empty pop or a sleeping worker under `join()` has only one cause.

*ImplementsFifo*: under the same `SdkUse`, every step of the queue, from the first to the last, is a step of `LossyFifo`
or leaves what it sees unchanged; `IInv` is what makes the mapping of each step go through.

**TcpRadarClient_proofs**, from `ClientAssumption`. *StopEndsThreads* (`StoppedIsQuiet`) rests on `AppInv`
(the flags follow `start()` and `stop()`), `ConnInv` and `ReadInv` (which threads exist at which step: no read
thread survives the join before `up`, so none is overwritten) and `NotifyInv` (a connect thread asleep
under its join was not notified). *FirstSessionHonest* (`HonestState`) needs `ReadingInv`, `FreshInv` and
`FirstSessionInv`: in the first session nothing old can report. *SocketsLost*
(`SocketsLostOnlyInStop`) needs `KernelInv` - `connect()` creates a socket only when the descriptor it has is
closed - and `LossBound`: a session may lose one until its `stop()` has assigned -1.

**RadarClient_proofs**, from `RadarClientAssumption`. *OwnEncoder* (`AngleOfOwnEncoder`) rests on `OrderInv` - what
waits and what is being handled is in the order of the connections, and none is older than the configuration the encoder
size is of - and on `DueInv`: in the first session every later configuration that was not lost is waiting or being
handled, whatever the queue drops later. *UnboundRests* needs `LateInv`, that the one late call was copied before;
*RememberedStreams* needs `StreamInv`, which says between the two steps of a request what will be
remembered.

**StreamFraming_proofs**, from `FramingAssumption` (a header is no shorter than a signature). `StreamInv` describes
the bytes ahead of the thread: consecutive, the messages one after another, to the end of the last sent. `PeekInv`,
`TakenInv` say what a short peek and a partial message leave; with them *DeliveredWhole* follows from
`DeliveredInv` (what was delivered is behind the thread) and *LossesAreOwn* from `LostInv` (every valid message
whose first byte is behind the thread is delivered or was peeked at in part). No induction over the stream is
needed because the invariants speak of places, not of concatenations.

**PeakFinder_proofs**. *TypeCorrect*, *PeaksAreMaximaHolds*, *WindowsInsideHolds*,
*NoPeakMissedHolds*, for every size, power and configuration, from `PeakFinderAssumption` (limits of
at least two bins, naturals). `IInv` adds to the types what the loop knows at each bin: `BinsInv` (bins
found are in range), `SpacingInv` (the search goes on behind the window of every peak), `RiseInv`
(whether the bin before was rising, and what `awaiting_rise` says of it) and `CoverInv` (nothing was
missed so far). `RiseInv` is the heart: it is what makes `awaiting_rise`, which outlives the call that
set it, safe.

**CSharpClient_proofs**, from `SharpAssumption`, for any set of pool threads. `RefInv`: what is named exists.
*OneConnectionAtMost* needs `OneInv` (an ASyncTcpClient is replaced only once it is closed, unless two threads drop at
once); *DisconnectIsFinal* needs `HoldInv` (whatever is still connected is being dropped, unless two threads were inside
TcpClient); *QuietClientKnows* needs `QuietInv`: every attempt ends with a report and a connection or with an
event that starts the next.

**MessagesAndOldClient_proofs**, on the messages, from `LimitsAssumption` (the bounds are naturals, and C++17 takes no
longer a payload than C++): for parts of every size, any number of parts and peaks, lists of any number of sectors.
The two components meet in the wire format only; the names of `ColossusMessages` that both would have
begin with `Message`.

- What the operators compute. A message is the concatenation of any number of parts (`FlattenSeq`, a recursive
  function), and a layout the running sum of the widths before each field (`Packed`, another). What they are for every
  list is by induction, and the library's induction theorem cannot be instantiated; `NumberByNumber` states it of
  a set of numbers instead and follows from the library's fact that a set of numbers has a least element (`WFMin`).
  With it `FlattenType`, `FlattenLonger` and `FlattenAt` say where the bytes of each part are; `SliceIs`, `PlacesOK`
  and `FieldRead` that a field's slice is the field; `Conversions` and `SwapConversions` that the byte swaps undo
  each other; `HeadersAgree` that the layouts of the four implementations are the same.
- `HeaderFirst`: `append()` of a header after buffers gives header, then buffers, the overlapping move of the code
  included; `ReassembledIs` what the C++17 read thread makes of header and payload. `Cpp17Read`, `CppRead`,
  `CSharpRead`, `PythonRead`: what each reader makes of a message that is on the wire as it should be.
- `MessageInv`: the `Message` is `Prefix` (the header, if it was added) and `Content` (the parts so far) at every point of
  its building, and `has_protobuf` is set exactly when there is content - without which a header could be put over
  the parts; the wire carries what C++17 would have built, with its type if any reader handles the kind; what was read is a
  reading of the wire. Gives *MessageSentAsBuilt* and *MessageReadAsSent*.

On the older client, from `BoundsAssumption`: *StateHasReader* and *StopIsQuiet* rest on `RunningInv`,
`JoinedInv` (the three joins in their order), `ReadingInv`, `LateInv` and `FirstSessionInv`, which are those of the newer
client in the older one's order of steps.

**RosWorkspaces_proofs**. `PartsStep`: the four parts take their own steps only, so each has an invariant of its own.

- Views (`SamplesAssumption`, `AzimuthsAssumption`, `CountAssumption`, `ViewsAssumption`: a rotation fits 16 bits, parameters
  are any integers). `StepInv`: a node has the sizes of its last configuration; `RotationInv`: what the image and the
  cloud hold is of this rotation, and the vector is one image as long as there was one configuration; `ShowsInv`:
  *RowsAsReceived* of the rotation being written; `SettleInv`: what one reading of the parameters leaves to the second.
  Give *ViewsShowWhatCame*, *RowsStayInside*, *RotationIsPublished* and, with `NavInv` of the navigation node
  (`NavigationAssumption`), *SettingsAreUsed*.
- Video (`VideoAssumption`). `QueueInv` follows a rotation through the topic: `Stream` (messages in the queue are in order, and
  those between two ends of rotations have all the azimuths the second names), `Ahead` (the publisher goes on from
  the last of them), `Behind` (what a future frame must show is drawn or still in the queue) and `NotAhead`. `WaitInv`: who has
  no configuration has waited no longer than the publisher counts. Give *VideoShowsRotations*.
- ROS 1 (`WidthsAssumption`; `TicksAssumption`: no two azimuths at one tick). `TalkerInv`: what talker1 has
  painted shows the last passes that came (`AsReceived`), and the azimuth that came last has the latest turn of all
  (`LatestPass`), which is what the wrap is seen by (*PolarImagesAsReceived*). `RecorderInv`: the
  records so far count on, and the counters continue from the last one, written or not, through the wrap of both
  (*RecordsRunOnInFiles*, with the lemmas on `%` it needs). `PlatformInv`: the average has the size of one
  of its images, and a grid that is drawn has the step of its size (`GridInv`; *PlatformEndsOnlySo*).

Left to TLC: liveness under fairness and everything with `ENABLED` (*AcceptedIsDelivered*, *StopReturnsUnlessMissed*,
*ThreadsGoOn*, *FirstSessionGetsConfiguration*, *StreamResumes*, *GetsThrough*, *KeepsTrying*,
*StreamsWhenConnected*), which the provers do not reach.
The two findings are counterexamples and have no proof. In the runs *CleanStop* is what *StopIsClean* states.

## 5. Not modelled

- **Protocol buffers**: data definitions, read by generated code; a serialised buffer is a sequence of bytes here.
- **ROS message definitions, rviz views, static transforms, `dynamic_paramConfig.h`**: data and generated code.
- **ROS 1 `CFAR.cpp`, `camTalk.py`, the transform nodes; ROS 2 `colossus_subscriber`, `laser_scan_subscriber*`,
  `camera_subscriber`**: numerics without state between images, or logging and drawing of one message.
- **What OpenCV and PCL compute**: only the sizes they insist on are modelled. RosToColraw's questions at the terminal
  are an arbitrary choice.
- **Utilities** other than byte order: addresses, angles, vectors, signal handlers.
- **The rest of C# and Python**: object models around the messages, plotting; scripts that run once from top to bottom.
- **Test clients, unit tests, build files**: they use the SDK; the environment's actions do what they do.
- Of the modelled parts: the Windows branches of the sockets; the arithmetic of contour maps; the floating-point
  fit of a peak; times and frame names in ROS messages; wording, logging, addresses.

## 6. Plan

Done: queue (with its abstract specification), TCP client, radar client, framing, peak finder, C# client,
older SDK, messages of the four implementations, both ROS workspaces; proofs of every safety property. What is left:

1. abstract specifications of the connection and of the C# client, and that the detailed ones implement them;
2. the composition that section 2 makes by assumption: that the queue as `RadarClient` has it is what `ThreadedQueue` shows.

## 7. Running

    tlc -workers 2 -config MCThreadedQueue.cfg MCThreadedQueue
    tlapm ThreadedQueue_proofs.tla

and likewise for the other configurations; `PROJECT.json` says which module a run uses.
