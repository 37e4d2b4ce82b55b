# TLA+ models of the PSOC Edge /IOTCONNECT application

The repository builds one image set for an Infineon PSOC Edge E84: a boot loader,
a configuration of the secure side (TF-M itself is external), the non-secure
CM33 application (configuration, Wi-Fi, cloud connection, updates) and the CM55
application (sensors and machine-learning models). Both applications run
FreeRTOS with preemption and time slicing. The repository has no tests; what the
code promises is said in its headers, comments and README files, and those are
the sentences the properties quote.

This directory holds TLA+ modules translated from that code, configurations that
check them with TLC, and proofs that TLAPS checks. Paths below are relative to
the root of the repository.

## Inventory

| Component | Where | State | Operations | What makes it correct |
|---|---|---|---|---|
| Detection channel | `shared/source/COMPONENT_CM{33,55}/*_ipc_communication.c`, `shared/include/ipc_communication.h` | the shared payload, the one-place pipe channel, two cached payloads, two flags | fill and send (CM55), pipe interrupt, get-and-clear, has-received (CM33) | the last detection is kept until fetched, handed out once, and never a mixture of two messages |
| Configuration record | `proj_cm33_ns/app_its_config.c` | the record in RAM and in trusted storage | load, save, clear, four setters, five getters | what is stored was entered in one session; cleared is gone |
| Configurator | `proj_cm33_ns/app_configurator_task.c` | the in-progress flag, its place in the dialogue | the prompts, save, reset, "wait if in progress" | nobody reads a half-filled record; nobody waits for ever |
| Wi-Fi connection | `proj_cm33_ns/wifi_app.c` | a copy of the credentials, the attempt | wait for credentials, join, retry | name and password belong together; new credentials are tried |
| Device identity | `proj_cm33_ns/app_psa_mqtt.c`, `gencert.c` | certificate slot, key handle, PEM buffer | derive key, look up, generate, store, print, hand to the SDK | the user registers a certificate once, so it must stay the same |
| Start-up of the CM33 | `proj_cm33_ns/main.c`, `app_task.c` | order of the above | `main`, `app_task` | the device that connects is the configured one |
| Flash access for updates | `proj_cm33_ns/cy_ota_flash.c` | the flash, the row buffer, the write's cursor | read, write, erase | writes what it is asked to and nothing else |
| Cloud loop | `proj_cm33_ns/app_task.c` | loop counters, demo mode, interval, downloading flag | connect, publish, poll, `on_command`, `on_ota` | an update is answered, and acknowledged only when written |
| Radar data manager | `proj_cm55/source/radar/xensiv_radar_data_management.c` | queue, fill level, subscriber slots and counter | init, deinit, run (from the interrupt), subscribe, unsubscribe, read, acknowledge | data stay until all have acknowledged, no gap |
| CM55 application | `proj_cm55/source/main.c` | the model of the image | creates the model's task, `test_task` | |
| Audio task | `proj_cm55/source/audio.c` | two buffers, two pointers, a counter | microphone interrupt, loop over a frame | every sample once and in order |
| Gesture tasks | `proj_cm55/source/radar.c` | a flag, a raw and a sorted frame | interrupt, `radar_task`, `processing_task` | the model sees one whole frame; no frame is lost |
| Fall detection task | `proj_cm55/source/imu.c` | a flag, a divider of ticks | tick, polling loop, read | a read for every period |
| Orientation task | `proj_cm55/source/motion_task.c` | the last acceleration | periodic read and classification | the axis with the largest acceleration |
| Direction of arrival | `proj_cm55/source/doa.c` | place in the recording, class | loop over the recording | |
| Radar preprocessing | `proj_cm55/source/radar/preprocess` | work arrays, range and Doppler profiles, the followed person, regions, peaks, clusters | `slim_algo`, `super_slim_algo`, `algo`, slices, transpositions, windows | the model is fed the nearest moving target of this frame; a hand in front of the person, and not the person, is found |
| Configurator terminal | `proj_cm33_ns/app_io_cdc_impl.c` | receive buffer, masking flag | read a line or a document, echo | what is typed is returned, a password is not echoed |

Not modelled: see the end.

How they interact. On the CM55 one sensor task runs the model and writes its
verdict into a payload in memory that both cores see; it sends a *pointer*
through the vendor's pipe. On the CM33 the pipe's interrupt copies the payload
and keeps the last detection; `app_task` waits for the first message, takes its
identity from the configuration record, connects to Wi-Fi (waiting for the
configurator, which fills the record from the terminal), then starts the SDK
with the certificate that `main` prepared, and loops: publish telemetry with the
cached detection, poll for commands and updates. An update is written to the
external flash row by row and ends in a reset.

What is hard in this code: an interrupt and two cores around memory with no
lock but a critical section; flags that are tested and then cleared; tasks that
rely on their priorities; a configurator and an application that share a record
through one flag; power cuts between the steps of persistent changes; retries
over what an earlier attempt left; busy waits that depend on another task.
`PROJECT.json` lists each of these hazards with its line and the properties that
are about it.

## Modules

| Module | Models | Built on |
|---|---|---|
| `DetectionLatch` | the promise of the header: a one-place latch | |
| `IpcDetection` | the detection channel from the sensor task to `publish_telemetry` | refines `DetectionLatch` |
| `IpcDetection_proofs` | proofs about `IpcDetection` | `IpcDetection` |
| `Provisioning` | record, configurator, Wi-Fi connection and `app_task` up to the SDK | |
| `PsaIdentity` | key and certificate | |
| `Device` | boot, configuration and connection of a device | `Provisioning`, an instance of `PsaIdentity` |
| `OtaFlash` | flash access over a flash whose cells are programmed once per erase | |
| `OtaUpdate` | cloud loop, commands and updates | `OtaFlash` |
| `RadarDataManager` | the data manager with its subscribers | |
| `Preprocess` | the operators of the radar preprocessing: slices, transpositions, means, phases, windows | |
| `SlimAlgo` | `slim_algo`, called by `processing_task`, and `super_slim_algo` | `Preprocess` |
| `HandDetection` | `algo` | `Preprocess` |
| `RadarLibraries` | the three radar libraries, each with a client of its own | `RadarDataManager`, `SlimAlgo`, `HandDetection` |
| `Inference` | what the sensor tasks share: model, verdict, assertion | |
| `AudioFrames`, `RadarFrames`, `MotionTasks` | the sensor tasks | `Inference` |
| `Cm55` | an image for each model | the three above |
| `UsbLineReader` | the configurator's terminal | |
| `IntegerFacts` | lemmas on integers: places in a table, least numbers, finite sums | |
| `Device_proofs`, `OtaUpdate_proofs`, `Cm55_proofs`, `UsbLineReader_proofs`, `HandDetection_proofs`, `RadarLibraries_proofs` | proofs; `Device_proofs` is also about `Provisioning`, `RadarLibraries_proofs` about `Preprocess`, `RadarDataManager` and `SlimAlgo` | the module each is named for, most of them `IntegerFacts` |
| `MC...` | the instances for TLC | the module each is named for |

### How state and actions correspond to the code

Variables keep the names of the code where the code has one (`ipc_has_saved_detection`,
`app_its_data`, `curr_addr`, `frame_counter`, ...). A program counter per task
(`app`, `isr`, `configurator`, `mem`, `huk`, ...) takes the place of the point in
the source a task has reached; variables commented "history" exist in the model
only, to state properties. Every definition that stands for code has its lines in
`PROJECT.json` under "map". A comment that begins with "Mutant:" marks a variant
of the definition after it with a plausible mistake; no specification uses it,
and `PROJECT.json` names the property it breaks.

*Detection channel.* Verdicts are numbered; a payload is the pair of the verdicts
its two fields were written from, so a mixture shows. Each access of a field that
can be torn is a step: the producer writes `label_id`, then `label`, then sends;
the handler copies the id, copies the text, then records and releases; the task
copies in two steps within a critical section. Whether the section masks the
interrupt is computed from `configMAX_SYSCALL_INTERRUPT_PRIORITY`, the priority of
the pipe interrupt and the number of priority bits, as the hardware does it.
`Paced` lets the producer begin a verdict only when the channel is quiet; what holds
without it is checked and proved separately.

*Provisioning.* A value is known by the boot it was entered in. `OldRecords` are what an
earlier firmware may have stored, of another version or size: `app_its_config_init` only
prints that, and the record in RAM is what was read. A stretch of a
task between two blocking calls is one step. `Failing` says which calls of TF-M may
fail; any failure the code distinguishes is an alternative of the action. A power
cycle may come between any two steps.

*Device* runs `PsaIdentity` before the tasks, as `main` does, and joins the two
where `app_task` takes its identity.

*Updates.* A request without a host or a path is dropped by `on_ota` without an answer
and without any change of state, so it is no step of the model.

*Flash.* A cell is erased, holds byte number k of the image, holds something of
another image, or was programmed twice with different contents. The row loop of
`cy_ota_mem_write` is a step per row (read and merge, program), a failing driver
call may have programmed any part of the row, and a power cut may leave any part
of a write or an erase. The library above (erase, pieces in order, retries) is
external and modelled from how `on_ota` calls it.

*Sensor tasks.* Interrupts are actions that may come between any two steps of a
task. `RadarFrames` models preemption by priority, as the code relies on it.
Sensors, model libraries and the RTOS are external. In `AudioFrames` the load of
`full_rx_buffer` and the load of the sample through it are two steps.

*Radar preprocessing.* A sample is a Gaussian integer; the transforms and the maxima of
CMSIS are external and a magnitude is |re| + |im|. A target turns by quarters from chirp
to chirp, so the Doppler transform, for any multiple of four chirps, is the exact one in
the bins where a line can be and nothing in between, where the code's window leaves less
of a line. `FilterFloor` is the 1e-4 of `filter_range_profile` in the units of the model.
`remove_mean_3d_cf64` and `cmplx_frame_transpose` compute a step and an offset in 16 bits,
and so do their operators; `checked` says whether CMSIS was built to compare dimensions
(`ARM_MATH_MATRIX_CHECK`), which the Makefile does not ask for. A phase is a number of
quarter turns, and no angle is defined where both parts are 0. A step is a stage of the
algorithm between two calls that can fail or that leave something for the next frame: the
work arrays outlive a frame, as in the code. The position of the person that
`estimate_human` smooths is an exact fraction; `rintf` rounds halves to even, and what the
code keeps in `uint16_t` wraps. `qsort` leaves equal peaks in any order. The frame of a
scene is the one its targets cause, so that what the model is fed can be held against what
stands there.

*Terminal.* The bytes of what is typed arrive in pieces of any size; a turn of the
read loop is one step.

## Runs

| Run | What it asks | Result |
|---|---|---|
| `IpcMasked` | critical section masks the interrupt (0x3F), producer paced: does the channel implement `DetectionLatch`, copy coherently, start and deliver? | holds |
| `IpcFast` | the non-secure priority (0x40) and a producer of any speed: what is left? | a cached payload mixes at most neighbouring verdicts; TRUE still means a detection; a refused send, which halts the CM55, costs the refused verdict and no message the pipe had accepted, except to a newer one |
| `IpcLostDetection` | the non-secure priority, paced producer: is the latest detection kept? | violated |
| `DeviceBoots` | three boots with power cuts, failing saves, resets and crypto, over-long input, with and without a record of an earlier firmware | holds |
| `DeviceSaveFails` | does the application's wait end if saving fails? | violated |
| `DeviceFirstConfig` | does the identity follow a first configuration? | violated |
| `OtaUpdate` | updates in unaligned pieces with failures, retries and power cuts, through both address windows | holds |
| `OtaEraseOffset` | the same with the slot addressed by its offset: does an erase clear it? | violated |
| `RadarLibraries` | the data manager: three tasks for two slots that come, go and wake late, no interrupt inside a read; the slim algorithms on two scenes in sequence, above and below the filter's floor; the detection of a hand in two images in sequence | holds |
| `RdmUnpaced` | interrupts inside reads: do data persist until acknowledged? | violated |
| `Cm55` | an image for each model, interrupts anywhere, also between the two loads of a sample | holds |
| `UsbLines` | a name, a password and a document, in any pieces, some too long | holds |

### Bounds and why they are enough

- `IpcMasked`, `IpcFast`, `IpcLostDetection`: three verdicts, three labels (nothing,
  and two detections). A tear needs two messages, a loss a detection before and one
  after the call, and the third verdict shows what follows either. The channel
  has one place, so no message can be more than one behind.
- `DeviceBoots`: three boots, one to configure, one to configure again or be cut, one to
  see what is left. The storage is erased, or holds a record of another version, or one of
  this version that is too short for the network (`EarlierFirmware`). `its_get` and
  `its_remove` do not fail in it: with them, `SameCertificate` and `ClearedIsGone` do not
  hold (see below). No network is built in, as in the repository's `wifi_config.h`.
- `OtaUpdate`: rows of 4 bytes, sectors of two rows, a flash of two sectors, an
  image of 7 bytes that ends within a row, pieces of 1, 3, 4 and 6 bytes: aligned
  and unaligned, shorter than, equal to and longer than a row, ending within a row
  and crossing one. Two tries, two boots. The loop limits 10, 300 and 6000 are 1, 1
  and 2: they only count.
- `RadarLibraries`, the preprocessing: 16 chirps, the least for which the code has a window,
  where `radar.c` has 32 (the proofs are for both); turns by quarters tell
  approaching, receding, standing still and the ambiguous velocity apart with exact
  numbers. With a floor of 1000000 targets from size 6 on are loud and up to 2 faint, so
  both branches of `filter_range_profile` decide. Twelve scenes; eight bins leave room for an ignored
  one, a border at either end and targets three bins apart. Up to two targets that move
  and one that stands still and is stronger, before and after any other scene, so that what
  an earlier frame left in the work arrays would show. Images of 16 velocities (the
  smallest window of the code) and eight bins, a person near, in the middle and at
  the border, none to four cells that stand out, of which some are neighbours, equal or
  within the mask, one image with an antenna that receives nothing; two frames, because
  the position is smoothed. `algo` has no caller in the repository: that its
  guards fit the image and that `band_offset` is at most `band_max` is assumed.
- `RadarLibraries` and `RdmUnpaced`, the data manager: a buffer of two fill levels, six
  deliveries. `run` moves the buffer on when all have acknowledged, so a slow task fills
  the buffer. A delivery is the fill level and reads do not fail; what happens otherwise
  is below.
- `Cm55`: frames of three interrupts and five of them; three antennas, two
  samples each, a FIFO of two frames, four frames; a period of three ticks, five
  periods; accelerations of three bits, which has the lowest value, every tie and
  every order of three components.
- `UsbLines`: a buffer of five bytes, answers of up to five characters, so some fit
  and some do not; every cut into pieces.

### Fairness

- `IpcDetection!Fairness`: weak for the producer (the sensor loop never ends), the
  release interrupt and `app_task` (they are scheduled); strong for the pipe
  interrupt, because the waiting loop opens and closes a critical section for ever
  and an interrupt that is pending is taken as soon as it is not masked.
- `Device!DeviceSpec`: weak for `main`, for each task (equal priorities share the core
  in time slices) and for a user who has begun the dialogue and answers its
  prompts. Pressing Enter to begin is not fair: the user may never do it. Power
  cycles are bounded by `MaxBoots`.
- `OtaUpdate!Spec`: weak for the loop, and for the library together with what follows
  it: calls return. Failure is always possible and never required.
- `UsbLineReader!Spec`: weak for the host's configuration of the device and for the
  reader's task. Typing is not fair.
- `RadarLibraries`, `RadarDataManager` and `Cm55` are checked for safety only: nothing in
  their code guarantees when a task runs.

Deadlock is not checked: every model ends at its bound on verdicts, boots, bytes
or frames, or at a halt of the code.

## What the violated runs show

1. `IpcLostDetection`. `proj_cm33_ns/FreeRTOSConfig.h:138` sets the mask of critical sections to
   0x40 while the pipe interrupt has priority 1, which is 0x20 with three priority
   bits. The interrupt comes between the copy of the detection and the clearing of
   its flag, and a new detection is gone. With 0x3F, `IpcMasked` shows, it is not.
2. `DeviceSaveFails`. When saving fails the configurator deletes itself with its flag
   still set, and the application waits for ever (`app_configurator_task.c:207`).
3. `DeviceFirstConfig`. `app_task` takes its identity before the wait in which a first
   configuration is entered; the device joins the new network with the default
   identity until the next reset (`app_task.c:265`).
4. `OtaEraseOffset`. `cy_ota_mem_erase` takes an address in neither window as 0, where
   read and write take it as an offset (`cy_ota_flash.c:301`).
5. `RdmUnpaced`. A notification that comes during a read makes the task read again what
   it has acknowledged, and `run` moves the buffer under it
   (`xensiv_radar_data_management.c:319`).

Seen while modelling, without a run of its own:

- `samples` of the data manager is not reduced when the queue moves on. As long as
  each delivery is the fill level this does not show; a short or failing read
  notifies tasks of bytes that are not there.
- A buffer of exactly one fill level loses data: when it is full and its only chunk is
  acknowledged, the next `run` reads nothing, notifies and moves the queue on to an empty
  one; the task reads and acknowledges the old bytes again, and the chunk that then
  arrives is dropped unread. `ChunksInOrder` is for room for two.
- A second unsubscription of a freed slot counts a live subscriber off.
- A certificate slot that cannot be read is taken for an empty one and the
  registered certificate is replaced; a failing `psa_its_remove` is only logged and
  the cleared configuration comes back.
- Two equal largest axes y and z make `Orientation` report x, and -32768 is its own
  absolute value; `LargestAxis` excludes both. A read that fails is sent as the
  orientation before it.
- The floor of 1e-4 in `filter_range_profile` (`extractions.c:247`) makes the slim algorithms switch
  from the nearest target to the strongest when no smoothed value reaches it. `radar.c:326`
  gives 2.7e-4 as a mean value, so a weak scene may well be on the other side.
- `cmplx_frame_transpose` keeps the offset of a channel in `uint16_t` (`preprocess.c:309`): with three
  channels of 256 x 128 the third is written over the first. `remove_mean_3d_cf64` passes
  the step of axis 0 as `uint16_t`. Neither has a caller with such a frame.
- A record of another version or size is neither erased at boot nor by the configurator
  (which only offers to clear a record that is valid). The first setter gives the record the current
  version, so a member that is then refused or not given keeps what the earlier
  firmware left there; `OneSession` allows for it.
- The slim algorithms look for maxima inside the profile only: of several targets one in
  a border bin is passed over, and two that are two bins apart can give a maximum
  in the empty bin between them. `slim_algo` failing leaves `slim_res` as it was, and
  `processing_task` feeds the model all the same. `super_slim_algo` reports the value of
  the unfiltered peak, and its mean of wrapped phases cancels at half a turn.
  With fewer than 16 chirps `new_preproc_work_arrays` leaves the Doppler window unset; the
  model has at least 16.
- `free_preproc_work_arrays` does not free `x_range_keep` (nothing calls it); for an unknown
  mode `pick_best_hand_detection` asserts a string, which is never false, and then
  uses a pointer that is NULL; `cmplx_image_transpose` describes its result with the
  dimensions of its source, which CMSIS refuses where it checks dimensions and the image
  is not square (`TransposeRefused`). `radar_init` ignores a failing SPI set-up and always
  returns 0.
- A task that needs longer than a frame gets parts of two frames (`audio.c:201` reads
  as if it could not); `HeardInOrder` says what then still holds.
- If a radar frame comes before the last is taken, the flag that is cleared late
  leaves a frame in the sensor's FIFO, and the task stays one behind.
- `IMU_FLAG` is not volatile; release builds by GCC are refused (`common.mk:59`).
- A line ended by CR LF that is cut between the two is read as a line and an empty
  line, which at the password prompt means an open network. What is typed ahead of
  the password prompt is echoed in clear and dropped (with `TypeAhead` set,
  `PasswordMasked` is violated); so is the rest of a password that is typed before
  the LF of such a pair is read. A line that fills the buffer is never returned.

## Proofs

| Theorem | For every | Statement |
|---|---|---|
| `IpcDetection_proofs!TypeCorrect` | constants | types; payloads name verdicts that exist |
| `TearIsBounded` | constants | `TornByAtMostOne` |
| `OnlyRefusedIsMissing` | constants | `AcceptedIsReceived` |
| `PacedCacheIsCoherent` | constants with `Paced` | `CacheCoherent`: the cache is one verdict's |
| `TakenAtMostOnce` | constants with `Paced` | `DetectionTakenOnce` |
| `LatestDetectionIsKept` | constants with `Paced` and a masking priority | `LatestDetectionKept` |
| `MaskedCopyIsCoherent` | constants with `Paced` and a masking priority | `PayloadCoherent` |
| `MaskedCopyIsWhole` | constants with a masking priority, and a producer of any speed | `CopyIsWhole`: the call returns the whole payload that is cached when it ends |
| `TakenIsDetection` | constants | `SavedIsDetection` |
| `ChannelIsALatch` | constants with `Paced` and a masking priority | `ImplementsLatch`: the refinement of `DetectionLatch` |
| `Device_proofs!DeviceConfigures` | boots and failing calls | `DeviceSpec => Spec`: a device, with its certificate and its boot order, implements `Provisioning`; the next five hold of both |
| `TypeCorrect` | boots, failing calls and records of an earlier firmware, as for the next ones | types |
| `StoredRecordIsOneSession` | boots and failing calls | `StoredIsOneSession` |
| `CredentialsAreConsistent` | constants without a built-in network | `CredentialsOfOneSource` |
| `ClearedRecordIsGone` | boots and failing calls but `its_get` and `its_remove` | `ClearedIsGone` |
| `StoredIdentityIsUsed` | boots and failing calls | `StoredRecordIsUsed` |
| `SdkIsGivenTheStoredCertificate` | boots and failing calls | `SdkCertificateIsStored` |
| `OneCertificate` | boots and failing calls, if the slot can be read | `SameCertificate` |
| `OtaUpdate_proofs!TypeCorrect` | sizes of row, sector, flash, image and piece, tries, boots and failures, for a slot addressed in a window | types |
| `DoneIsWritten`, `OtherImagesAreKept`, `NothingElseIsWritten` | the same | `DoneMeansWritten`, `OtherImagesKept`, `WritesOnlyWhatIsAsked` |
| `UpdatesAreAnswered` | constants | `AnsweredBeforeTelemetry`: also that no round that polls has skipped its telemetry |
| `Cm55_proofs!SamplesInOrder` | sizes of frame and interrupt, numbers of frames, however late the task | `HeardInOrder` |
| `FrameSeenWhole` | antennas, samples, numbers of frames | `OneFrameSeen` |
| `FramesAllProcessed` | the same | `EveryFrameProcessed` |
| `PeriodsAreRead` | rates and numbers of ticks | `EveryPeriodRead` |
| `OrientationIsLargestAxis` | widths of a component | `LargestAxis` |
| `UsbLineReader_proofs!BufferNeverFull` | dialogues, buffers, cuts into pieces | types; what is received fits the buffer |
| `LinesReturnedAsTyped`, `PasswordIsMasked` | dialogues, buffers and cuts, for a user who waits for the prompt and lines that end in one character | `LinesAsTyped`, `PasswordMasked` |
| `HandDetection_proofs!RegionsStayInImage` | frames, bands, guards, images | `RegionsInImage` |
| `ClustersAlwaysRuns` | frames, thresholds, images | `ClustersAreRuns` |
| `ReportedIsHandOfRegion` | frames, bands, guards, thresholds, images and orders of equal peaks | `HandOfTheRegion` |
| `RadarLibraries_proofs!SubscribersAreCounted` | tasks, slots, buffers, deliveries, failing reads | `CountedSubscribers` |
| `ChunksInOrder`, `ChunksAreStretches` | tasks, slots, buffers of two fill levels or more, deliveries of one or more, no failing read and no interrupt within a read | `NothingSkipped`, `OneStretch` |
| `ColumnOfEveryChannel`, `RowOfEveryChannel`, `SlicesOfImage` | frames | a slice takes the samples of its row or column and reads inside the frame |
| `ShiftTwice`, `TransposeTwice` | arrays of even length, images | shifting and transposing lose nothing, twice they give back what was there; a refused transposition changes nothing |
| `TransposedChannels` | frames whose last channel starts below 65536 | each channel is transposed in its place, or the frame is refused and nothing changes |
| `OneMeanPerSample` | axes, and frames whose images have fewer than 65536 samples | each sample is freed of exactly one mean |
| `AtMostHalfATurn` | phases | a difference of phases is at most half a turn and right up to whole turns |
| `FeaturesAreOfNearestHand` | numbers of bins, nearest bins, numbers of chirps from 16 on that are a multiple of four, floors, scenes with at most one target in a bin, numbers of frames, for three antennas | `FeaturesOfNearestHand` |
| `HandsInLibraries` | constants | the three theorems of `HandDetection_proofs` where the libraries are together, as the run checks them |

Along which argument:

- *Tear.* `TornByAtMostOne` is not inductive: it says nothing of the shared payload and
  of the half-done copy. `TornInv` adds `SharedInv` (the id is that of the newest
  verdict, the text that of it or, while the producer is between the two, of the
  one before) and `HandlerInv` (what the handler has copied so far against what is
  now in the shared payload: the channel stays locked until the handler ends, a
  second send is refused and halts the producer, so at most one verdict passes).
- *Received.* `ReceivedInv` follows the message that was accepted last through the handler:
  as soon as a field is copied what is received is not older than that message, and the
  channel is free only after both are.
- *Masked.* `MaskedInv` says, without a word on the producer, that inside a masking section the handler
  does not run and what the call has copied so far is what is still cached.
- *Paced.* `PacedInv` adds `PipeInv`: the channel's place, the endpoint's waiting flag
  and the pending release interrupt are consistent with where handler and
  producer are; a paced producer only starts when all three are clear.
- *Once.* `OrderInv` orders the numbers: what was handed out, what is cached, what the
  handler has recorded. An interrupt inside the get-and-clear call can only make
  the cached number larger.
- *Kept.* `SectionInv` says that within a masking section the handler is idle and that
  what the call has copied so far is what is still in the cache; `KeptInv` then
  follows the latest detection through the steps of both.
- *Latch.* With these invariants the step that records a detection is the latch's `Record`
  (its number is larger than any before), the step that clears the flag is `GetAndClear`
  (what was copied is what is cached, and is not 0), and no other step changes either value.
- *Stored record.* `StoredIsOneSession` is about the storage, which saving copies from
  RAM, so the same must hold of the record in RAM, and there depends on the
  place in the dialogue. `SessionInv` says so: the first setter is only reached with
  a record in which no user of this firmware has entered anything (`Unconfigured`), the
  later ones with a record that this boot's session began. `DeliveredRecords` is where the
  records of an earlier firmware come in.
- *Credentials.* `CredentialsInv` says that up to the last prompt of a session the
  in-progress flag is set and nobody but the record in RAM holds that session's
  network: a reader that is let through has not seen a part of it.
- *Device.* Every step of the device is one of `Provisioning` or leaves all of its variables alone
  (`DeviceConfigures`), so its invariants are proved once, of `Provisioning`.
- *Detection.* `DetectionInv` says that while the flag of a saved detection is set the cached id is
  not 0, and that the flag stays set while the call copies and clears: what it
  copies is a detection's id, also when the text beside it is another verdict's.
- *Cleared.* `ClearedInv` says that before the dialogue the configurator knows whether a record is
  stored, so that it clears one that is; this is where a failing `psa_its_get` would lie.
- *Used.* `UsedInv` says that with a stored record and an untouched dialogue the record in
  RAM is what is stored, and what the application has taken so far is from it.
- *Update.* None of the three properties says anything of a half-done write. `OtaInv` adds
  `Content` (the slot holds the first bytes of the image and is erased behind
  them), `Progress` (the cursor of the write is where the content ends and what is left
  ends where the library will go on) and `MergedRow` (the row put together is what it was
  up to the cursor, then the image, then erased). With them every byte is programmed
  once per erase, and the chunk cut at the end of a row is inside the request: that is
  `RowProgrammed`. A failed write leaves nothing of this, but then the library erases again
  before it writes. `Windows \subseteq XipWindows` is needed for the erase; `OtaEraseOffset`
  shows it cannot be dropped.
- *Certificate.* Every step of the device is a step of the identity or leaves it alone
  (`DeviceStepsIdentity`). `GivenInv` says that a key is only kept where nothing
  failed and that then what was printed is in the slot; `PrintedInv` that a new
  certificate is only generated for an empty slot, for which the look-up must not
  fail.
- *Subscribers.* The counter alone says nothing of who is in which slot. `SlotsInv` adds
  that a task is in one slot or in none, which gives that `deinit`, allowed when the
  counter is 0, drops nobody, and that `init`, which resets the counter and not the
  slots, finds none in use.
- *Chunks.* `NothingSkipped` speaks of readers only. `QueueInv` says that the queue holds the
  last bytes of the sensor in order, so that the bytes in front are numbered
  from what has left the queue (`Handed`). `ReaderInv` says that a task that was notified or has
  acknowledged has a whole chunk before it, and that a task's last read ends where the
  queue begins or, once it has acknowledged, one chunk later. `run` then moves the queue by what every
  subscriber has read. Room for two chunks keeps one in the queue whenever it moves on
  with tasks notified; one is not enough (see above).
- *Regions.* `RegionsInv` adds that the smoothed position, once there is one, lies between the
  nearest bin of a person and the last bin: a weighted mean of bins, and rounding,
  stay between them, so no subtraction in 16 bits wraps.
- *Clusters.* `ClustersInv`: a cluster is a run without a gap that is led by its strongest peak, each
  peak taken is in one, and none that was not. A peak may be next to two clusters; the
  first gets it, and the two stay apart.
- *Index arithmetic.* A pair of indices is one index and comes back from it by division and
  remainder (`PairOfIndex`, `IndexOfPair`); the theorems on slices, transpositions and means apply that
  twice for three dimensions.
- *Audio.* `BuffersInv` says which samples the two buffers hold, whatever the task does:
  the active one the beginning of the next frame and, behind it, the rest of the frame
  before the newest; the full one the newest frame. `TaskInv`, as long as no frame came
  before the last was used up, places the task in it by the number of samples the model
  has been handed; of a task between its two loads it says that the loaded buffer is the
  full one, or that a frame has become full since, so that two frames are whole. A frame
  is a whole number of interrupts (`FrameOfInterrupts`).
- *Radar frames.* No lock protects the sorted frame. `RadarInv` says that while `processing_task` is
  notified or reads, `radar_task` is polling and the frame is whole: the priorities do what a
  lock would. What has been read of it is then one frame's, as many pairs as there are
  places (`SeenOf`). `CountInv` counts: unless a frame came late, the flag says whether the sensor is one
  frame ahead of what was taken.
- *Periods.* `FallInv` accounts for every tick: read, being read, flagged, or merged into
  a flag that was still set. A flag that was seen stays set until it is cleared.
- *Orientation.* `MotionInv` says that what was sent last is the orientation of what was read last; that
  this is the largest axis is a lemma about `Orientation`, by cases.
- *Buffer and lines.* `BufferInv`: what is received and what one call may add fit the buffer. With
  `LineInv`, while a line is read, what is received and what is still on its way are together that
  line and the byte that ends it; what was returned are the lines typed before it.
- *Password.* `PendingInv` says that what is on its way answers the prompt that is being
  read and that only its last byte ends the line: so nothing of a password is
  left when masking is switched off.
- *Hand.* `ImageInv` says what `algo`'s arrays hold from step to step: the masked image,
  the peaks in falling order, and that a peak next to no stronger one starts a cluster of
  its own. A cell that is suggested is then one that stands out (`SuggestedIsVisible`), as
  the background level is a level of the image; in a clear scene every velocity that
  stands out is a peak with a cluster (`FastStartsCluster`), there are no more of them
  than clusters (`PeaksCounted`, by counting), and so each is suggested; the best of them
  is the one the mode asks for.
- *Sums.* Profiles, means and the background level are sums over sets of indices that the
  model takes in whatever order `CHOOSE` gives. `SumUnique` and `SumAnyOrder` say that the
  order does not matter, by a least counterexample (`LeastNatural`): where the provers
  cannot instantiate an induction theorem, the well-foundedness of the numbers does. A sum
  over chirps is taken apart (`SumSplit`) and moved by one (`SumMoved`) by that
  uniqueness.
- *Slim algorithms.* `SlimInv` says what the work arrays hold of the scene, step by step.
  Removing the mean over chirps leaves of a sample the number of chirps times what moves
  in its bin and nothing of what stands still (`MovingSample`): over a multiple of four
  chirps the quarters of a turn cancel, because half a turn on they are opposite
  (`CancelledSum`, `FourQuarters`). So the range profile is a multiple of the strengths of
  what moves (`ProfileOfMovers`), whichever chirp it starts with. Of targets three bins
  apart, none more than twice another, the first maximum of the smoothed profile that
  passes the floor is the nearest (`NearestPeakIsFound`, from the weights and the two
  floors); where no value can reach the absolute floor there is no maximum and the peak is
  left, which is a strongest target (`PeakIsFound`). In its bin the Doppler transform has
  one line, at the target's velocity (`OneDopplerLine`, `ShiftedLine`), and in that line,
  or in every chirp of the image kept, the phases are those of its direction
  (`LineOfHand`, `TurnsOfHand`), whose wrapped differences are right up to whole turns.
  What an earlier frame left in the arrays plays no part, since each is written before it
  is read; and of the profile's tail, which is not, nothing is read.

Assumptions are the `ASSUME`s of the modules: ranges of the constants, for the
mask of critical sections the two values of `proj_cm33_ns/FreeRTOSConfig.h:136` and `:138`, and for
what is outside its type: a line ends in bytes, an image has a number for each place, a
scene has at most one target in a bin. `min_range_bin` is at least 1 (3 in the code,
`radar.c:336`), so that the bin without an imaginary part is never looked at, and leaves
at least three bins.

Only model-checked: liveness (`AppStarts`, `SavedIsTaken`, `WaitEndsOrSaveFailed`,
`NewCredentialsTried`, `DownloadEnds`, `ReadReturns`), which TLAPS does not prove under
fairness. Every safety property of the passing runs is a theorem as well. For the radar that
includes the code's 32 chirps and 32 bins, which the run does not reach.

## Not modelled

- `rfft_f32`, `cfft_f32` and `rad2deg` of the preprocessing wrap one call or formula and have no
  caller. Its constant angle corrections and window weights change no order and
  are left out of the model.
- The console (`shared/retarget_io`), the boot loader's `main`, the secure side's
  configuration: no state of their own; MCUboot and TF-M are external.
- Register lists, recordings, model libraries, Makefiles, scripts. Most of the
  repository's lines are one of these: `ready_models/audio_data.h` alone is 79,403 lines of recorded
  samples, close to nine tenths of all. Of the rest the definitions stand
  for more than half.
- Within modelled components: what is printed, times, heap and RTC, payload formats,
  the choice of SDK environments, flash other than the external one, failing writes
  to the terminal.

## Plan

The order was: the detection channel with its proofs (two cores, an interrupt,
the centre of the system), provisioning with its proofs, the device that composes
it with the certificate, the update, the sensor side, the terminal, the radar
preprocessing, then the proofs: of the update, of what the data manager hands out, of the
CM55's tasks, of the terminal's lines, of the hand detection and of the slim algorithms. Still to do:

- The data manager with reads that fail and deliveries below the fill level, and what
  can then still be promised.
